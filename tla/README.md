# A TLA+ development of scx_cognis

scx_cognis is a Linux `sched_ext` CPU scheduler: a BPF program (`main.bpf.c`) that
makes every ordinary scheduling decision in the kernel, and a Rust process that
loads it, restarts it, shows statistics and, with `--userspace-fallback`, can
schedule tasks itself. This directory holds TLA+ models of the parts that are hard
to test, TLC configurations that check them on small instances, and TLAPS proofs
of their main properties for every instance. Paths below are relative to the root
of the repository (`src/main.rs` is the Rust source file of that name).

## 1. Inventory

| Part | State it keeps | Operations | What makes it correct |
|---|---|---|---|
| DSQ hierarchy (`main.bpf.c`) | per-CPU, LLC, node and shared dispatch queues; the kernel's idle mask, local DSQs and pending kicks | `cognis_select_cpu`, `cognis_enqueue`, `cognis_dispatch`, `steal_remote_*` | no task lost, run twice or outside its mask; no lost wakeup; bounded depth of the near tiers; a CPU with work of its own runs it |
| Virtual time (`main.bpf.c`) | `dsq_vtime`, `awake_vtime`, average runtime, `vtime_now` | `cognis_runnable/running/stopping/enable`, `task_dl`, `task_slice` | bounded deadlines and no starvation, although `vtime_now` is stored without a lock |
| Heartbeat (`main.bpf.c`) | timer, `usersched_needed`, `last_dispatch_at`, `SCHED_DSQ` | `usersched_timer_fn`, the user-scheduler branch of `cognis_dispatch` | the user-space scheduler is served before the watchdog; the guard fires for stalls and only for stalls |
| Fallback loop (`main.rs`, `bpf.rs`) | three lanes, `queued` and `dispatched` rings, `nr_scheduled` | `schedule`, `drain_queued_tasks`, `dispatch_task`, `notify_complete`, the BPF consumer | no task lost or duplicated; the loop never wedges |
| Task queue (`task_queue.rs`) | `MaybeUninit` ring, one deferred slot | `push_back`, `pop_front`, `refill_from_deferred` | FIFO; no access to an uninitialised slot |
| Process lifecycle (`main.rs`, `bpf.rs`, `install.sh`) | restart loop, shutdown flag, failure counter, registration, exit info | `init`, `run`, drop, SIGTERM, `exec()`, systemd | fails open; a stop is honoured; restarts after panics are limited |
| Per-PID tables (`ai/trust.rs`, `main.rs`) | open-addressing arrays with tombstones | find, insert, evict | a map: unique, reachable owners; nothing inherited |
| Accounting and trust scores (`ai/trust.rs`, `main.rs`) | lifetime window and score of a PID, samples and exit events under way | dequeue, flush, exit event | a reused PID inherits nothing; every window is closed; scores stay in their range |
| Watchlist (`ai/trust.rs`) | list of SHAME_MAX entries | `worst_actors` | only watched PIDs, none twice, as many as fit, a worst one among them |
| Task policy, classifier, slice controller (`main.rs`, `ai/`) | last slice and stop time of a PID, `vruntime_now`, the current slice | `derive_task_policy`, `classify`, `update` | credit for sleepers is bounded and starves nobody |
| Topology export (`bpf.rs`) | the `rodata` tables | `TopologyExport::detect` | every CPU and LLC index names an existing, inhabited domain |
| Statistics, TUI, installer, benchmarks | configuration and presentation | | |

How they interact: the kernel calls the `ops` of `main.bpf.c` on every CPU
concurrently, each under the run-queue (rq) lock of its CPU only; the queues, the
idle mask and the flags are shared between CPUs. The Rust process shares the `bss`
counters and three ring buffers with BPF; it is itself a task, scheduled through
`SCHED_DSQ` at the heartbeat's request. `sched_ext` ends the scheduler through
`cognis_exit`, which the Rust loop observes; systemd starts the process again
according to its exit status. Exit events (`task_exits`) drive the per-PID tables.

The hard behaviours: decisions that read shared queues first and act later, CPUs
going idle while another one queues a task for them, RT work taking a CPU away, a
flag that is consumed by a CPU that cannot serve it, exits racing panics, signals
racing `exec()`, rings and lanes at their limits, and long sequences of insertions
and evictions. `PROJECT.json` lists them as hazards, each at its line with the
properties that cover it.

## 2. Modules

| Module | Models | Composes / implements |
|---|---|---|
| `CognisDsq` | placement, enqueue, dispatch, stealing on all CPUs | implements `TaskScheduler` |
| `TaskScheduler` | what tasks are promised of a scheduler | |
| `Heartbeat` | timer, guard and dispatch of the user-space scheduler | |
| `Fallback` | the fallback loop between its rings | lanes are the queues of `BoundedFifo` |
| `TaskQueue` | `task_queue.rs` | implements `BoundedFifo` |
| `BoundedFifo` | what a lane promises | |
| `Lifecycle` | process, registration, systemd | |
| `PidTable` | the trust table and the lifetime table | implements `PidMap` |
| `PidMap` | what a per-PID table promises | |
| `Watchlist` | the pass of `worst_actors`, `quarantined_count` | extends `PidTable`, whose table it reads |
| `Accounting` | one PID's window, score, samples and exit events across reuse | its entries live in `PidTable` slots |
| `VirtualTime` | virtual time on all CPUs, one vtime-ordered DSQ | the deadlines `CognisDsq` takes as ranks |
| `TaskPolicy` | what the fallback decides about a task, over many of its runs | the tasks of `Fallback`'s lanes |
| `Topology` | the loop of `TopologyExport::detect` | |
| `ExportedDsq` | `BpfScheduler::init` filling the rodata, then the queues on them | composes `Topology` and `CognisDsq` |
| `*_proofs` | theorems about the module they extend; `CognisDsq_proofs` also about `ExportedDsq`, `Fallback_proofs` about `TaskPolicy`, `PidTable_proofs` about `Watchlist` | |
| `MC*` | instances for TLC | |

Definitions named `...Forgotten`, `...Deep`, `...Late` and the like, each marked
"Mutant" in its comment, are plausible bugs of the definition that follows them.
They are not used by any specification: substituted for that definition, they must
make the property they are listed with in `PROJECT.json` fail.

### CognisDsq

`st`, `home`, `dsq`, `dl`, `local`, `curr`, `idleMask` and `kicked` are the state
of the tasks and of the kernel that the code reads or changes; `enq[c]` and
`disp[c]` are the handlers in progress under the rq lock of CPU `c`.

* Wakeup: `SelectIdle`, `SelectSync` and `SelectBusy` are the outcomes of
  `cognis_select_cpu`, `WakeUnselected` a wakeup for which the kernel does not call it
  (one allowed CPU, or a queued wakeup of a task still being switched out); the task then waits for the rq lock of its CPU
  (`EnqSelected`, `EnqWoken`), so that the CPU may change state in between.
* `cognis_enqueue` is `Enqueue`, with its exits in order: kernel thread or sticky
  task (`StayLocal`), idle CPU (`MoveToIdle`), deferral (`Defer`). Deferral reads
  the depths and chooses the target; `EnqInsert`, a separate step, inserts and
  kicks. `Yield` is the same handler called for a running task whose slice is over,
  `Requeue` for a queued one whose nice value changes. Affinities are constant.
* `cognis_dispatch` is `Peek` (the heads of the own tiers, the best of them), then
  `MoveOwn`, or `Steal` for the scan of the next steal function and `MoveStolen`
  for its move, or `GiveUp`. Between the scan and the move other CPUs run.
* A DSQ is a set of tasks with deadlines; its head is a task with the earliest
  one. Ties between equal deadlines are resolved arbitrarily.
* The average runtime behind `is_task_sticky` is abstracted: on a desktop any task
  may be sticky at any time. `task_dl` yields any rank of `Deadlines`.
* Topology is any `TopologyAssumption`; CPU indices are natural numbers because
  `steal_remote_cpu` scans them in order.
* The user-space scheduler task and the `dispatched` ring are left to `Heartbeat`
  and `Fallback`; statistics are left out.
* `ImplementsScheduler` maps all this to `TaskScheduler`: awake are the tasks on
  their way to `ops.enqueue`, in an insertion, a DSQ, a local DSQ or on a CPU
  (`Awake`), running those on a CPU (`Running`). Everything between two context
  switches, requeues and steals included, is a stutter there.

### Heartbeat

Time is counted in heartbeats. An event that is `k` heartbeats old lies more than
`k - 1` and less than `k` periods back, hence `time_delta() >= n` periods is
`k > n`. `owed` says that a CPU has a dispatch due within its slice (20 ms at most),
which comes before the next heartbeat; a CPU that RT work occupies owes nothing.

### Fallback

`schedule()` is split at every task: `DrainOne`, `DispatchSent`, `DispatchFull`.
The BPF consumer runs between any two of them. The lane of a task
(`derive_task_policy`, `push_task`) is an arbitrary choice. Nothing in `main.bpf.c`
fills the `queued` ring at this commit: `HandOver` is the external producer, and
the loop is checked for every sequence of tasks it may get. A malformed message,
which `dequeue_task` discards with an error, is not produced.

### Lifecycle

`pc` follows `main()`. `streak` counts, for `RestartsBounded` only, the panics in quick
succession of one process, whose image `exec()` may replace. `ops`, `uei` and `link` are the registration in the kernel,
the recorded exit and the `struct_ops` link. The wait for the detachment may end
with the registration gone or by its timeout. `failed` remembers for the property
that sched_ext disabled the scheduler with an error: `"raced"` marks the executions
in which a panic or an init error takes the process down before `run()` has read
that exit. They do end in a new registration; the promise of `README.md` is about
exits Cognis observes, so `FailOpen` is about `"yes"`. The start limit of the unit
(two starts in 30 s) is left out, which only adds behaviours.

### PidTable, Watchlist

`PidTable` is the control of both tables: probe from the hash, stop at an empty
slot, reuse the first tombstone, overwrite the hash slot of a full table.
`FindSlot` and `FreeSlot` say which slot the loops return. The data of a slot is
the number of observations since it was reset. `Watchlist` reads the same table: `at`
is the loop variable of `worst_actors` and `out` its list, an entry named by its slot;
`VisitSlot` is one iteration, which skips the slot (`Skip`), adds it (`Add`) or puts it
in the place of the first entry with a higher score (`Swap`). The pass borrows the
table, so `PidTable`'s operations happen only outside it (`TableStep`). Here the observations are adverse ones, so that more of them mean a lower score.
It takes every score `update_on_exit` can compute, not only those `Accounting`
shows to be reachable at this commit.

### Accounting

One PID and the two rings through which user space learns of it. A life is one stay
of a task under that PID in the scheduling class; the code sees the PID only, the
model numbers the lives to state what may not be mixed. `pc` is the phase of
`run()`: `schedule` (`ReadSample`), `drain_exited_tasks` (`ReadExit`),
`housekeeping` (`Flush`); a phase may end before its ring is empty. `Disable` loses
the event when it chooses to (ring full, kernel thread) and may happen while a
sample is unread. Scores are whole thousandths rounded down, which makes
no difference to the watchlist: the scores settle near -0.15, far above its threshold
of -0.35 (section 6); the signals that `flush_trust_updates` never raises
(`cheat_flagged`, forks, context switches) are left out.

### VirtualTime

Virtual times are relative to `vtime_now`, which therefore is no variable: a store
of `cognis_running` shifts all of them. `Run` is the comparison and `Store` the
assignment, with other CPUs in between. `Enqueue` is `task_dl`, `Wake`
`cognis_runnable`, `Stop` `cognis_stopping`, `Join` `cognis_enable`. Times below
`-Floor` are not told apart, which is sound because `task_dl` lifts a task that is
queued above that. `RaceBound` says how far one stale store may set the front back;
the kernel bounds it by how long a CPU can be delayed between two instructions.

### TaskPolicy

Units of 250 us, one CPU, one vtime-ordered DSQ. `Derive` is `drain_queued_tasks`,
`derive_task_policy` and `dispatch_task` for one task. What the features are computed
from is as old as in the code: a task that wakes up shows the burst before its sleep
(`last`), the gap before that burst, and the slice of the cycle before. A run is
charged twice, by `cognis_stopping` and by `derive_task_policy`, as the code does.
Dispatching a RealTime task puts it at vtime 0, which is `-Floor` here.

### Topology and ExportedDsq

`Probe` is `Topology::new` of scx_utils with the early returns of `detect`, `VisitCpu` and
`IgnoreCpu` are one iteration of its loop over the CPUs in the order of their ids, `Finish`
sets the two counters. `Hosts` is everything the probe may return on ids from `TopoIds`:
holes, nodes without CPUs, LLCs that span nodes and failures included. `export` is the
rodata; `smt_enabled` is left out, since it only steers an idle search that `CognisDsq`
leaves open.

`ExportedDsq` runs `detect` first and `CognisDsq` on its result. An instance of `CognisDsq`
has one topology, its constants: its steps are taken when the rodata say just that
(`Attached`, with the accessors `cpu_llc_idx_for`, `cpu_node_idx_for` and `llc_node_idx_for`)
and the host is one of `RunHosts`. On any other host the model does not run the queues
but leaves by `Restart`, the next round of the loop in `main`, which probes again.

## 3. What TLC checks

Runs that pass:

| Run | Instance | Shows |
|---|---|---|
| `dsq_desktop` | no `scx_bpf_select_cpu_and`; 2 CPUs, each an LLC and a node; 2 free tasks, a pinned kernel thread; RT on CPU 0; 2 deadlines | `HomeAwake`, the inductive invariant `IndInv`, refinement of `TaskScheduler` and the liveness property `HomeProgress`, with every tier and steal stage reachable |
| `dsq_server` | `detect` on every host with ids 0, 1 and 3 (tables for 3 CPUs, 2 LLCs and 2 nodes); the queues on 2 CPUs of one LLC, with the tables of a host whose third CPU lies beyond them (`RunHosts`); 4 tasks, RT on both | `CpuTierShallow` and `SpillBounded` where depth checks race and the tiers overflow; `ExportFaithful`: the tables of every host are faithful, and tasks in one domain's DSQ belong to CPUs of one probed domain |
| `task_queue` | capacity 3, 3 values | `SlotsInitialised`, `DeferredOnlyWhenFull`, refinement of `BoundedFifo` |
| `lifecycle` | limit 2, 4 panics, `exec()` succeeds or fails | `FailOpen` and its inductive form, the liveness property `ShutdownHonoured` |
| `heartbeat` | fallback enabled, RT work from any moment on | `UserschedServed`, `GuardQuiet` and `ServedInv` until RT work arrives, `BacklogGuarded` always |
| `pid_table` | 3 slots, 4 PIDs, 3 of them colliding in the last slot | `TableSound`, refinement of `PidMap`, `WatchlistSound` at the end of every pass, for a list of 2 |
| `fallback` | 4 tasks, lanes of 1 + 1, 2 ring slots, budget 3 | `TasksConserved`, `DeferredSlotFree`, `Drains`, the drain budget |
| `accounting` | 3 lives of one PID, every run burns its slice | `NothingInherited`, the liveness property `Reclaimed` |
| `task_policy` | desktop profile, 3 user tasks of weight 100; runs of 1 ms, sleeps of 4 ms, load changing the slice from 1 ms to 0.5 ms | the liveness property `NoCascade` and the action property `CreditBounded` |
| `virtual_time` | 3 tasks of weights 100, 100 and 50 on 2 CPUs, two wakeup frequencies | `DeadlineBounded`, the action property `OvertakingBounded` and the liveness property `NoStarvation` |

Why the bounds are enough. A race between CPUs in `CognisDsq` needs two of them;
three tasks fill the private tier, the next tier and the CPU, and a fourth one the
shared tier. Three ids give hosts with more LLCs and nodes than the tables hold, and
with a CPU whose number lies beyond them. Two deadlines tell "earlier", "equal" and "later" apart. A ring of
three wraps around with every fill level. Four PIDs overfill three slots, with probe
sequences that wrap and overlap. The guard period is the real one (four
heartbeats), ages saturate two beyond it. Lanes of one and a ring of two saturate
with four tasks in every combination. Three lives are a dead task, its successor and
one more that meets what either left behind. In `virtual_time` two queued tasks reach `STARVATION_NS`, so that all
branches of `lag_scale` are taken, and a stale store may set the front back by the
longest distance three deadlines allow; a task joins once (`MaxJoins`), since a
stream of new tasks is an environment in which no scheduler of this kind promises
anything. In `task_policy` three tasks are what a cascade needs: two that sleep
and wake by turns, so that the CPU is never without a sleeper that has just woken, and
one that waits. A sleep of 4 ms earns the largest sleep bonus (a base slice), a woken task
is boosted and a task that goes on without sleeping is not, and with the mutated
`TaskVtime` the two sleepers do keep the third waiting. RealTime tasks, which precede all
others by design, are not in this instance. Deadlock checking is
off only where the modelled process really ends, after the guard's exit.

Symmetry is used only for interchangeable tasks in runs without liveness.

Fairness. `HomeProgress`: a handler that has started finishes (weak fairness), and
a CPU that keeps wanting its own rq lock gets it (strong fairness, since other CPUs'
enqueues take it in between; the lock is a queued spinlock). Nothing is assumed of
tasks, wakeups or the end of RT work. `ShutdownHonoured` and `StopHonoured`: the
process is scheduled; nothing has to panic, and time and administrators do nothing. `Drains`: the process runs, CPUs keep calling
`ops.dispatch`, and `dequeue_task` does not fail for ever (strong fairness of
`DrainOne`, since a failing dequeue ends the round). `NoStarvation` and `NoCascade`:
a free CPU takes the head of the DSQ, the store follows its comparison, and the
slice ends every run (in `TaskPolicy` stated as its effect, `[]<>~Busy`: a running task
can always stop, and nothing else frees the CPU); tasks need not wake. `Reclaimed`: time passes and `run()` goes
round; what keeps waiting in a ring or as a stale slot is reached in some round
(strong fairness, since a batch may end just before it; rings are FIFO and slots are
scanned in order), and tasks need not do anything.

Runs in which the code does not do what the repository says of it (each is a
finding in `PROJECT.json`, with the sentence it contradicts):

| Run | Property | What happens |
|---|---|---|
| `lifecycle_stop` | `StopHonoured` | SIGTERM during the restart backoff, or before a panic, is lost by a successful `exec()` |
| `policy_cascade` | `NoCascade` | two tasks of weight 800 that run for 2 ms and sleep for 2 ms in turn keep a task of weight 100 in the shared DSQ for ever: their runs are charged divided by their weight, their wake credit of 2 ms is not. Dormant at this commit, since nothing in `main.bpf.c` fills the `queued` ring |

`ShutdownHonoured` is what holds in place of `StopHonoured`: the process image whose
flag is set ends, but the image that `exec()` starts does not know of the signal.
`exec()` takes the failure counter away as well (section 6).

## 4. What is proved

All theorems hold for every value of the constants that satisfies the named
assumptions of the module (non-empty finite sets of CPUs, maps of the right type,
finite sets of tasks, positive capacities and sizes, a guard period of at least two heartbeats).

**CognisDsq_proofs.** `NoLostWakeup` (`HomeAwake`), `PrivateTierShallow`
(`CpuTierShallow`), `SpillDepthBounded` (`SpillBounded`), `TypeCorrect`, from
`IndInvHolds`. `HomeAwake` alone is not inductive: `GiveUp` makes a CPU idle, and
only the history of its dispatch says that it holds no waiting task. `IndInv` adds
that history: a task is in one place (`OnePlace`), it waits in a tier of a CPU it
may run on (`HomeOK`), a dispatching CPU is not idle and has an empty local DSQ
(`CpuOK`), a pending insertion goes to a tier of its CPU, and to the private tier
only while that is empty (`EnqOK`), and a dispatching CPU has seen every tier that
holds a task of its own, and has none left once it steals (`DispOK`). The last
point is preserved because tasks of `c` are only queued under the rq lock of `c`.
The spill bound is inductive together with the insertions under way (`DepthOK`):
depth plus pending insertions never exceeds the threshold minus one plus the number
of CPUs of the domain, since each CPU has at most one and chose when the depth was
below the threshold.

`Refinement` (`ImplementsScheduler`): every step of every CPU is a step of `TaskScheduler`
or a stutter. `IndInv` says that a task is in at most one place; that it is in at least
one is `NothingLost`: a task that has left `cognis_select_cpu` and has not blocked is in a
DSQ, a local DSQ, an insertion under way or on a CPU. It is inductive because every
exit of `cognis_enqueue` places the task (`EnqueuePlaces`) and a move takes it from one
queue to the other in one step (`MovePlaces`). The mask is respected because local
DSQs hold tasks whose `home` is that CPU, and `HomeOK` keeps homes inside the masks.

`TopologyFaithful` (`ExportFaithful`), for every host on finitely many ids and every size of
the tables. The loop invariant of `detect` (`LoopInv`) says of the CPUs seen so far that the
two maps number their domains from 0 on without a gap and each once, so that the counter
is the cardinality of what was seen (`RemapOK`, kept by `RemapAdds`); that their entries are
those numbers and all others are 0 (`CpuEntries`); and that every LLC entry names a node
already counted, the right one where LLCs lie within nodes (`LlcEntries`). The early
returns bound the cardinalities (`RemapBounded`), which keeps `llc_node_idx_map[llc_idx]`
within its array. For the queues, `HomeOK` says that two tasks in one LLC's or node's DSQ
have homes with one index, and the tables that one index means one id.

`TopologyAlwaysMet` (`TopologyMet`), a consequence of the faithful tables: whatever the
probe returns, the rodata satisfy what `TopologyAssumption` asks of `NrLlcs`, `NrNodes`,
`LlcOf`, `NodeOf` and `LlcNode`, also for CPUs that the probe did not see or the tables do
not hold. The assumption of the theorems above is therefore met on every host, and not a
restriction. `ExportedScheduler`: the
composition only adds steps that leave the queues alone (`ExportedQueues`), so their
theorems carry over to it.

**TaskQueue_proofs.** `DeferredYoungest`: the deferred slot is taken only while the ring
is full. `RingSound`: the initialised slots are those from `head` up to
`tail` around the ring, for every capacity. `Refinement`: each operation is the
corresponding operation of `BoundedFifo` on the sequence of contents.

**Lifecycle_proofs.** `FailsOpen` from `FailOpenInvHolds`: an observed error exit is,
until the service is started anew, in exactly one of three places: still recorded
in the exit info of a running process, already the outcome of `run()`, or the exit
status 86. `RestartsBoundedInProcess` (`RestartsBounded`) needs the premise that `exec()`
fails: then `rapid_failures` is the length of the current streak of panics, and no process
goes on after `RAPID_FAILURE_LIMIT` of them. Without the premise the statement is false.

**Heartbeat_proofs.** With the fallback enabled, until RT work arrives, `UserschedServedHolds`
and `GuardQuietHolds`: the last dispatch is never older than the last run, so the
second heartbeat after either finds the user-space scheduler inactive, sets the
flag and makes its CPU dispatch before the third. `BacklogGuardedHolds` needs none of
that: the timer stays armed until it has ended the scheduler, and a heartbeat it
survives finds a recent dispatch or no backlog.

**Fallback_proofs.** `DeferredSlotSuffices` (`DeferredSlotFree`): a drain round
starts with no deferred task and adds one task, and a task put back takes the room it
left.

`NoTaskLost` (`TasksConserved`): the counting formula is not convenient to induct on, so
the five rings and lanes are read as one family of queues (`Queue`), and `EachOnce` says
that no queue repeats a task, no two hold the same one, and together they hold the tasks
in flight. Every step appends a new task (`EnterOnce`), removes a head (`LeaveOnce`) or
moves a head to the back of a queue (`MoveOnce`); that `push_task` keeps its task is
`DeferredSlotFree`, so both invariants are needed together. `OnceConserved` turns
positions into cardinalities. `TypeCorrect` (`TypeOK`): that `nr_scheduled` never exceeds
the number of tasks follows from `EachOnce`, since the tasks of the three lanes are
disjoint sets as large as the lanes are long (`LanesBounded`); it is the only place that
uses that the set of tasks is finite.

`CreditBoundedHolds` (`CreditBounded` of `TaskPolicy`, for the same tasks): lag is cut at
one base slice, the wake credit is at most the slice (`CreditFacts`), and for a weight
of at most 100 the charge for the slice is at least the slice (`InverseFacts`), so
the two credits never add up. `CreditBoundedAnyWeight` says what is left for heavier
tasks, where the charge may be smaller than the credit: `WAKE_DEADLINE_CREDIT_NS` more.
That is the room the counterexample of `policy_cascade` uses.

**VirtualTime_proofs.** `DeadlineBoundedAlways`, for any number of CPUs and tasks and any
weights, bursts and frequencies. The invariant behind it bounds every task, not only
queued ones, and against more than the present front: every task that is not itself
about to store is near the front and near every value a CPU is still about to store
(`FrontsNear`), because any of those stores may come last. What a CPU is about to
store is the virtual time of the one task it runs (`WritesCurrent`, `Owners`).

`OvertakingBoundedAlways` (`OvertakingBounded`) is the step argument behind `NoStarvation`.
The lead of another task over a waiting one is the virtual time it may still use up
before the waiting one is first. Serving the head needs a lead of at least 0, a charged
run uses up some of it (`StopUsesLead`), and nothing gives it back: `task_dl` only moves the
task it enqueues to later times (`EnqueueLater`), so that a sleeper's lag is kept and not
added to (`WakeKeepsLead`), and a store of `vtime_now` moves all tasks alike
(`ShiftKeepsLead`), whichever of two racing stores comes last. Only `cognis_enable`, which
puts a task at the front, may give lead: `MaxJoins` bounds it, and the property excepts it.
What it does not say is that a CPU is ever free: that is the fairness in `NoStarvation`.

**Accounting_proofs.** `NothingInheritedAlways`, and the bound on scores behind the
observation on `trust.rs:6` in section 6 (`NeverQuarantinedAlways`), for any number
of lives and samples. `NothingInherited` needs `CompleteOver`: a life that ended
completely is over and none of its samples is unread, so nothing re-creates the entry
that its exit event removed. The score bound is closed under each observation: from
-0.35 or more the clean-exit term gives at least -0.28, and from there one burned
slice stays at or above -0.35.

**PidTable_proofs.** `TableSoundHolds`: owners are unique and no empty slot lies
between an owner's hash and its slot; eviction leaves a tombstone and insertion
takes the first tombstone or the empty slot that ended the probe, so neither opens
a gap. `Refinement`: the table implements `PidMap`; that an overwriting insertion
happens only with `Size` owners uses the bijection between slots and owners of a
full table. `WatchlistHolds` (`WatchlistSound`): the loop invariant `PassInv` of
`worst_actors` says of the slots visited so far that the entries are distinct watched ones
(`EntriesOK`), that none is missing while the list has room (`AllListed`), and that no visited
slot is worse than every entry (`WorstListed`): the replaced entry is better than the new
one, so a worst entry goes only for a worse one. At the end of the pass the length of
the list is a cardinality, and unique owners make the listed PIDs as many as the slots.

**Only model-checked.** Liveness (`HomeProgress`, `ShutdownHonoured`, `Drains`,
`NoStarvation`, `NoCascade`, `Reclaimed`), which needs fairness and `ENABLED`. Every
invariant and action property of the passing runs is a theorem (`CreditBounded` of the
instance in `Fallback_proofs`).

## 5. What is not modelled

`task_slice`, `update_freq` and the average runtime: run lengths, wakeup frequencies
and stickiness are arbitrary instead. The ring of latency samples and its percentiles.
How samples of the `dispatched` ring enter the DSQ hierarchy (`dispatch_task` and
`kick_task_cpu` in `main.bpf.c`, with the stale `enq_cnt`, the affinity bounce and the
kicks): `Fallback` ends where they are consumed. `rs_select_cpu`, which no caller in the repository uses.
Statistics, TUI, installer, CI and benchmarks: presentation and tooling. Hotplug
inside the DSQ hierarchy: the kernel disables the scheduler on hotplug, which
`Lifecycle` covers.

## 6. Observations without a run

While modelling, these places turned out to do less than their comments suggest.
The models follow the code; no property above claims otherwise.

* `main.bpf.c:1374` "Pick the earliest deadline": the heads of the own tiers are
  compared whatever their affinity, and the move then takes the first task of the
  chosen tier this CPU may run, which may be later than a task in another tier.
* `main.bpf.c:1021`: `steal_remote_llc` settles on the best head without the cpumask
  test of `steal_remote_cpu`, and gives up if no task of that one DSQ may run here.
* `main.bpf.c:732` "Other CPUs can steal from that tier": a task that entered the
  private tier of a CPU before RT work took that CPU waits for another CPU to
  dispatch; `cognis_enqueue` kicks `prev_cpu` only, so an idle CPU sleeps on.
* `src/main.rs:1761` "exceeded {} restart attempts": the counter lives in the process
  image and is lost by every successful `exec()`, and `exec()` is how every panic is
  answered. A scheduler that panics at once is therefore restarted for ever, every
  `RESTART_BACKOFF`; the limit takes effect only while `exec()` fails
  (`RestartsBoundedInProcess`). `RestartsBounded` is no invariant of the `lifecycle` run.
* `src/main.rs:1747`: a panic that comes between an error exit and its being read leads to
  a new registration (`failed = "raced"`), and by the previous point as often as it recurs.
* `main.bpf.c:1753`: the guard's timer is armed only with `--userspace-fallback`,
  although `README.md:50` lists the guard with the default runtime.
* `main.bpf.c:1565`: the guard takes the age of the last dispatch and the backlog of
  this moment; after a long time without either, a task deferred just before the
  timer fires is enough, against "while backlog remained" in its message.
* `main.bpf.c:1356` "Consume all tasks from the @dispatched list":
  `handle_dispatched_task` returns 1, which ends the drain, while dispatch slots
  remain, so one sample is consumed per `ops.dispatch`.
* `main.bpf.c:1528` "immediately finalise its Bayesian reputation record": an exit
  event evicts the last window and the record instead of folding the window in.
* `src/main.rs:725`: an exit event read before a left-over sample of the same life
  leaves that sample to open a window, and later a trust record, of a dead PID.
  `Reclaimed` shows that the window is closed; the record stays until the next exit
  event of that PID or until its slot is overwritten.
* `src/ai/trust.rs:6` "retained to surface repeatedly bad actors": the code does not do
  that. `NeverQuarantinedAlways` proves that no score ever falls below the threshold, however
  often a task burns its slices, so that nothing is ever surfaced, because `drain_queued_tasks` stores
  `cheat_flagged = false` and a task that burns every slice settles near -0.15.
* `src/ai/trust.rs:369` "most distrusted PIDs" and `:397` "swap with the least-bad current
  entry": the first entry with a higher score is replaced, so that a full list can
  drop a PID that is worse than one it keeps. `WatchlistSound` states what is left.
* `src/main.rs:331` "actual sleep gap instead of userspace queueing delay": the gap runs
  from the end of one run to the start of the next and includes the wait for a CPU.
* `src/main.rs:976`: `is_latency_sensitive` names IoWait, but asks for 30 % of the slice
  where IoWait means less than 10 %.
* `src/bpf.rs:155`: an LLC that spans two nodes gets the node of its last CPU, so that
  `llc_node_idx_map` and `cpu_node_idx_map` disagree for the others.
* `src/bpf.rs:704`: `nr_queued` is cleared without synchronisation with a producer; there
  is none at this commit.
* `main.bpf.c:1506`: `now` is `scx_bpf_now()` and `last_run_at` is `bpf_ktime_get_ns()`;
  the `u64` difference is not guarded against wrapping. `VirtualTime` has non-negative
  differences only.

## 7. Plan

Done: the DSQ hierarchy, virtual time, the heartbeat, the fallback loop with its queue
and its policy, the lifecycle, the per-PID tables with accounting and watchlist, and
the topology export, with the proofs above.

Next, in this order:

1. `CognisDsq` extended by the samples of the `dispatched` ring (`dispatch_task`,
   `kick_task_cpu`), composing it with `Fallback`.
2. `task_slice` and `update_freq` in `VirtualTime`, with `u64` arithmetic.
