----------------------------- MODULE TaskPolicy -----------------------------
(***************************************************************************)
(* The scheduling policy of the user-space fallback (main.rs,              *)
(* ai/classifier.rs, ai/policy.rs): what derive_task_policy makes of a     *)
(* queued task, and where dispatch_task puts it in the vtime-ordered       *)
(* shared DSQ.  A task's features come from its last run; the slice and    *)
(* the virtual time it is given shape its next ones.  Rings and lanes are  *)
(* Fallback's subject: here a task is derived and dispatched in one step.  *)
(*                                                                         *)
(* Times are whole units of 250 us, rounded down.  Virtual times are kept  *)
(* relative to vruntime_now and told apart down to -Floor.  Ratios (f32 in *)
(* the code) are compared by cross-multiplication.                         *)
(***************************************************************************)
EXTENDS Integers

CONSTANTS
    Tasks,
    Weight,         \* Weight[t]: 1 .. 10000, 100 by default
    KernelWorkers,  \* the tasks is_kernel_worker recognises by their name
    ServerMode,     \* --mode server
    SliceUs,        \* --slice-us, 0 for the profile's default
    SliceUsMin,     \* --slice-us-min, 0 for the profile's default
    Pressures,      \* runnable tasks per CPU the controller may find
    Bursts,         \* lengths of one run on a CPU
    Sleeps,         \* lengths of a sleep
    Waits,          \* time a runnable task waits for a CPU
    ExecCap,        \* exec_runtime is told apart up to here
    Floor,          \* how far behind vruntime_now virtual times are told apart
    MaxRt           \* how often RealTime tasks are queued

\* Weights are positive; run times, sleeps and waits are durations.
ConstantsOK ==
    /\ Weight \in [Tasks -> Nat \ {0}] /\ KernelWorkers \subseteq Tasks
    /\ SliceUs \in Nat /\ SliceUsMin \in Nat /\ Pressures \subseteq Nat
    /\ Bursts \subseteq Nat /\ Sleeps \subseteq Nat /\ Waits \subseteq Nat
    /\ ExecCap \in Nat /\ Floor \in Nat /\ MaxRt \in Nat

ASSUME PolicyAssumption == ConstantsOK

Larger(m, n) == IF m > n THEN m ELSE n
Smaller(m, n) == IF m < n THEN m ELSE n
Clamp(n, lo, hi) == Smaller(Larger(n, lo), hi)

-----------------------------------------------------------------------------
(* BpfProfile::from_opts *)

DefaultSlice == IF ServerMode THEN 32 ELSE 4     \* DEFAULT_*_SLICE_NS
DefaultSliceMin == IF ServerMode THEN 4 ELSE 1   \* DEFAULT_*_SLICE_MIN_NS

SliceNsMin == IF SliceUsMin > 0 THEN SliceUsMin ELSE DefaultSliceMin
BaseSlice == Larger(IF SliceUs > 0 THEN SliceUs ELSE DefaultSlice, SliceNsMin)

-----------------------------------------------------------------------------
(* SliceController *)

TargetedLatency == 24   \* TARGETED_LATENCY_NS
AutoSliceMin == 1       \* AUTO_SLICE_MIN_NS
AutoSliceMax == 32      \* AUTO_SLICE_MAX_NS
Auto(n) == Clamp(n, AutoSliceMin, AutoSliceMax)

\* SliceController::new and SliceController::update; the base slice is never 0.
InitialSlice == Auto(BaseSlice)
UpdatedSlice(perCpu) ==
    Auto(Smaller(Auto(TargetedLatency \div Larger(perCpu, 1)), BaseSlice))

-----------------------------------------------------------------------------
(* Features and labels.  burst is the length of the last run, exec the time *)
(* run since the last sleep, prev the slice of the previous cycle, gap the  *)
(* sleep the code believes in.                                              *)

\* num / den >= pct / 100, and 1.0 for an empty denominator.
AtLeastPct(num, den, pct) == num * 100 >= den * pct

\* HeuristicClassifier::classify, after the kernel-worker test.
Label(t, burst, prev, exec) ==
    CASE t \in KernelWorkers \/ Weight[t] > 9500 -> "RealTime"
      [] burst * 100 > prev * 85 /\ ~AtLeastPct(burst, exec, 30) -> "Compute"
      [] ~AtLeastPct(burst, prev, 10) -> "IoWait"
      [] OTHER -> "Interactive"

WakeBoostMinSleep == 3     \* WAKE_BOOST_MIN_SLEEP_NS
WakeBoostMaxSleep == 100   \* WAKE_BOOST_MAX_SLEEP_NS
ShortSleep(gap) == gap >= WakeBoostMinSleep /\ gap <= WakeBoostMaxSleep

LatencySensitive(label, burst, prev, exec, gap) ==
    /\ label \in {"Interactive", "IoWait"}
    /\ ShortSleep(gap)
    /\ AtLeastPct(burst, exec, 55) /\ AtLeastPct(burst, prev, 30)

\* should_wake_boost
WakeBoosted(label, burst, prev, exec, gap) ==
    /\ LatencySensitive(label, burst, prev, exec, gap)
    /\ AtLeastPct(burst, exec, 60) /\ AtLeastPct(burst, prev, 45)

\* interactive_sleep_bonus_ns
SleepBonus(gap) ==
    IF ~ShortSleep(gap) THEN 0
    ELSE Clamp(gap \div 4, SliceNsMin \div 2, Larger(BaseSlice, SliceNsMin))

ClampMax == Larger(4 * BaseSlice, SliceNsMin)

\* The slice of derive_task_policy.
Slice(t, label, boosted, gap, ai) ==
    LET fair == (ai * Weight[t]) \div 100 + (IF boosted THEN SleepBonus(gap) \div 2 ELSE 0)
        bounded == Clamp(fair, SliceNsMin, ClampMax)
    IN  IF label = "RealTime" THEN Smaller(Larger(bounded, BaseSlice), ClampMax)
        ELSE bounded

WakeDeadlineCredit == 16   \* WAKE_DEADLINE_CREDIT_NS

\* wake_credit_ns of a boosted task; from it wake_deadline_credit_ns.
WakeCredit(slice, gap) ==
    Smaller(Smaller(Larger(SleepBonus(gap), SliceNsMin \div 2), slice), WakeDeadlineCredit)

\* Mutant: the cap on the credit acts as a floor.
DeadlineCreditFloored(slice, gap) ==
    Larger(Larger(WakeCredit(slice, gap), slice \div 2), WakeDeadlineCredit)

DeadlineCredit(slice, gap) ==
    Smaller(Larger(WakeCredit(slice, gap), slice \div 2), WakeDeadlineCredit)

\* scale_by_weight_inverse
ByWeightInverse(t, n) == (n * 100) \div Larger(Weight[t], 1)

-----------------------------------------------------------------------------
VARIABLES
    st,         \* st[t]: "asleep", "queued" (in the shared DSQ) or "running"
    vt,         \* vt[t]: p->scx.dsq_vtime - vruntime_now
    fresh,      \* the tasks that have not been queued yet: their vtime is 0
    lastSlice,  \* lastSlice[t]: last_slice_ns of the lifetime entry, 0 without one
    exec,       \* exec[t]: tctx->exec_runtime, CPU time since the last wakeup
    slept,      \* slept[t]: the sleep between last_stop_ts and this run, Unknown
                \* while last_stop_ts is 0
    last,       \* last[t]: while asleep, the burst of the last run and the gap before
                \* it as a queued_task_ctx would show them
    current,    \* current_slice_ns of the controller
    rtEvents    \* how often a RealTime task was queued

vars == <<st, vt, fresh, lastSlice, exec, slept, last, current, rtEvents>>

Unknown == -1
NeverRan == [burst |-> 0, gap |-> 0]

Init ==
    /\ st = [t \in Tasks |-> "asleep"] /\ vt = [t \in Tasks |-> 0]
    /\ fresh = Tasks
    /\ lastSlice = [t \in Tasks |-> 0]
    /\ exec = [t \in Tasks |-> 0] /\ slept = [t \in Tasks |-> 0]
    /\ last = [t \in Tasks |-> NeverRan]
    /\ current = InitialSlice /\ rtEvents = 0

-----------------------------------------------------------------------------
\* Mutant: a sleeper is put at the far end of its credit or further.
TaskVtimeBehind(t, v, burst) ==
    (IF t \in fresh THEN 0 ELSE Smaller(v, - BaseSlice)) + ByWeightInverse(t, burst)

\* task.vtime after derive_task_policy: a new task starts at the front, a sleeper
\* keeps at most one base slice of credit, and the last burst is charged.
TaskVtime(t, v, burst) ==
    (IF t \in fresh THEN 0 ELSE Larger(v, - BaseSlice)) + ByWeightInverse(t, burst)

\* drain_queued_tasks, derive_task_policy and dispatch_task for t, which comes
\* with virtual time v; dispatching makes the deadline less the credit its
\* dsq_vtime.  vruntime_now follows the largest virtual time.
Derive(t, v, burst, ex, gap) ==
    LET prev == IF lastSlice[t] > 0 THEN lastSlice[t] ELSE Larger(BaseSlice, 4)
        label == Label(t, burst, prev, ex)
        boosted == WakeBoosted(label, burst, prev, ex, gap)
        slice == Slice(t, label, boosted, gap, current)
        vtime == TaskVtime(t, v, burst)
        key == vtime + ByWeightInverse(t, slice)
                 - (IF boosted THEN DeadlineCredit(slice, gap) ELSE 0)
        front == Larger(vtime, 0)
        dispatched == IF label = "RealTime" THEN - Floor ELSE Larger(key - front, - Floor)
    IN  /\ label = "RealTime" => rtEvents < MaxRt
        /\ rtEvents' = IF label = "RealTime" THEN rtEvents + 1 ELSE rtEvents
        /\ lastSlice' = [lastSlice EXCEPT ![t] = slice]
        /\ vt' = [u \in Tasks |-> IF u = t THEN dispatched ELSE Larger(vt[u] - front, - Floor)]
        /\ st' = [st EXCEPT ![t] = "queued"]
        /\ fresh' = fresh \ {t}

Queued == {t \in Tasks : st[t] = "queued"}
Busy == \E t \in Tasks : st[t] = "running"

\* A task wakes up: cognis_runnable resets exec_runtime before it is queued.  A
\* sleep takes time, so that a CPU without work has taken what was queued.
Wake(t) ==
    /\ st[t] = "asleep" /\ (Busy \/ Queued = {})
    /\ Derive(t, vt[t], last[t].burst, 0, last[t].gap)
    /\ exec' = [exec EXCEPT ![t] = 0]
    /\ \E s \in Sleeps : slept' = [slept EXCEPT ![t] = IF t \in fresh THEN Unknown ELSE s]
    /\ last' = [last EXCEPT ![t] = NeverRan]
    /\ UNCHANGED current

\* The head of the shared DSQ gets a CPU.
Run(t) ==
    /\ ~Busy /\ t \in Queued
    /\ \A u \in Queued : vt[t] <= vt[u]
    /\ st' = [st EXCEPT ![t] = "running"]
    /\ UNCHANGED <<vt, fresh, lastSlice, exec, slept, last, current, rtEvents>>

\* recent_sleep_gap_ns: from the end of the run before to the start of this one,
\* the wait for a CPU included.
Gap(t, wait) == IF slept[t] = Unknown THEN 0 ELSE slept[t] + wait

\* cognis_stopping charges the run; the task is queued again, or sleeps.
Stop(t) ==
    /\ st[t] = "running"
    /\ \E b \in Bursts, w \in Waits :
         LET v == vt[t] + ByWeightInverse(t, b)
             ex == Smaller(exec[t] + b, ExecCap)
         IN
         \/ /\ Derive(t, v, b, ex, Gap(t, w))
            /\ exec' = [exec EXCEPT ![t] = ex]
            /\ slept' = [slept EXCEPT ![t] = 0]
            /\ UNCHANGED <<last, current>>
         \/ /\ st' = [st EXCEPT ![t] = "asleep"]
            /\ vt' = [vt EXCEPT ![t] = v]
            /\ last' = [last EXCEPT ![t] = [burst |-> b, gap |-> Gap(t, w)]]
            /\ slept' = [slept EXCEPT ![t] = Unknown]
            /\ UNCHANGED <<fresh, lastSlice, exec, current, rtEvents>>

\* tick_slice_controller
TickSliceController ==
    /\ \E n \in Pressures : current' = UpdatedSlice(n)
    /\ UNCHANGED <<st, vt, fresh, lastSlice, exec, slept, last, rtEvents>>

Next == TickSliceController \/ \E t \in Tasks : Wake(t) \/ Run(t) \/ Stop(t)

Spec == Init /\ [][Next]_vars

\* The CPU takes the head of the DSQ when it is free, and the slice ends every run:
\* a running task can always stop, and nothing else makes the CPU free.
FairSpec ==
    /\ Spec
    /\ WF_vars(\E t \in Tasks : Run(t))
    /\ []<>~Busy

-----------------------------------------------------------------------------
\* However sleepers use their credit, every user task dispatch_task has put into
\* the shared DSQ gets a CPU: the credit of one base slice and the wake credit
\* cause no cascade of sleepers that keeps a queued task from running.
NoCascade ==
    \A t \in Tasks \ KernelWorkers : st[t] = "queued" ~> st[t] = "running"

\* Lag and wake credit together put no user task of ordinary weight further than
\* one base slice behind the front when it is queued.
CreditBounded ==
    [][\A t \in Tasks \ KernelWorkers :
          st[t] # "queued" /\ st'[t] = "queued" => vt'[t] >= - BaseSlice]_vars
=============================================================================
