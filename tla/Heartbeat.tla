------------------------------ MODULE Heartbeat ------------------------------
(***************************************************************************)
(* The heartbeat of main.bpf.c: usersched_timer_fn with its dispatch-      *)
(* progress guard, the usersched_needed flag, and the dispatch of the      *)
(* user-space scheduler task (the Rust process under --userspace-fallback) *)
(* from SCHED_DSQ.  Nothing at this commit fills the "queued" ring buffer  *)
(* or raises nr_scheduled, so the flag is the only pending work.           *)
(*                                                                         *)
(* Time is counted in heartbeats (USERSCHED_TIMER_NS): an event k          *)
(* heartbeats old at a heartbeat happened more than k - 1 and less than k  *)
(* periods before it, so time_delta() >= n periods is k > n.  What a CPU   *)
(* does within a slice (at most 20 ms) comes before the next heartbeat.    *)
(***************************************************************************)
EXTENDS Naturals

CONSTANTS
    UserschedEnabled,  \* --userspace-fallback
    GuardPeriods,      \* DISPATCH_PROGRESS_GUARD_NS / USERSCHED_TIMER_NS
    MaxAge             \* bound: ages are not told apart beyond it

ASSUME FlagAssumption == UserschedEnabled \in BOOLEAN
ASSUME PeriodAssumption ==
    GuardPeriods \in Nat /\ GuardPeriods >= 2 /\ MaxAge \in Nat /\ MaxAge > GuardPeriods

VARIABLES
    armed,     \* the timer is armed
    needed,    \* usersched_needed
    sched,     \* the user-space scheduler task: "asleep", "queued" in SCHED_DSQ
               \* or "running"
    cpu,       \* its CPU: "idle", "busy" with sched_ext tasks, or "rt"
    owed,      \* cognis_dispatch is due on that CPU before the next heartbeat
    backlog,   \* dsq_backlog_exists()
    age,       \* heartbeats since: run: usersched_last_run_at, dispatch:
               \* last_dispatch_at, wait: the task entered SCHED_DSQ, backlog: the
               \* DSQs were last empty
    rtSeen,    \* RT work has occupied that CPU
    exited     \* scx_bpf_exit was called

vars == <<armed, needed, sched, cpu, owed, backlog, age, rtSeen, exited>>

Ages == {"run", "dispatch", "wait", "backlog"}

FlagsOK ==
    /\ armed \in BOOLEAN /\ needed \in BOOLEAN /\ owed \in BOOLEAN
    /\ backlog \in BOOLEAN /\ rtSeen \in BOOLEAN /\ exited \in BOOLEAN

TypeOK ==
    /\ FlagsOK
    /\ sched \in {"asleep", "queued", "running"}
    /\ cpu \in {"idle", "busy", "rt"}
    /\ age \in [Ages -> 0 .. MaxAge]

\* cognis_init: the timer is armed only for the user-space scheduler, which has
\* not run yet (usersched_last_run_at = 0).
Init ==
    /\ armed = UserschedEnabled
    /\ needed = FALSE /\ owed = FALSE /\ backlog = FALSE
    /\ rtSeen = FALSE /\ exited = FALSE
    /\ sched = "asleep" /\ cpu = "idle"
    /\ age = [[a \in Ages |-> 0] EXCEPT !["run"] = MaxAge]

-----------------------------------------------------------------------------
(* usersched_timer_fn *)

Older(a) == IF age[a] < MaxAge THEN age[a] + 1 ELSE MaxAge

\* Mutant: the guard waits one period too long.
GuardFiresLate == backlog /\ Older("dispatch") > GuardPeriods + 1

\* Mutant: the guard compares with the last run of the user-space scheduler.
GuardFiresOnRun == backlog /\ Older("run") > GuardPeriods

\* The guard: backlog, and no ops.dispatch for DISPATCH_PROGRESS_GUARD_NS.
GuardFires == backlog /\ Older("dispatch") > GuardPeriods

\* Mutant: twice the heartbeat period is needed before the nudge.
NudgeLate == Older("run") > 2

\* Mutant: the user-space scheduler is nudged only on an idle CPU.
NudgeIdle == Older("run") > 1 /\ cpu = "idle"

\* The user-space scheduler has not run for a period: wake it up.
NudgeUsersched == Older("run") > 1

\* One period passes.  The timer callback exits, or nudges the user-space
\* scheduler (SCX_KICK_IDLE reaches its CPU only when that is idle) and re-arms.
Heartbeat ==
    /\ ~owed /\ ~exited
    /\ age' = [a \in Ages |-> Older(a)]
    /\ IF armed /\ GuardFires
         THEN exited' = TRUE /\ armed' = FALSE /\ UNCHANGED <<needed, owed>>
         ELSE /\ needed' = (needed \/ (armed /\ NudgeUsersched))
              /\ owed' = (cpu = "busy" \/ (armed /\ NudgeUsersched /\ cpu = "idle"))
              /\ UNCHANGED <<armed, exited>>
    /\ UNCHANGED <<sched, cpu, backlog, rtSeen>>

-----------------------------------------------------------------------------
(* cognis_dispatch and cognis_running, as far as the user-space scheduler is
   concerned. *)

\* usersched_has_pending_tasks tests and clears the flag; the task runs if it is
\* in SCHED_DSQ, and the flag is lost if it is not.
RunUsersched ==
    /\ needed /\ sched = "queued"
    /\ needed' = FALSE /\ sched' = "running"
    /\ cpu' = "busy" /\ owed' = FALSE
    /\ age' = [age EXCEPT !["dispatch"] = 0, !["run"] = 0]
    /\ UNCHANGED backlog

\* The tiers are served instead: a task of the DSQs, or nothing.
ServeTiers ==
    /\ ~needed \/ sched # "queued"
    /\ needed' = FALSE
    /\ backlog' \in {backlog, FALSE}
    /\ age' = [age EXCEPT !["dispatch"] = 0,
                          !["backlog"] = IF backlog' THEN @ ELSE 0]

\* The CPU runs a task, or goes idle, which it does only without backlog.
GoOn == owed' = FALSE /\ (cpu' = "busy" \/ (cpu' = "idle" /\ ~backlog'))

\* On the CPU of the user-space scheduler: after a kick, a block or a slice.
DispatchHere ==
    /\ ~exited /\ (cpu = "busy" \/ (cpu = "idle" /\ owed))
    /\ sched # "running"
    /\ \/ RunUsersched
       \/ ServeTiers /\ GoOn /\ UNCHANGED sched
    /\ UNCHANGED <<armed, rtSeen, exited>>

\* On another CPU; the task may migrate there.
DispatchElsewhere ==
    /\ ~exited
    /\ RunUsersched \/ (ServeTiers /\ UNCHANGED <<sched, cpu, owed>>)
    /\ UNCHANGED <<armed, rtSeen, exited>>

\* The slice of the user-space scheduler is over.  Its own flag was cleared by the
\* first check, so it is not replenished and goes back to SCHED_DSQ.
UserschedSliceEnd ==
    /\ ~exited /\ sched = "running"
    /\ UNCHANGED <<armed, backlog, rtSeen, exited>>
    /\ sched' = "queued" /\ needed' = FALSE
    /\ GoOn
    /\ age' = [age EXCEPT !["dispatch"] = 0, !["wait"] = 0]

-----------------------------------------------------------------------------
(* The user-space scheduler's loop and the rest of the system. *)

\* run() sleeps for IDLE_BACKOFF; its CPU calls cognis_dispatch next.
UserschedSleep ==
    /\ ~exited /\ sched = "running"
    /\ sched' = "asleep" /\ owed' = TRUE
    /\ UNCHANGED <<armed, needed, cpu, backlog, age, rtSeen, exited>>

\* cognis_enqueue puts it in SCHED_DSQ and an idle CPU is rescheduled.
UserschedWake ==
    /\ UserschedEnabled /\ ~exited /\ sched = "asleep"
    /\ sched' = "queued"
    /\ age' = [age EXCEPT !["wait"] = 0]
    /\ owed' = (owed \/ cpu = "idle")
    /\ UNCHANGED <<armed, needed, cpu, backlog, rtSeen, exited>>

\* A task is dispatched straight to the CPU's local DSQ.
CpuBusy ==
    /\ ~exited /\ cpu = "idle" /\ cpu' = "busy"
    /\ UNCHANGED <<armed, needed, sched, owed, backlog, age, rtSeen, exited>>

\* A task is deferred into the DSQ hierarchy, behind RT work on this or another CPU, or
\* behind a task of this CPU, whose slice will end.
DeferTask ==
    /\ ~exited /\ ~backlog
    /\ backlog' = TRUE
    /\ owed' = (owed \/ cpu = "busy")
    /\ age' = [age EXCEPT !["backlog"] = 0]
    /\ UNCHANGED <<armed, needed, sched, cpu, rtSeen, exited>>

RtStart ==
    /\ ~exited /\ cpu # "rt" /\ sched # "running"
    /\ cpu' = "rt" /\ owed' = FALSE /\ rtSeen' = TRUE
    /\ UNCHANGED <<armed, needed, sched, backlog, age, exited>>

RtStop ==
    /\ ~exited /\ cpu = "rt"
    /\ cpu' = "busy" /\ owed' = TRUE
    /\ UNCHANGED <<armed, needed, sched, backlog, age, rtSeen, exited>>

-----------------------------------------------------------------------------
Next ==
    \/ Heartbeat
    \/ DispatchHere \/ DispatchElsewhere
    \/ UserschedSliceEnd \/ UserschedSleep \/ UserschedWake
    \/ CpuBusy \/ DeferTask \/ RtStart \/ RtStop

Spec == Init /\ [][Next]_vars

-----------------------------------------------------------------------------
(* Properties *)

\* As long as its CPU has seen no RT work the user-space scheduler never waits in SCHED_DSQ
\* for three heartbeats, well below the five of the kernel's watchdog, although
\* cognis_dispatch consumes usersched_needed also when the task is not queued.
UserschedServed == ~rtSeen /\ sched = "queued" => age["wait"] <= 2

\* On a system that keeps dispatching, which only RT work can stop, the guard never
\* takes the scheduler down.
GuardQuiet == ~rtSeen => ~exited

\* The dispatch-progress guard protects queued tasks: backlog that has lasted for
\* DISPATCH_PROGRESS_GUARD_NS (and the period in which it runs out) without a
\* call of ops.dispatch ends the scheduler.
BacklogGuarded ==
    backlog /\ ~exited => age["dispatch"] <= GuardPeriods \/ age["backlog"] <= GuardPeriods

\* Why both are inductive without RT work: a task that waits has not run since,
\* and nothing was dispatched since means that it has not run since; so the second
\* heartbeat finds it inactive, raises the flag and makes its CPU dispatch.
Served ==
    /\ sched \in {"asleep", "queued", "running"} /\ cpu \in {"idle", "busy"}
    /\ age \in [Ages -> 0 .. MaxAge]
    /\ armed /\ ~exited
    /\ sched = "running" => cpu = "busy"
    /\ age["dispatch"] <= age["run"] /\ age["dispatch"] <= 2
    /\ age["dispatch"] = 2 => owed
    /\ sched = "queued" =>
         /\ age["wait"] <= age["run"] /\ age["wait"] <= 2
         /\ age["wait"] = 2 => needed /\ owed

ServedInv == FlagsOK /\ (~rtSeen => Served)
=============================================================================
