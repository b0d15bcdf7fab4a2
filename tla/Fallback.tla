------------------------------ MODULE Fallback ------------------------------
(***************************************************************************)
(* The user-space fallback loop (main.rs): schedule() drains the "queued"  *)
(* ring into three lanes, each a TaskQueue (the FIFO queue of BoundedFifo, *)
(* which TaskQueue implements), dispatches the lanes into the "dispatched" *)
(* ring, and tells BPF what is left; cognis_dispatch consumes that ring.   *)
(* What fills "queued" is the environment: no producer exists in           *)
(* main.bpf.c at this commit, and the loop is modelled for any sequence of *)
(* tasks dequeue_task may return.                                          *)
(***************************************************************************)
EXTENDS Naturals, Sequences, FiniteSets

CONSTANTS
    Tasks,
    LaneCapacity,  \* QUEUE_DEPTH, ring capacity of a lane
    RingSlots,     \* samples that fit into "dispatched"
    DrainBudget    \* drain_budget of schedule()

ASSUME BoundAssumption ==
    LaneCapacity \in Nat \ {0} /\ RingSlots \in Nat \ {0} /\ DrainBudget \in Nat \ {0}
ASSUME TasksAssumption == IsFiniteSet(Tasks)

\* rt_queue, boosted_interactive_queue and interactive_queue, best first.
Lanes == {1, 2, 3}

VARIABLES
    queued,       \* the "queued" ring
    lane,         \* lane[l]: the tasks of lane l
    dispatched,   \* the "dispatched" ring
    pc,           \* where run() is: "loop", "drain", "dispatch" or "notify"
    drained,      \* tasks drained by this schedule()
    nrScheduled,  \* nr_scheduled
    dropped,      \* tasks push_task could not keep
    inFlight,     \* tasks handed to user space and not consumed by BPF yet
    quiet         \* no more tasks are handed over

vars == <<queued, lane, dispatched, pc, drained, nrScheduled, dropped, inFlight, quiet>>

\* One schedule() drains at most its budget, and never announces more tasks than
\* there are.
TypeOK ==
    /\ queued \in Seq(Tasks) /\ dispatched \in Seq(Tasks)
    /\ lane \in [Lanes -> Seq(Tasks)]
    /\ pc \in {"loop", "drain", "dispatch", "notify"}
    /\ drained \in 0 .. DrainBudget /\ nrScheduled \in 0 .. Cardinality(Tasks)
    /\ dropped \subseteq Tasks /\ inFlight \subseteq Tasks /\ quiet \in BOOLEAN

Init ==
    /\ queued = << >> /\ dispatched = << >> /\ lane = [l \in Lanes |-> << >>]
    /\ pc = "loop" /\ drained = 0 /\ nrScheduled = 0
    /\ dropped = {} /\ inFlight = {} /\ quiet = FALSE

-----------------------------------------------------------------------------
TasksLen == Len(lane[1]) + Len(lane[2]) + Len(lane[3])
TasksEmpty == TasksLen = 0

\* Mutant: only the RT lane is asked for a deferred task.
HasDeferredRt == Len(lane[1]) > LaneCapacity

\* has_deferred_tasks
HasDeferred == \E l \in Lanes : Len(lane[l]) > LaneCapacity

\* push_task onto a lane with contents q: into the ring or the deferred slot; with
\* neither free it only warns, and the task is gone.
Push(l, q, t) ==
    IF Len(q) <= LaneCapacity
      THEN lane' = [lane EXCEPT ![l] = Append(q, t)] /\ UNCHANGED dropped
      ELSE lane' = [lane EXCEPT ![l] = q] /\ dropped' = dropped \cup {t}

\* Mutant: run() looks at the "queued" ring only.
StartOnQueued ==
    /\ pc = "loop" /\ queued # << >>
    /\ pc' = "drain" /\ drained' = 0
    /\ UNCHANGED <<queued, lane, dispatched, nrScheduled, dropped, inFlight, quiet>>

\* run(): schedule() is called only when there is work.
StartSchedule ==
    /\ pc = "loop"
    /\ queued # << >> \/ ~TasksEmpty \/ nrScheduled > 0
    /\ pc' = "drain" /\ drained' = 0
    /\ UNCHANGED <<queued, lane, dispatched, nrScheduled, dropped, inFlight, quiet>>

\* Mutant: the budget of the drain is ignored.
DrainUnbounded ==
    /\ pc = "drain" /\ ~HasDeferred /\ queued # << >>
    /\ queued' = Tail(queued) /\ drained' = drained + 1
    /\ \E l \in Lanes : Push(l, lane[l], Head(queued))
    /\ UNCHANGED <<dispatched, pc, nrScheduled, inFlight, quiet>>

\* One round of drain_queued_tasks; derive_task_policy chooses the lane.
DrainOne ==
    /\ pc = "drain" /\ drained < DrainBudget /\ ~HasDeferred /\ queued # << >>
    /\ queued' = Tail(queued) /\ drained' = drained + 1
    /\ \E l \in Lanes : Push(l, lane[l], Head(queued))
    /\ UNCHANGED <<dispatched, pc, nrScheduled, inFlight, quiet>>

\* The budget is used up, a lane has a deferred task, the ring is empty, or
\* dequeue_task failed.
DrainEnd ==
    /\ pc = "drain" /\ pc' = "dispatch"
    /\ UNCHANGED <<queued, lane, dispatched, drained, nrScheduled, dropped, inFlight, quiet>>

\* pop_highest_priority_task takes from the first lane that is not empty: the
\* starvation and preemption checks all lead to the boosted lane, which comes
\* before the fair lane anyway.
PopLane(l) == lane[l] # << >> /\ \A k \in 1 .. l - 1 : lane[k] = << >>

DispatchSent ==
    /\ pc = "dispatch" /\ Len(dispatched) < RingSlots
    /\ \E l \in Lanes :
         /\ PopLane(l)
         /\ dispatched' = Append(dispatched, Head(lane[l]))
         /\ lane' = [lane EXCEPT ![l] = Tail(@)]
    /\ UNCHANGED <<queued, pc, drained, nrScheduled, dropped, inFlight, quiet>>

\* Mutant: a task that could not be sent is not put back.
DispatchLost ==
    /\ pc = "dispatch" /\ Len(dispatched) = RingSlots
    /\ \E l \in Lanes : PopLane(l) /\ lane' = [lane EXCEPT ![l] = Tail(@)]
    /\ pc' = "notify"
    /\ UNCHANGED <<queued, dispatched, drained, nrScheduled, dropped, inFlight, quiet>>

\* The ring is full: the task goes back, behind the others of its lane.
DispatchFull ==
    /\ pc = "dispatch" /\ Len(dispatched) = RingSlots
    /\ \E l \in Lanes : PopLane(l) /\ Push(l, Tail(lane[l]), Head(lane[l]))
    /\ pc' = "notify"
    /\ UNCHANGED <<queued, dispatched, drained, nrScheduled, inFlight, quiet>>

DispatchEnd ==
    /\ pc = "dispatch" /\ TasksEmpty
    /\ pc' = "notify"
    /\ UNCHANGED <<queued, lane, dispatched, drained, nrScheduled, dropped, inFlight, quiet>>

\* notify_complete
Notify ==
    /\ pc = "notify" /\ pc' = "loop"
    /\ nrScheduled' = TasksLen
    /\ UNCHANGED <<queued, lane, dispatched, drained, dropped, inFlight, quiet>>

\* cognis_dispatch: bpf_user_ringbuf_drain goes on while its callback returns 0;
\* handle_dispatched_task returns 1 as long as dispatch slots remain, which after
\* the first of MAX_DISPATCH_SLOT they do.  With that the task is BPF's: what its
\* dispatch_task does with the sample is beyond this module.
BpfDrain ==
    /\ dispatched # << >>
    /\ dispatched' = Tail(dispatched)
    /\ inFlight' = inFlight \ {Head(dispatched)}
    /\ UNCHANGED <<queued, lane, pc, drained, nrScheduled, dropped, quiet>>

-----------------------------------------------------------------------------
(* The environment. *)

HandOver(t) ==
    /\ ~quiet /\ t \notin inFlight
    /\ queued' = Append(queued, t) /\ inFlight' = inFlight \cup {t}
    /\ UNCHANGED <<lane, dispatched, pc, drained, nrScheduled, dropped, quiet>>

FallQuiet ==
    /\ ~quiet /\ quiet' = TRUE
    /\ UNCHANGED <<queued, lane, dispatched, pc, drained, nrScheduled, dropped, inFlight>>

\* run() sleeps for IDLE_BACKOFF.
Idle == quiet /\ pc = "loop" /\ UNCHANGED vars

-----------------------------------------------------------------------------
Schedule ==
    \/ StartSchedule \/ DrainOne \/ DrainEnd
    \/ DispatchSent \/ DispatchFull \/ DispatchEnd \/ Notify

Next == Schedule \/ BpfDrain \/ FallQuiet \/ Idle \/ \E t \in Tasks : HandOver(t)

Spec == Init /\ [][Next]_vars

\* The heartbeat keeps running the user-space scheduler, CPUs keep calling
\* cognis_dispatch, and dequeue_task does not fail for ever.
FairSpec ==
    /\ Spec /\ WF_vars(Schedule) /\ WF_vars(BpfDrain)
    /\ SF_vars(DrainOne)

-----------------------------------------------------------------------------
(* Properties *)

Count(t, s) == Cardinality({i \in DOMAIN s : s[i] = t})

\* "the scheduler never drops runnable work": a task handed to user space is in
\* exactly one of the rings and lanes until BPF consumes it, whatever mixture of
\* deferral, full rings and failed reservations it met.
TasksConserved ==
    \A t \in Tasks :
        Count(t, queued) + Count(t, lane[1]) + Count(t, lane[2]) + Count(t, lane[3])
            + Count(t, dispatched) = IF t \in inFlight THEN 1 ELSE 0

\* debug_assert!(false, "deferred queue invariant violated") is unreachable: at
\* most one lane is beyond its ring, and only by its deferred slot, so that the
\* task put back after a failed reservation always finds room.
DeferredSlotFree ==
    /\ dropped = {}
    /\ \A l \in Lanes : Len(lane[l]) <= LaneCapacity + 1
    /\ \A k, l \in Lanes : Len(lane[k]) > LaneCapacity /\ Len(lane[l]) > LaneCapacity => k = l

\* Deferred lanes, which stop the drain, and a full ring, which stops the
\* dispatch, never wedge the loop: once no more tasks arrive, all reach BPF.
Drains == quiet ~> inFlight = {}
=============================================================================
