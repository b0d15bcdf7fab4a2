--------------------------- MODULE Heartbeat_proofs ---------------------------
(***************************************************************************)
(* With the user-space scheduler enabled, and until RT work first takes    *)
(* its CPU, the heartbeat serves it in time and the guard stays quiet:     *)
(* proofs about Heartbeat for every guard interval of at least two         *)
(* heartbeats.                                                             *)
(***************************************************************************)
EXTENDS Heartbeat, TLAPS

\* The state cognis_init leaves behind satisfies the invariant.
LEMMA InitServed == ASSUME UserschedEnabled, Init PROVE ServedInv
<1>1. FlagsOK
  BY FlagAssumption DEF Init, FlagsOK
<1>2. Served
  BY PeriodAssumption DEF Init, Served, Ages
<1>. QED BY <1>1, <1>2 DEF ServedInv

\* rtSeen is never reset.
LEMMA RtRemembered == ASSUME Next, rtSeen PROVE rtSeen'
BY DEF Next, Heartbeat, DispatchHere, DispatchElsewhere, UserschedSliceEnd, UserschedSleep,
       UserschedWake, CpuBusy, DeferTask, RtStart, RtStop

\* Every step keeps the flags Boolean.
LEMMA FlagsPreserved == ASSUME FlagsOK, Next PROVE FlagsOK'
<1>1. CASE Heartbeat
  BY <1>1 DEF Heartbeat, GuardFires, NudgeUsersched, Older, FlagsOK
<1>2. CASE DispatchHere
  BY <1>2 DEF DispatchHere, RunUsersched, ServeTiers, GoOn, FlagsOK
<1>3. CASE DispatchElsewhere
  BY <1>3 DEF DispatchElsewhere, RunUsersched, ServeTiers, FlagsOK
<1>4. CASE UserschedSliceEnd
  BY <1>4 DEF UserschedSliceEnd, GoOn, FlagsOK
<1>5. CASE UserschedSleep
  BY <1>5 DEF UserschedSleep, FlagsOK
<1>6. CASE UserschedWake
  BY <1>6 DEF UserschedWake, FlagsOK
<1>7. CASE CpuBusy
  BY <1>7 DEF CpuBusy, FlagsOK
<1>8. CASE DeferTask
  BY <1>8 DEF DeferTask, FlagsOK
<1>9. CASE RtStart
  BY <1>9 DEF RtStart, FlagsOK
<1>10. CASE RtStop
  BY <1>10 DEF RtStop, FlagsOK
<1>. QED BY <1>1, <1>2, <1>3, <1>4, <1>5, <1>6, <1>7, <1>8, <1>9, <1>10 DEF Next

\* What a dispatch that does not pick the user-space scheduler does to the ages.
LEMMA ServeTiersAges ==
    ASSUME age \in [Ages -> 0 .. MaxAge], ServeTiers
    PROVE  /\ age' \in [Ages -> 0 .. MaxAge] /\ age'["dispatch"] = 0
           /\ age'["run"] = age["run"] /\ age'["wait"] = age["wait"]
           /\ ~needed \/ sched # "queued"
BY PeriodAssumption DEF ServeTiers, Ages

\* Every step but the arrival of RT work keeps the ages within their bounds.
LEMMA ServedPreserved ==
    ASSUME ~rtSeen', FlagsOK, Served, Next
    PROVE  Served'
<1>. USE PeriodAssumption DEF Served, Ages
<1>1. CASE Heartbeat
  <2>1. ~GuardFires
    BY <1>1 DEF Heartbeat, GuardFires, Older
  <2>2. /\ armed' /\ ~exited' /\ UNCHANGED <<sched, cpu>>
        /\ NudgeUsersched => needed' /\ owed'
    BY <1>1, <2>1, Zenon DEF Heartbeat, FlagsOK
  <2>3. /\ age' \in [Ages -> 0 .. MaxAge] /\ ~owed
        /\ \A a \in Ages : age'[a] = IF age[a] < MaxAge THEN age[a] + 1 ELSE MaxAge
    BY <1>1 DEF Heartbeat, Older
  <2>4. age["run"] >= 1 => NudgeUsersched
    BY DEF NudgeUsersched, Older
  <2>. QED BY <2>2, <2>3, <2>4
<1>2. CASE DispatchHere
  <2>1. CASE RunUsersched
    BY <1>2, <2>1 DEF DispatchHere, RunUsersched
  <2>2. CASE ServeTiers /\ GoOn /\ UNCHANGED sched
    BY <1>2, <2>2, ServeTiersAges DEF DispatchHere, GoOn
  <2>. QED BY <1>2, <2>1, <2>2 DEF DispatchHere
<1>3. CASE DispatchElsewhere
  <2>1. CASE RunUsersched
    BY <1>3, <2>1 DEF DispatchElsewhere, RunUsersched
  <2>2. CASE ServeTiers /\ UNCHANGED <<sched, cpu, owed>>
    BY <1>3, <2>2, ServeTiersAges DEF DispatchElsewhere
  <2>. QED BY <1>3, <2>1, <2>2 DEF DispatchElsewhere
<1>4. CASE UserschedSliceEnd
  BY <1>4 DEF UserschedSliceEnd, GoOn
<1>5. CASE UserschedSleep
  BY <1>5 DEF UserschedSleep
<1>6. CASE UserschedWake
  <2>1. owed => owed'
    BY <1>6, Zenon DEF UserschedWake, FlagsOK
  <2>2. /\ age' = [age EXCEPT !["wait"] = 0]
        /\ sched' = "queued" /\ UNCHANGED <<armed, needed, cpu, exited>>
    BY <1>6 DEF UserschedWake
  <2>. QED BY <2>1, <2>2
<1>7. CASE CpuBusy
  BY <1>7 DEF CpuBusy
<1>8. CASE DeferTask
  <2>1. owed => owed'
    BY <1>8, Zenon DEF DeferTask, FlagsOK
  <2>2. /\ age' = [age EXCEPT !["backlog"] = 0]
        /\ UNCHANGED <<armed, needed, sched, cpu, exited>>
    BY <1>8 DEF DeferTask
  <2>. QED BY <2>1, <2>2
<1>9. CASE RtStart
  BY <1>9 DEF RtStart
<1>10. CASE RtStop
  BY <1>10 DEF RtStop
<1>. QED BY <1>1, <1>2, <1>3, <1>4, <1>5, <1>6, <1>7, <1>8, <1>9, <1>10 DEF Next

\* The inductive invariant holds in every reachable state.
THEOREM ServedInvHolds ==
    ASSUME UserschedEnabled
    PROVE  Spec => []ServedInv
<1>1. ASSUME ServedInv, [Next]_vars PROVE ServedInv'
  <2>1. CASE Next
    BY <1>1, <2>1, FlagsPreserved, ServedPreserved, RtRemembered DEF ServedInv
  <2>2. CASE UNCHANGED vars
    BY <1>1, <2>2 DEF vars, ServedInv, FlagsOK, Served
  <2>. QED BY <1>1, <2>1, <2>2
<1>2. Init => ServedInv
  BY InitServed
<1>. QED BY <1>1, <1>2, PTL DEF Spec

\* usersched_timer_fn serves the user-space scheduler before the third heartbeat
\* after it entered SCHED_DSQ, whoever consumes usersched_needed.
THEOREM UserschedServedHolds ==
    ASSUME UserschedEnabled
    PROVE  Spec => []UserschedServed
<1>1. ServedInv => UserschedServed
  BY DEF ServedInv, Served, UserschedServed
<1>. QED BY <1>1, ServedInvHolds, PTL

\* The dispatch-progress guard never ends a scheduler whose CPU is not taken by RT
\* work.
THEOREM GuardQuietHolds ==
    ASSUME UserschedEnabled
    PROVE  Spec => []GuardQuiet
<1>1. ServedInv => GuardQuiet
  BY DEF ServedInv, Served, GuardQuiet
<1>. QED BY <1>1, ServedInvHolds, PTL

-----------------------------------------------------------------------------
(* The guard itself, with RT work or without. *)

\* What the guard rests on: the ages are counts, and the timer stays armed until it
\* has ended the scheduler.
Guarded ==
    /\ age \in [Ages -> 0 .. MaxAge]
    /\ armed \/ exited
    /\ BacklogGuarded

\* Every step keeps the guard armed and the ages of backlog and dispatch in bounds.
LEMMA GuardedPreserved == ASSUME Guarded, Next PROVE Guarded'
<1>. USE PeriodAssumption DEF Guarded, BacklogGuarded, Ages
<1>1. CASE Heartbeat
  <2>1. /\ age' \in [Ages -> 0 .. MaxAge] /\ backlog' = backlog
        /\ age'["dispatch"] = Older("dispatch") /\ armed
    BY <1>1 DEF Heartbeat, Older
  <2>2. CASE GuardFires
    BY <1>1, <2>1, <2>2 DEF Heartbeat
  <2>3. CASE ~GuardFires
    <3>1. armed' = armed
      BY <1>1, <2>3 DEF Heartbeat
    <3>2. backlog => age'["dispatch"] <= GuardPeriods
      BY <2>1, <2>3 DEF GuardFires, Older
    <3>. QED BY <2>1, <3>1, <3>2
  <2>. QED BY <2>2, <2>3
<1>2. CASE DispatchHere
  <2>1. CASE RunUsersched
    BY <1>2, <2>1 DEF DispatchHere, RunUsersched
  <2>2. CASE ServeTiers
    BY <1>2, <2>2, ServeTiersAges DEF DispatchHere
  <2>. QED BY <1>2, <2>1, <2>2 DEF DispatchHere
<1>3. CASE DispatchElsewhere
  <2>1. CASE RunUsersched
    BY <1>3, <2>1 DEF DispatchElsewhere, RunUsersched
  <2>2. CASE ServeTiers
    BY <1>3, <2>2, ServeTiersAges DEF DispatchElsewhere
  <2>. QED BY <1>3, <2>1, <2>2 DEF DispatchElsewhere
<1>4. CASE UserschedSliceEnd
  BY <1>4 DEF UserschedSliceEnd
<1>5. CASE UserschedSleep
  BY <1>5 DEF UserschedSleep
<1>6. CASE UserschedWake
  BY <1>6 DEF UserschedWake
<1>7. CASE CpuBusy
  BY <1>7 DEF CpuBusy
<1>8. CASE DeferTask
  BY <1>8 DEF DeferTask
<1>9. CASE RtStart
  BY <1>9 DEF RtStart
<1>10. CASE RtStop
  BY <1>10 DEF RtStop
<1>. QED BY <1>1, <1>2, <1>3, <1>4, <1>5, <1>6, <1>7, <1>8, <1>9, <1>10 DEF Next

\* Whatever RT work does, backlog that lasts for DISPATCH_PROGRESS_GUARD_NS without a
\* call of ops.dispatch ends the scheduler.
THEOREM BacklogGuardedHolds ==
    ASSUME UserschedEnabled
    PROVE  Spec => []BacklogGuarded
<1>1. Init => Guarded
  BY PeriodAssumption DEF Init, Guarded, BacklogGuarded, Ages
<1>2. ASSUME Guarded, [Next]_vars PROVE Guarded'
  <2>1. CASE Next
    BY <1>2, <2>1, GuardedPreserved
  <2>2. CASE UNCHANGED vars
    BY <1>2, <2>2 DEF vars, Guarded, BacklogGuarded
  <2>. QED BY <1>2, <2>1, <2>2
<1>3. Guarded => BacklogGuarded
  BY DEF Guarded
<1>. QED BY <1>1, <1>2, <1>3, PTL DEF Spec
=============================================================================
