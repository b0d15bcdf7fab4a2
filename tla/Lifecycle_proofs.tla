--------------------------- MODULE Lifecycle_proofs ---------------------------
(***************************************************************************)
(* Cognis fails open: proofs about Lifecycle for every limit and every     *)
(* behaviour of exec().                                                    *)
(***************************************************************************)
EXTENDS Lifecycle, TLAPS

\* A service that has just been started satisfies the invariant.
LEMMA InitInv == Init => FailOpenInv
<1>. SUFFICES ASSUME Init PROVE FailOpenInv
  OBVIOUS
<1>1. FlagsOK
  BY DEF Init, FlagsOK
<1>2. StatesOK /\ ErrorReadable
  BY DEF Init, StatesOK, ErrorReadable
<1>3. CountersOK
  BY LimitAssumption DEF Init, CountersOK
<1>. QED BY <1>1, <1>2, <1>3 DEF FailOpenInv, TypeOK

\* The steps of main() keep the error exit readable until it is the exit status.
LEMMA ProgressInv ==
    ASSUME FailOpenInv, Progress
    PROVE  FailOpenInv'
<1>. USE LimitAssumption DEF FailOpenInv, TypeOK
<1>1. CASE InstallHandler
  <2>1. FlagsOK'
    BY <1>1 DEF InstallHandler, FlagsOK
  <2>2. StatesOK'
    BY <1>1 DEF InstallHandler, StatesOK
  <2>3. CountersOK'
    BY <1>1 DEF InstallHandler, CountersOK
  <2>4. ErrorReadable'
    BY <1>1 DEF InstallHandler, StatesOK, ErrorReadable
  <2>. QED BY <2>1, <2>2, <2>3, <2>4
<1>2. CASE CheckShutdown
  <2>1. FlagsOK'
    BY <1>2 DEF CheckShutdown, Exit, DropLink, FlagsOK
  <2>2. StatesOK'
    BY <1>2 DEF CheckShutdown, Exit, DropLink, StatesOK
  <2>3. CountersOK'
    BY <1>2 DEF CheckShutdown, Exit, DropLink, CountersOK
  <2>4. ErrorReadable'
    BY <1>2 DEF CheckShutdown, Exit, DropLink, StatesOK, ErrorReadable
  <2>. QED BY <2>1, <2>2, <2>3, <2>4
<1>3. CASE Attach
  <2>1. FlagsOK'
    BY <1>3 DEF Attach, FlagsOK
  <2>2. StatesOK'
    BY <1>3 DEF Attach, StatesOK
  <2>3. CountersOK'
    BY <1>3 DEF Attach, CountersOK
  <2>4. ErrorReadable'
    BY <1>3 DEF Attach, StatesOK, ErrorReadable
  <2>. QED BY <2>1, <2>2, <2>3, <2>4
<1>4. CASE InitError
  <2>1. FlagsOK'
    BY <1>4 DEF InitError, Exit, DropLink, Race, FlagsOK
  <2>2. StatesOK'
    BY <1>4 DEF InitError, Exit, DropLink, Race, StatesOK
  <2>3. CountersOK'
    BY <1>4 DEF InitError, Exit, DropLink, Race, CountersOK
  <2>4. ErrorReadable'
    BY <1>4 DEF InitError, Exit, DropLink, Race, StatesOK, ErrorReadable
  <2>. QED BY <2>1, <2>2, <2>3, <2>4
<1>5. CASE InitDone
  <2>1. FlagsOK'
    BY <1>5 DEF InitDone, FlagsOK
  <2>2. StatesOK'
    BY <1>5 DEF InitDone, StatesOK
  <2>3. CountersOK'
    BY <1>5 DEF InitDone, CountersOK
  <2>4. ErrorReadable'
    BY <1>5 DEF InitDone, StatesOK, ErrorReadable
  <2>. QED BY <2>1, <2>2, <2>3, <2>4
<1>6. CASE ObserveExit
  <2>1. FlagsOK'
    BY <1>6 DEF ObserveExit, LeaveLoop, DropLink, Outcome, FlagsOK
  <2>2. StatesOK'
    BY <1>6 DEF ObserveExit, LeaveLoop, DropLink, Outcome, StatesOK
  <2>3. CountersOK'
    BY <1>6 DEF ObserveExit, LeaveLoop, DropLink, Outcome, CountersOK
  <2>4. ErrorReadable'
    BY <1>6 DEF ObserveExit, LeaveLoop, DropLink, Outcome, StatesOK, ErrorReadable
  <2>. QED BY <2>1, <2>2, <2>3, <2>4
<1>7. CASE DropScheduler
  <2>1. FlagsOK'
    BY <1>7 DEF DropScheduler, Exit, DropLink, FlagsOK
  <2>2. StatesOK'
    BY <1>7 DEF DropScheduler, Exit, DropLink, StatesOK
  <2>3. CountersOK'
    BY <1>7 DEF DropScheduler, Exit, DropLink, CountersOK
  <2>4. ErrorReadable'
    BY <1>7 DEF DropScheduler, Exit, DropLink, StatesOK, ErrorReadable
  <2>. QED BY <2>1, <2>2, <2>3, <2>4
<1>8. CASE CountFailure
  <2>1. FlagsOK'
    BY <1>8 DEF CountFailure, FlagsOK
  <2>2. StatesOK'
    BY <1>8 DEF CountFailure, StatesOK
  <2>3. CountersOK'
    BY <1>8 DEF CountFailure, CountersOK
  <2>4. ErrorReadable'
    BY <1>8 DEF CountFailure, StatesOK, ErrorReadable
  <2>. QED BY <2>1, <2>2, <2>3, <2>4
<1>9. CASE ReExec
  <2>1. FlagsOK'
    BY <1>9, ExecAssumption DEF ReExec, FlagsOK
  <2>2. StatesOK'
    BY <1>9, ExecAssumption DEF ReExec, StatesOK
  <2>3. CountersOK'
    BY <1>9, ExecAssumption DEF ReExec, CountersOK
  <2>4. ErrorReadable'
    BY <1>9, ExecAssumption DEF ReExec, StatesOK, ErrorReadable
  <2>. QED BY <2>1, <2>2, <2>3, <2>4
<1>. QED BY <1>1, <1>2, <1>3, <1>4, <1>5, <1>6, <1>7, <1>8, <1>9 DEF Progress

\* Panics, signals, the kernel, time and systemd preserve the invariant.
LEMMA EnvironmentInv ==
    ASSUME FailOpenInv,
           \/ QuitTui \/ Panic
           \/ \E kind \in {"error", "guard", "hotplug"} : Disable(kind)
           \/ Detached
           \/ WindowPasses \/ Sigterm \/ SystemdRestart \/ AdminStart
    PROVE  FailOpenInv'
<1>. USE LimitAssumption DEF FailOpenInv, TypeOK
<1>1. CASE QuitTui
  <2>1. FlagsOK'
    BY <1>1 DEF QuitTui, LeaveLoop, DropLink, Outcome, FlagsOK
  <2>2. StatesOK'
    BY <1>1 DEF QuitTui, LeaveLoop, DropLink, Outcome, StatesOK
  <2>3. CountersOK'
    BY <1>1 DEF QuitTui, LeaveLoop, DropLink, Outcome, CountersOK
  <2>4. ErrorReadable'
    BY <1>1 DEF QuitTui, LeaveLoop, DropLink, Outcome, StatesOK, ErrorReadable
  <2>. QED BY <2>1, <2>2, <2>3, <2>4
<1>2. CASE Panic
  <2>1. FlagsOK'
    BY <1>2 DEF Panic, DropLink, Race, FlagsOK
  <2>2. StatesOK'
    BY <1>2 DEF Panic, DropLink, Race, StatesOK
  <2>3. CountersOK'
    BY <1>2 DEF Panic, DropLink, Race, CountersOK
  <2>4. ErrorReadable'
    BY <1>2 DEF Panic, DropLink, Race, StatesOK, ErrorReadable
  <2>. QED BY <2>1, <2>2, <2>3, <2>4
<1>3. CASE \E kind \in {"error", "guard", "hotplug"} : Disable(kind)
  <2>1. FlagsOK'
    BY <1>3 DEF Disable, FlagsOK
  <2>2. StatesOK'
    BY <1>3 DEF Disable, StatesOK
  <2>3. CountersOK'
    BY <1>3 DEF Disable, CountersOK
  <2>4. ErrorReadable'
    BY <1>3 DEF Disable, StatesOK, ErrorReadable
  <2>. QED BY <2>1, <2>2, <2>3, <2>4
<1>4. CASE Detached
  <2>1. FlagsOK'
    BY <1>4 DEF Detached, FlagsOK
  <2>2. StatesOK'
    BY <1>4 DEF Detached, StatesOK
  <2>3. CountersOK'
    BY <1>4 DEF Detached, CountersOK
  <2>4. ErrorReadable'
    BY <1>4 DEF Detached, StatesOK, ErrorReadable
  <2>. QED BY <2>1, <2>2, <2>3, <2>4
<1>5. CASE WindowPasses
  <2>1. FlagsOK'
    BY <1>5 DEF WindowPasses, FlagsOK
  <2>2. StatesOK'
    BY <1>5 DEF WindowPasses, StatesOK
  <2>3. CountersOK'
    BY <1>5 DEF WindowPasses, CountersOK
  <2>4. ErrorReadable'
    BY <1>5 DEF WindowPasses, StatesOK, ErrorReadable
  <2>. QED BY <2>1, <2>2, <2>3, <2>4
<1>6. CASE Sigterm
  <2>1. FlagsOK'
    BY <1>6 DEF Sigterm, FlagsOK
  <2>2. StatesOK'
    BY <1>6 DEF Sigterm, StatesOK
  <2>3. CountersOK'
    BY <1>6 DEF Sigterm, CountersOK
  <2>4. ErrorReadable'
    BY <1>6 DEF Sigterm, StatesOK, ErrorReadable
  <2>. QED BY <2>1, <2>2, <2>3, <2>4
<1>7. CASE SystemdRestart
  <2>1. FlagsOK'
    BY <1>7 DEF SystemdRestart, NewProcess, FlagsOK
  <2>2. StatesOK'
    BY <1>7 DEF SystemdRestart, NewProcess, StatesOK
  <2>3. CountersOK'
    BY <1>7 DEF SystemdRestart, NewProcess, CountersOK
  <2>4. ErrorReadable'
    BY <1>7 DEF SystemdRestart, NewProcess, StatesOK, ErrorReadable
  <2>. QED BY <2>1, <2>2, <2>3, <2>4
<1>8. CASE AdminStart
  <2>1. FlagsOK'
    BY <1>8 DEF AdminStart, NewProcess, FlagsOK
  <2>2. StatesOK'
    BY <1>8 DEF AdminStart, NewProcess, StatesOK
  <2>3. CountersOK'
    BY <1>8 DEF AdminStart, NewProcess, CountersOK
  <2>4. ErrorReadable'
    BY <1>8 DEF AdminStart, NewProcess, StatesOK, ErrorReadable
  <2>. QED BY <2>1, <2>2, <2>3, <2>4
<1>. QED BY <1>1, <1>2, <1>3, <1>4, <1>5, <1>6, <1>7, <1>8

\* The strengthened invariant holds in every reachable state: an error exit that
\* no second failure hides is still readable, or already the exit status.
THEOREM FailOpenInvHolds == Spec => []FailOpenInv
<1>1. ASSUME FailOpenInv, [Next]_vars PROVE FailOpenInv'
  <2>1. CASE Next
    BY <1>1, <2>1, ProgressInv, EnvironmentInv DEF Next
  <2>2. CASE UNCHANGED vars
    BY <1>1, <2>2 DEF vars, FailOpenInv, TypeOK, FlagsOK, StatesOK, CountersOK, ErrorReadable
  <2>. QED BY <1>1, <2>1, <2>2
<1>. QED BY <1>1, InitInv, PTL DEF Spec

\* README: after sched_ext has disabled Cognis with an error, neither the restart
\* loop nor systemd registers it again.
THEOREM FailsOpen == Spec => []FailOpen
<1>1. FailOpenInv => FailOpen
  BY DEF FailOpenInv, ErrorReadable, FailOpen
<1>. QED BY <1>1, FailOpenInvHolds, PTL

-----------------------------------------------------------------------------
(* The rapid-failure limit. *)

\* rapid_failures counts the panics of the current streak, and a process that goes
\* on has not exceeded the limit.
StreakCounted ==
    /\ ~recent => streak = 0
    /\ recent => rapid = streak /\ (pc # "exited" => streak <= RapidFailureLimit)

\* While exec() fails, counting a panic and a new process keep count and streak in
\* step; every other step leaves the three alone or ends the process.
LEMMA StreakPreserved ==
    ASSUME FailOpenInv, StreakCounted, [Next]_vars, TRUE \notin ExecOutcomes
    PROVE  StreakCounted'
<1>. USE LimitAssumption DEF StreakCounted
<1>1. rapid \in Nat /\ streak \in Nat
  BY DEF FailOpenInv, TypeOK, CountersOK
<1>2. CASE CountFailure
  BY <1>1, <1>2 DEF CountFailure
<1>3. CASE ReExec
  <2>1. PICK replaced \in ExecOutcomes :
           IF replaced THEN TRUE ELSE pc' = "top" /\ UNCHANGED <<shutdown, rapid, recent>>
    BY <1>3 DEF ReExec
  <2>2. replaced = FALSE
    BY <2>1, ExecAssumption
  <2>. QED BY <1>3, <2>1, <2>2 DEF ReExec
<1>4. CASE WindowPasses
  BY <1>4 DEF WindowPasses
<1>5. CASE SystemdRestart \/ AdminStart
  BY <1>5 DEF SystemdRestart, AdminStart, NewProcess
<1>6. CASE InstallHandler \/ CheckShutdown \/ Attach \/ InitError \/ InitDone
  BY <1>6 DEF InstallHandler, CheckShutdown, Attach, InitError, InitDone, Exit
<1>7. CASE ObserveExit \/ QuitTui \/ DropScheduler
  BY <1>7 DEF ObserveExit, QuitTui, LeaveLoop, DropScheduler, Exit
<1>8. CASE Panic
  BY <1>8 DEF Panic
<1>9. CASE Detached \/ \E kind \in {"error", "guard", "hotplug"} : Disable(kind)
  BY <1>9 DEF Detached, Disable
<1>10. CASE Sigterm
  BY <1>10 DEF Sigterm
<1>11. CASE UNCHANGED vars
  BY <1>11 DEF vars
<1>. QED BY <1>2, <1>3, <1>4, <1>5, <1>6, <1>7, <1>8, <1>9, <1>10, <1>11 DEF Next, Progress

\* When exec() fails and the loop goes on in this image (main.rs:1786): for every limit
\* and any mixture of panics, hotplug restarts and signals, the process restarts after
\* at most RAPID_FAILURE_LIMIT rapid panics.  A successful exec() takes the premise
\* away, and with it the limit.
THEOREM RestartsBoundedInProcess ==
    ASSUME TRUE \notin ExecOutcomes
    PROVE  Spec => []RestartsBounded
<1>1. Init => StreakCounted
  BY DEF Init, StreakCounted
<1>2. FailOpenInv /\ StreakCounted /\ [Next]_vars => StreakCounted'
  BY StreakPreserved
<1>3. StreakCounted => RestartsBounded
  BY LimitAssumption DEF StreakCounted, RestartsBounded
<1>. QED BY <1>1, <1>2, <1>3, FailOpenInvHolds, PTL DEF Spec
=============================================================================
