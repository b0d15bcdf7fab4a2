------------------------------ MODULE Lifecycle ------------------------------
(***************************************************************************)
(* The life of the scx_cognis process: main() with its restart loop,       *)
(* Scheduler::init, run and drop (main.rs), the registration it holds in   *)
(* the kernel (bpf.rs, cognis_exit in main.bpf.c), SIGTERM, and the        *)
(* systemd unit install.sh writes around it.  Time is abstract: a wait may *)
(* end by its condition or by its timeout, and RAPID_FAILURE_WINDOW passes *)
(* at any moment.                                                          *)
(***************************************************************************)
EXTENDS Naturals

CONSTANTS
    RapidFailureLimit,  \* RAPID_FAILURE_LIMIT
    MaxPanics,          \* bound: panics of one service run
    ExecOutcomes        \* what Command::exec() may do: TRUE replaces the image

ASSUME LimitAssumption == RapidFailureLimit \in Nat /\ MaxPanics \in Nat
ASSUME ExecAssumption == ExecOutcomes \subseteq BOOLEAN

VARIABLES
    pc,        \* where main() is
    shutdown,  \* the flag the signal handler sets
    rapid,     \* rapid_failures
    recent,    \* last_failure_at is inside RAPID_FAILURE_WINDOW
    link,      \* BpfScheduler.struct_ops is Some
    ops,       \* the registration: "none", "on", or "off" (still being removed)
    uei,       \* the exit kind cognis_exit recorded
    outcome,   \* what run() came to, while the Scheduler is dropped
    status,    \* exit status of the last process, "none" while it runs
    stopReq,   \* SIGTERM was sent to this service run
    failed,    \* sched_ext disabled Cognis with an error in this service run:
               \* "yes", or "raced" when a panic or an init error kept the
               \* process from reading it
    panics,    \* panics of this service run
    streak     \* panics of this process, whatever exec() makes of its image, no
               \* two successive ones further apart than RAPID_FAILURE_WINDOW

vars == <<pc, shutdown, rapid, recent, link, ops, uei, outcome, status,
          stopReq, failed, streak, panics>>

FlagsOK ==
    /\ shutdown \in BOOLEAN /\ recent \in BOOLEAN
    /\ link \in BOOLEAN /\ stopReq \in BOOLEAN

StatesOK ==
    /\ pc \in {"start", "top", "init", "attached", "run", "drop", "failure",
               "backoff", "exited"}
    /\ ops \in {"none", "on", "off"}
    /\ uei \in {"none", "unreg", "guard", "hotplug", "error"}
    /\ outcome \in {"none", "stop", "restart", "exit", "panic"}
    /\ status \in {"none", "ok", "err", "runtime_failure", "killed"}
    /\ failed \in {"no", "yes", "raced"}

CountersOK ==
    /\ rapid \in Nat
    /\ panics \in 0 .. MaxPanics
    /\ streak \in 0 .. RapidFailureLimit + 2

TypeOK == FlagsOK /\ StatesOK /\ CountersOK

\* systemd has just started the service.
Init ==
    /\ pc = "start" /\ status = "none"
    /\ shutdown = FALSE /\ rapid = 0 /\ recent = FALSE
    /\ link = FALSE /\ ops = "none" /\ uei = "none" /\ outcome = "none"
    /\ stopReq = FALSE /\ failed = "no" /\ streak = 0 /\ panics = 0

-----------------------------------------------------------------------------
(* The kernel's registration. *)

\* Dropping the struct_ops link unregisters a scheduler that is still enabled;
\* the exit kind recorded first is kept.
DropLink ==
    /\ link' = FALSE
    /\ ops' = IF link /\ ops = "on" THEN "off" ELSE ops
    /\ uei' = IF link /\ ops = "on" THEN "unreg" ELSE uei

\* The kernel disables the scheduler: an error (runnable task stall, BPF error),
\* scx_bpf_exit from the progress guard, or CPU hotplug, which asks for a restart.
Disable(kind) ==
    /\ ops = "on"
    /\ ops' = "off" /\ uei' = kind
    /\ failed' = IF kind # "error" THEN failed
                 ELSE IF pc \in {"attached", "run"} THEN "yes" ELSE "raced"
    /\ UNCHANGED <<pc, shutdown, rapid, recent, link, outcome, status, stopReq, streak, panics>>

\* The registration disappears from /sys/kernel/sched_ext/root.
Detached ==
    /\ ops = "off" /\ ops' = "none"
    /\ UNCHANGED <<pc, shutdown, rapid, recent, link, uei, outcome, status,
                   stopReq, failed, streak, panics>>

-----------------------------------------------------------------------------
(* main() *)

\* The process ends; the kernel closes what it still holds.
Exit(code) ==
    /\ pc' = "exited" /\ status' = code
    /\ DropLink
    /\ UNCHANGED <<shutdown, rapid, recent, outcome, stopReq, streak, panics>>

\* A failure that hides a sched_ext error exit the process has not read yet.
Race == failed' = IF failed = "yes" THEN "raced" ELSE failed

\* ctrlc::set_handler
InstallHandler ==
    /\ pc = "start" /\ pc' = "top"
    /\ UNCHANGED <<shutdown, rapid, recent, link, ops, uei, outcome, status,
                   stopReq, failed, streak, panics>>

\* Top of the restart loop.
CheckShutdown ==
    /\ pc = "top"
    /\ IF shutdown
         THEN Exit("ok") /\ UNCHANGED failed
         ELSE /\ pc' = "init"
              /\ UNCHANGED <<shutdown, rapid, recent, link, ops, uei, outcome,
                             status, stopReq, failed, streak, panics>>

\* Scheduler::init registers the scheduler; scx_ops_attach! refuses while another
\* one is registered.
Attach ==
    /\ pc = "init" /\ ops = "none"
    /\ pc' = "attached"
    /\ link' = TRUE /\ ops' = "on" /\ uei' = "none"
    /\ UNCHANGED <<shutdown, rapid, recent, outcome, status, stopReq, failed, streak, panics>>

\* An error of Scheduler::init, before or after the registration.
InitError ==
    /\ pc \in {"init", "attached"}
    /\ Exit("err") /\ Race

InitDone ==
    /\ pc = "attached" /\ pc' = "run"
    /\ UNCHANGED <<shutdown, rapid, recent, link, ops, uei, outcome, status,
                   stopReq, failed, streak, panics>>

\* Mutant: an error exit is treated like a restart request.
OutcomeRestart(kind) == IF kind \in {"error", "hotplug"} THEN "restart" ELSE "stop"

\* What shutdown_and_report and should_restart make of the recorded exit kind:
\* uei_report! turns an error kind into an "EXIT:" error.
Outcome(kind) ==
    IF kind = "error" THEN "exit" ELSE IF kind = "hotplug" THEN "restart" ELSE "stop"

\* run() leaves its loop: the link is dropped, then the exit kind reported.
LeaveLoop ==
    /\ DropLink
    /\ outcome' = Outcome(uei')
    /\ pc' = "drop"
    /\ UNCHANGED <<shutdown, rapid, recent, status, stopReq, failed, streak, panics>>

\* Mutant: exited() looks at the exit info only.
ObserveUei == pc = "run" /\ uei # "none" /\ LeaveLoop

\* while !self.bpf.exited()
ObserveExit == pc = "run" /\ (shutdown \/ uei # "none") /\ LeaveLoop

\* 'q' in the TUI.
QuitTui == pc = "run" /\ LeaveLoop

\* Drop for Scheduler: wait_for_detach returns when the registration is gone or
\* after DETACH_WAIT_TIMEOUT; then the fields are dropped, the link with them.
DropScheduler ==
    /\ pc = "drop"
    /\ IF outcome \in {"stop", "exit"}
         THEN /\ Exit(IF outcome = "exit" THEN "runtime_failure" ELSE "ok")
              /\ UNCHANGED failed
         ELSE /\ DropLink
              /\ pc' = IF outcome = "restart" THEN "top" ELSE "failure"
              /\ outcome' = "none"
              /\ UNCHANGED <<shutdown, rapid, recent, status, stopReq, failed, streak, panics>>

\* A panic inside catch_unwind: in run() the Scheduler is dropped with its link;
\* in init there is no Scheduler yet and only the link goes.
Panic ==
    /\ pc \in {"init", "attached", "run"} /\ panics < MaxPanics
    /\ panics' = panics + 1
    /\ IF pc = "run"
         THEN pc' = "drop" /\ outcome' = "panic" /\ UNCHANGED <<link, ops, uei>>
         ELSE pc' = "failure" /\ DropLink /\ UNCHANGED outcome
    /\ Race
    /\ UNCHANGED <<shutdown, rapid, recent, status, stopReq, streak>>

\* The panic branch: count the failure, then give up or back off.
CountFailure ==
    /\ pc = "failure"
    /\ rapid' = IF recent THEN rapid + 1 ELSE 1
    /\ streak' = IF streak > RapidFailureLimit THEN RapidFailureLimit + 2 ELSE streak + 1
    /\ recent' = TRUE
    /\ IF rapid' > RapidFailureLimit
         THEN pc' = "exited" /\ status' = "err"
         ELSE pc' = "backoff" /\ UNCHANGED status
    /\ UNCHANGED <<shutdown, link, ops, uei, outcome, stopReq, failed, panics>>

\* End of RESTART_BACKOFF: exec() starts a new image, or fails and the loop goes
\* on in this one.
ReExec ==
    /\ pc = "backoff"
    /\ \E replaced \in ExecOutcomes :
         IF replaced
           THEN /\ pc' = "start" /\ shutdown' = FALSE
                /\ rapid' = 0 /\ recent' = FALSE
           ELSE pc' = "top" /\ UNCHANGED <<shutdown, rapid, recent>>
    /\ UNCHANGED <<link, ops, uei, outcome, status, stopReq, failed, streak, panics>>

-----------------------------------------------------------------------------
(* The environment: time, signals and systemd. *)

\* More than RAPID_FAILURE_WINDOW since the last panic: only run() lasts so long.
WindowPasses ==
    /\ pc = "run"
    /\ recent' = FALSE /\ streak' = 0
    /\ UNCHANGED <<pc, shutdown, rapid, link, ops, uei, outcome, status, stopReq,
                   failed, panics>>

\* systemctl stop: the handler sets the flag; without a handler the process dies.
Sigterm ==
    /\ pc # "exited" /\ ~stopReq
    /\ stopReq' = TRUE
    /\ IF pc = "start" THEN pc' = "exited" /\ status' = "killed" /\ UNCHANGED shutdown
       ELSE shutdown' = TRUE /\ UNCHANGED <<pc, status>>
    /\ UNCHANGED <<rapid, recent, link, ops, uei, outcome, failed, streak, panics>>

NewProcess ==
    /\ pc = "exited"
    /\ pc' = "start" /\ status' = "none" /\ outcome' = "none"
    /\ shutdown' = FALSE /\ rapid' = 0 /\ recent' = FALSE
    /\ UNCHANGED <<link, ops, uei>>

\* Mutant: the unit lacks RestartPreventExitStatus.
SystemdRestartAlways ==
    /\ status \in {"err", "runtime_failure"} /\ ~stopReq
    /\ NewProcess
    /\ streak' = 0
    /\ UNCHANGED <<stopReq, failed, panics>>

\* Restart=on-failure with RestartPreventExitStatus=86; a stop is never undone.
SystemdRestart ==
    /\ status = "err" /\ ~stopReq
    /\ NewProcess
    /\ streak' = 0
    /\ UNCHANGED <<stopReq, failed, panics>>

\* systemctl start: a new service run.
AdminStart ==
    /\ NewProcess
    /\ stopReq' = FALSE /\ failed' = "no" /\ streak' = 0 /\ panics' = 0

-----------------------------------------------------------------------------
\* What the process does by itself.
Progress ==
    \/ InstallHandler \/ CheckShutdown \/ Attach \/ InitError \/ InitDone
    \/ ObserveExit \/ DropScheduler \/ CountFailure \/ ReExec

Next ==
    \/ Progress \/ QuitTui \/ Panic
    \/ \E kind \in {"error", "guard", "hotplug"} : Disable(kind)
    \/ Detached
    \/ WindowPasses \/ Sigterm \/ SystemdRestart \/ AdminStart

Spec == Init /\ [][Next]_vars

\* The process is scheduled; nothing makes it panic, and nobody has to
\* press 'q', send a signal or restart the service.
FairSpec == Spec /\ WF_vars(Progress)

-----------------------------------------------------------------------------
(* Properties *)

\* "If sched_ext disables Cognis at runtime, Cognis now fails open" (README.md):
\* after an error exit Cognis is not registered again, by the restart loop, a new
\* image or systemd, until an administrator starts the service; unless a panic or
\* an init error hits the process before run() has read the exit.
FailOpen == failed = "yes" => ops # "on"

\* "a SIGTERM received at any point ... is always observed and stops the outer
\* restart loop" (main.rs): the service ends.
StopHonoured == stopReq ~> pc = "exited"

\* What the loop does guarantee: the image whose handler has set the shutdown flag
\* ends, by exiting or because exec() replaces it, wherever the flag finds it and
\* whatever panics, restarts and detaches follow.
ShutdownHonoured == shutdown ~> (pc = "exited" \/ ~shutdown)

\* "exceeded {} restart attempts in {:?}" (main.rs): the loop answers no more than
\* RAPID_FAILURE_LIMIT panics in quick succession with a restart.  It holds only
\* while exec() fails: the counter is lost with the image exec() replaces.
RestartsBounded == pc \in {"backoff", "top", "init"} => streak <= RapidFailureLimit

\* Why FailOpen is inductive: the error exit stays readable until run() has
\* turned it into the exit status that systemd does not restart.
ErrorReadable ==
    /\ failed = "yes" =>
         /\ ops # "on"
         /\ \/ pc \in {"attached", "run"} /\ uei = "error"
            \/ pc = "drop" /\ outcome = "exit"
            \/ pc = "exited" /\ status = "runtime_failure"
    /\ ops = "on" => link
    /\ ops = "on" => pc \in {"attached", "run"} \/ (pc = "drop" /\ outcome = "panic")

FailOpenInv == TypeOK /\ ErrorReadable
=============================================================================
