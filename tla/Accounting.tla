----------------------------- MODULE Accounting -----------------------------
(***************************************************************************)
(* What user space keeps about one PID, and for how long: the lifetime     *)
(* window that drain_queued_tasks opens, the trust record that             *)
(* flush_trust_updates folds a stale window into (TrustTable::             *)
(* update_on_exit), and the exit events of cognis_disable, on which        *)
(* drain_exited_tasks evicts both.  Samples and exit events travel in two  *)
(* ring buffers, so their order is lost; an exit event may be lost as a    *)
(* whole (ring full, kernel thread); the PID is reused.  A life is one     *)
(* stay of a task under this PID in the scheduling class: its number is    *)
(* known to the model only, the code sees the PID.                         *)
(*                                                                         *)
(* PidTable models where entries are kept.  Scores are f32 in the code and *)
(* whole thousandths here, rounded down.  drain_queued_tasks stores        *)
(* cheat_flagged = false, and fork_count and involuntary_ctx_sw are 0 in   *)
(* every ExitObservation: those signals, the streak and the flag never     *)
(* apply.                                                                  *)
(***************************************************************************)
EXTENDS Integers, Sequences

CONSTANTS
    MaxLives,   \* bound: how often a task takes the PID
    SliceNs,    \* slice_assigned_ns
    UsedNs      \* the values slice_used_ns takes

ASSUME AccountingAssumption ==
    MaxLives \in Nat /\ SliceNs \in Nat /\ UsedNs \subseteq Nat

Lives == 1 .. MaxLives

NoWindow == [life |-> 0, used |-> 0]
NoRecord == [lives |-> {}, score |-> 0]

VARIABLES
    life,      \* the number of lives so far
    alive,     \* the last of them has not ended
    samples,   \* the queued ring: a sequence of windows
    exits,     \* the task_exits ring: a sequence of lives
    complete,  \* the lives that ended with an exit event and no sample unread
    pc,        \* what run() does next: "schedule", "exits" or "housekeeping"
    window,    \* the lifetime entry
    stale,     \* last_seen_ns is two seconds ago
    record     \* the trust record: its score, and the lives folded into it

vars == <<life, alive, samples, exits, complete, pc, window, stale, record>>
taskVars == <<life, alive, samples, exits, complete>>

Init ==
    /\ life = 0 /\ alive = FALSE /\ samples = << >> /\ exits = << >> /\ complete = {}
    /\ pc = "schedule"
    /\ window = NoWindow /\ stale = FALSE /\ record = NoRecord

-----------------------------------------------------------------------------
(* TrustTable::update_on_exit *)

Threshold == -350   \* TRUST_THRESHOLD

\* score * alpha + delta, alpha in hundredths, delta in thousandths.
Blend(s, alpha, delta) == (s * alpha) \div 100 + delta
AtMost(s, n) == IF s > n THEN n ELSE s
AtLeast(s, n) == IF s < n THEN n ELSE s

\* The observation flush_trust_updates derives from a window.
SliceUnderrun(w) == w.used < SliceNs \div 2
Preempted(w) == w.used >= SliceNs - SliceNs \div 8

Underran(w, s) == IF SliceUnderrun(w) THEN AtMost(Blend(s, 95, 100), 1000) ELSE s

Exited(s) == AtMost(Blend(s, 97, 60), 1000)
Burned(w, s) == IF Preempted(w) THEN AtLeast(Blend(s, 93, -70), -1000) ELSE s

\* The signals that can apply, in their order: every exit is a clean one.
Rescore(w, s) == Burned(w, Exited(Underran(w, s)))

-----------------------------------------------------------------------------
(* The kernel side *)

Unread(l) == \E k \in DOMAIN samples : samples[k].life = l

\* A task with this PID joins the class.
Start ==
    /\ ~alive /\ life < MaxLives
    /\ life' = life + 1 /\ alive' = TRUE
    /\ UNCHANGED <<samples, exits, complete, pc, window, stale, record>>

\* The task is handed to user space; it runs on only after it was read.
Sample(used) ==
    /\ alive /\ ~Unread(life)
    /\ samples' = Append(samples, [life |-> life, used |-> used])
    /\ UNCHANGED <<life, alive, exits, complete, pc, window, stale, record>>

\* cognis_disable: the task leaves the class, by exiting or, also while it is still
\* queued, for another class.
Disable ==
    /\ alive /\ alive' = FALSE
    /\ \/ /\ exits' = Append(exits, life)
          /\ complete' = IF Unread(life) THEN complete ELSE complete \cup {life}
       \/ UNCHANGED <<exits, complete>>
    /\ UNCHANGED <<life, samples, pc, window, stale, record>>

\* Two seconds pass without a sample.
Age ==
    /\ window # NoWindow /\ ~stale /\ stale' = TRUE
    /\ UNCHANGED <<taskVars, pc, window, record>>

-----------------------------------------------------------------------------
(* run(): schedule, drain_exited_tasks, housekeeping *)

\* One round of drain_queued_tasks: the window is opened or overwritten.
ReadSample ==
    /\ pc = "schedule" /\ samples # << >>
    /\ window' = Head(samples) /\ samples' = Tail(samples) /\ stale' = FALSE
    /\ UNCHANGED <<life, alive, exits, complete, pc, record>>

\* Mutant: an exit event evicts the lifetime entry only.
ReadExitLifetime ==
    /\ pc = "exits" /\ exits # << >>
    /\ exits' = Tail(exits)
    /\ window' = NoWindow /\ stale' = FALSE
    /\ UNCHANGED <<life, alive, samples, complete, pc, record>>

\* One round of drain_exited_tasks, with dequeue_exited_pid: both entries of the
\* PID are evicted.
ReadExit ==
    /\ pc = "exits" /\ exits # << >>
    /\ exits' = Tail(exits)
    /\ window' = NoWindow /\ stale' = FALSE /\ record' = NoRecord
    /\ UNCHANGED <<life, alive, samples, complete, pc>>

\* Mutant: the window stays open.
FlushKept ==
    /\ pc = "housekeeping" /\ stale
    /\ record' = [lives |-> record.lives \cup {window.life},
                  score |-> Rescore(window, record.score)]
    /\ pc' = "schedule"
    /\ UNCHANGED <<taskVars, window, stale>>

\* housekeeping with flush_trust_updates: a stale window is closed and folded into
\* the record.
Flush ==
    /\ pc = "housekeeping" /\ stale
    /\ window' = NoWindow /\ stale' = FALSE
    /\ record' = [lives |-> record.lives \cup {window.life},
                  score |-> Rescore(window, record.score)]
    /\ pc' = "schedule"
    /\ UNCHANGED taskVars

\* A phase ends: its ring is empty or its batch used up, a lane has a deferred task
\* or, in housekeeping, a timer has not elapsed or 256 other PIDs were stale.
NextPhase ==
    /\ pc' = CASE pc = "schedule" -> "exits" [] pc = "exits" -> "housekeeping"
               [] OTHER -> "schedule"
    /\ UNCHANGED <<taskVars, window, stale, record>>

Next ==
    \/ Start \/ Disable \/ Age \/ \E used \in UsedNs : Sample(used)
    \/ ReadSample \/ ReadExit \/ Flush \/ NextPhase

Spec == Init /\ [][Next]_vars

\* Time passes and run() goes round.  Batches are served in FIFO order and the
\* stale PIDs slot by slot, so that what keeps waiting is reached in some round.
FairSpec ==
    /\ Spec
    /\ WF_vars(Age) /\ WF_vars(NextPhase)
    /\ SF_vars(ReadSample) /\ SF_vars(ReadExit) /\ SF_vars(Flush)

-----------------------------------------------------------------------------
(* Properties *)

TypeOK ==
    /\ life \in 0 .. MaxLives /\ alive \in BOOLEAN
    /\ samples \in Seq([life : Lives, used : UsedNs]) /\ exits \in Seq(Lives)
    /\ complete \subseteq Lives
    /\ pc \in {"schedule", "exits", "housekeeping"}
    /\ window \in [life : Lives, used : UsedNs] \cup {NoWindow} /\ stale \in BOOLEAN
    /\ record \in [lives : SUBSET Lives, score : Int]

PendingExit(l) == \E k \in DOMAIN exits : exits[k] = l

\* A life that ended with an exit event and with all its samples read leaves nothing
\* behind once drain_exited_tasks has seen the event: a later task with the same PID
\* never continues its window or its trust score, however the two rings and the
\* flush interleave.
NothingInherited ==
    \A l \in complete : PendingExit(l) \/ (window.life # l /\ l \notin record.lives)

\* No PID ever falls below the threshold of the watchlist, although trust.rs:6 says
\* the table is "retained to surface repeatedly bad actors": with the signals
\* flush_trust_updates can produce, a task that burns every slice settles at -0.15.
NeverQuarantined == record.score >= Threshold

\* The window of every life is closed for good, also when its exit event was lost or
\* was read before its last sample: the two-second staleness test reclaims it.
Reclaimed ==
    \A l \in Lives : (life > l \/ (life = l /\ ~alive)) ~> [](window.life # l)
=============================================================================
