--------------------------- MODULE CognisDsq_proofs ---------------------------
(***************************************************************************)
(* TLAPS proofs about CognisDsq, for every topology, task set and mode,    *)
(* and about ExportedDsq, for every host the topology may be detected on.  *)
(***************************************************************************)
EXTENDS ExportedDsq, FiniteSetTheorems, TLAPS

\* The tiers of a CPU and the victims of its steal functions are DSQs.
LEMMA TiersAreDsqs ==
    ASSUME NEW c \in CPUs
    PROVE  /\ Tiers(c) \subseteq Dsqs
           /\ CpuDsq(c) \in Tiers(c)
           /\ NoDsq \notin Dsqs
BY TopologyAssumption DEF Tiers, Dsqs, CpuDsq, LlcDsq, NodeDsq, SharedDsq, NoDsq

\* The DSQs a remote scan visits exist: a victim is always one of Dsqs.
LEMMA VictimsAreDsqs ==
    ASSUME NEW c \in CPUs, NEW k \in 2 .. 6
    PROVE  Victims(c, k) \subseteq Dsqs
BY TopologyAssumption DEF Victims, Dsqs

\* The target of a deferred enqueue is a tier of the task's CPU.
LEMMA TargetIsTier ==
    ASSUME NEW c \in CPUs, NEW s \in BOOLEAN, NEW r \in BOOLEAN
    PROVE  TargetDsq(c, s, r) \in Tiers(c)
BY DEF TargetDsq, OverflowDsq, Tiers

\* The private tier of a CPU is a tier of no other CPU.
LEMMA PrivateTier ==
    ASSUME NEW c \in CPUs, NEW b \in CPUs, CpuDsq(b) \in Tiers(c)
    PROVE  b = c
BY DEF Tiers, CpuDsq, LlcDsq, NodeDsq, SharedDsq

\* cpu_spill_threshold is one: the private tier is chosen only when it is empty.
LEMMA PrivateTierEmpty ==
    ASSUME TypeOK, NEW c \in CPUs, NEW s \in BOOLEAN, NEW r \in BOOLEAN,
           TargetDsq(c, s, r) = CpuDsq(c)
    PROVE  dsq[CpuDsq(c)] = {}
<1>1. IsFiniteSet(dsq[CpuDsq(c)])
  BY TaskAssumption, TiersAreDsqs, FS_Subset DEF TypeOK
<1>2. Cardinality(dsq[CpuDsq(c)]) < 1
  BY DEF TargetDsq, OverflowDsq, CpuSpillThreshold, CpuDsq, LlcDsq, NodeDsq, SharedDsq
<1>3. Cardinality(dsq[CpuDsq(c)]) = 0
  BY <1>1, <1>2, FS_CardinalityType
<1>. QED BY <1>1, <1>3, FS_EmptySet

\* The states cognis_init leaves behind satisfy the inductive invariant.
LEMMA InitInv == Init => IndInv
<1>. SUFFICES ASSUME Init PROVE IndInv OBVIOUS
<1>1. TypeOK
  BY TiersAreDsqs DEF Init, TypeOK, NoEnq, NoDisp
<1>2. OnePlace BY TaskAssumption DEF Init, OnePlace, NoEnq
<1>3. HomeOK BY TaskAssumption DEF Init, HomeOK
<1>4. CpuOK BY DEF Init, CpuOK, NoDisp
<1>5. EnqOK BY TaskAssumption DEF Init, EnqOK, NoEnq
<1>6. DispOK BY DEF Init, DispOK
<1>7. HomeAwake BY DEF Init, HomeAwake, Queued
<1>8. CpuTierShallow BY TiersAreDsqs DEF Init, CpuTierShallow
<1>. QED BY <1>1, <1>2, <1>3, <1>4, <1>5, <1>6, <1>7, <1>8 DEF IndInv

\* A wakeup without ops.select_cpu only changes st.
LEMMA WakeUnselectedInv ==
    ASSUME IndInv, NEW t \in Tasks,
           WakeUnselected(t)
    PROVE  IndInv'
<1>1. TypeOK'
  BY DEF IndInv, TypeOK, WakeUnselected
<1>2. OnePlace'
  BY DEF IndInv, TypeOK, OnePlace, WakeUnselected
<1>3. HomeOK' /\ CpuOK' /\ EnqOK' /\ DispOK' /\ HomeAwake' /\ CpuTierShallow'
  BY DEF IndInv, TypeOK, HomeOK, CpuOK, EnqOK, DispOK, HomeAwake,
    CpuTierShallow, Queued, WakeUnselected
<1>. QED BY <1>1, <1>2, <1>3 DEF IndInv

\* cognis_select_cpu moves a sleeping task, which is in no queue.
LEMMA SelectIdleInv ==
    ASSUME IndInv, NEW c \in CPUs, NEW t \in Tasks,
           SelectIdle(t, c)
    PROVE  IndInv'
<1>1. TypeOK'
  BY DEF IndInv, TypeOK, SelectIdle
<1>2. OnePlace'
  BY DEF IndInv, TypeOK, OnePlace, SelectIdle
<1>3. HomeOK'
  BY DEF IndInv, TypeOK, OnePlace, HomeOK, SelectIdle
<1>4. CpuOK'
  BY DEF IndInv, TypeOK, CpuOK, SelectIdle
<1>5. EnqOK'
  BY DEF IndInv, TypeOK, OnePlace, EnqOK, SelectIdle
<1>6. DispOK'
  BY DEF IndInv, TypeOK, OnePlace, DispOK, SelectIdle
<1>7. HomeAwake'
  BY DEF IndInv, TypeOK, OnePlace, HomeAwake, Queued, SelectIdle
<1>8. CpuTierShallow'
  BY DEF IndInv, TypeOK, CpuTierShallow, SelectIdle
<1>. QED BY <1>1, <1>2, <1>3, <1>4, <1>5, <1>6, <1>7, <1>8 DEF IndInv

\* So does a synchronous wakeup.
LEMMA SelectSyncInv ==
    ASSUME IndInv, NEW c \in CPUs, NEW t \in Tasks,
           SelectSync(t, c)
    PROVE  IndInv'
<1>1. TypeOK'
  BY DEF IndInv, TypeOK, SelectSync
<1>2. OnePlace'
  BY DEF IndInv, TypeOK, OnePlace, SelectSync
<1>3. HomeOK'
  BY DEF IndInv, TypeOK, OnePlace, HomeOK, SelectSync
<1>4. EnqOK'
  BY DEF IndInv, TypeOK, OnePlace, EnqOK, SelectSync
<1>5. DispOK'
  BY DEF IndInv, TypeOK, OnePlace, DispOK, SelectSync
<1>6. HomeAwake'
  BY DEF IndInv, TypeOK, OnePlace, HomeAwake, Queued, SelectSync
<1>7. CpuOK' /\ CpuTierShallow'
  BY DEF IndInv, TypeOK, CpuOK, CpuTierShallow, SelectSync
<1>. QED BY <1>1, <1>2, <1>3, <1>4, <1>5, <1>6, <1>7 DEF IndInv

\* A wakeup that finds no idle CPU only changes st.
LEMMA SelectBusyInv ==
    ASSUME IndInv, NEW t \in Tasks,
           SelectBusy(t)
    PROVE  IndInv'
<1>1. TypeOK'
  BY DEF IndInv, TypeOK, SelectBusy
<1>2. OnePlace'
  BY DEF IndInv, TypeOK, OnePlace, SelectBusy
<1>3. HomeOK' /\ CpuOK' /\ EnqOK' /\ DispOK' /\ HomeAwake' /\ CpuTierShallow'
  BY DEF IndInv, TypeOK, HomeOK, CpuOK, EnqOK, DispOK, HomeAwake,
    CpuTierShallow, Queued, SelectBusy
<1>. QED BY <1>1, <1>2, <1>3 DEF IndInv

\* A directly dispatched task reaches a local DSQ, whose CPU is rescheduled.
LEMMA EnqSelectedInv ==
    ASSUME IndInv, NEW c \in CPUs, NEW t \in Tasks,
           EnqSelected(c, t)
    PROVE  IndInv'
<1>1. TypeOK'
  BY DEF IndInv, TypeOK, EnqSelected, RqFree, KickIdle
<1>2. OnePlace'
  BY DEF IndInv, TypeOK, OnePlace, EnqSelected, RqFree, KickIdle
<1>3. HomeOK'
  BY DEF IndInv, TypeOK, OnePlace, HomeOK, EnqSelected, RqFree, KickIdle
<1>4. CpuOK'
  BY DEF IndInv, TypeOK, CpuOK, EnqSelected, RqFree, KickIdle
<1>5. HomeAwake'
  BY DEF IndInv, TypeOK, OnePlace, HomeAwake, Queued, EnqSelected, RqFree,
    KickIdle
<1>6. EnqOK' /\ DispOK' /\ CpuTierShallow'
  BY DEF IndInv, TypeOK, EnqOK, DispOK, CpuTierShallow, EnqSelected, RqFree,
    KickIdle
<1>. QED BY <1>1, <1>2, <1>3, <1>4, <1>5, <1>6 DEF IndInv

\* A dequeued task leaves its DSQ.
LEMMA RequeueInv ==
    ASSUME IndInv, NEW c \in CPUs, NEW t \in Tasks,
           Requeue(c, t)
    PROVE  IndInv'
<1>1. TypeOK'
  BY DEF IndInv, TypeOK, Requeue, Queued
<1>2. OnePlace'
  BY DEF IndInv, TypeOK, OnePlace, Requeue, Queued
<1>3. HomeOK'
  BY DEF IndInv, TypeOK, OnePlace, HomeOK, Requeue, Queued
<1>4. EnqOK'
  BY TiersAreDsqs DEF IndInv, TypeOK, OnePlace, EnqOK, Requeue, Queued
<1>5. DispOK'
  BY DEF IndInv, TypeOK, OnePlace, DispOK, Requeue, Queued
<1>6. HomeAwake'
  BY DEF IndInv, TypeOK, OnePlace, HomeAwake, Queued, Requeue
<1>7. CpuTierShallow'
  BY TiersAreDsqs DEF IndInv, TypeOK, CpuTierShallow, Requeue, Queued
<1>8. CpuOK'
  BY DEF IndInv, TypeOK, CpuOK, Requeue, Queued
<1>. QED BY <1>1, <1>2, <1>3, <1>4, <1>5, <1>6, <1>7, <1>8 DEF IndInv

\* cognis_enqueue keeps a woken task on the local DSQ of its CPU.
LEMMA WokenStayLocalInv ==
    ASSUME IndInv, NEW c \in CPUs, NEW t \in Tasks,
           RqFree(c), home[t] = c, st[t] \in {"selected", "unselected"},
           st' = [st EXCEPT ![t] = "on"], UNCHANGED <<dsq, dl, curr, disp>>,
           StayLocal(c, t)
    PROVE  IndInv'
<1>1. TypeOK'
  BY DEF IndInv, TypeOK, StayLocal, RqFree, KickIdle
<1>2. OnePlace'
  BY DEF IndInv, TypeOK, OnePlace, StayLocal, RqFree, KickIdle
<1>3. HomeOK'
  BY DEF IndInv, TypeOK, OnePlace, HomeOK, StayLocal, RqFree, KickIdle
<1>4. CpuOK'
  BY DEF IndInv, TypeOK, CpuOK, StayLocal, RqFree, KickIdle
<1>5. HomeAwake'
  BY DEF IndInv, TypeOK, OnePlace, HomeAwake, Queued, StayLocal, RqFree,
    KickIdle
<1>6. EnqOK' /\ DispOK' /\ CpuTierShallow'
  BY DEF IndInv, TypeOK, EnqOK, DispOK, CpuTierShallow, StayLocal, RqFree,
    KickIdle
<1>. QED BY <1>1, <1>2, <1>3, <1>4, <1>5, <1>6 DEF IndInv

\* cognis_enqueue moves a woken task to an idle CPU.
LEMMA WokenMoveToIdleInv ==
    ASSUME IndInv, NEW c \in CPUs, NEW t \in Tasks, NEW s \in BOOLEAN, NEW r \in BOOLEAN,
           RqFree(c), home[t] = c, st[t] \in {"selected", "unselected"},
           st' = [st EXCEPT ![t] = "on"], UNCHANGED <<dsq, dl, curr, disp>>,
           MoveToIdle(c, t, s, r)
    PROVE  IndInv'
<1>1. TypeOK'
  BY DEF IndInv, TypeOK, MoveToIdle, PickIdle, RqFree
<1>2. OnePlace'
  BY TaskAssumption DEF IndInv, TypeOK, OnePlace, MoveToIdle, PickIdle,
    RqFree
<1>3. HomeOK'
  BY TaskAssumption DEF IndInv, TypeOK, OnePlace, HomeOK, MoveToIdle,
    PickIdle, RqFree
<1>4. CpuOK'
  BY TaskAssumption DEF IndInv, TypeOK, CpuOK, MoveToIdle, PickIdle, RqFree
<1>5. EnqOK'
  BY DEF IndInv, TypeOK, OnePlace, EnqOK, MoveToIdle, PickIdle, RqFree
<1>6. DispOK'
  BY DEF IndInv, TypeOK, OnePlace, DispOK, MoveToIdle, PickIdle, RqFree
<1>7. HomeAwake'
  BY TaskAssumption DEF IndInv, TypeOK, OnePlace, HomeAwake, Queued,
    MoveToIdle, PickIdle, RqFree
<1>8. CpuTierShallow'
  BY DEF IndInv, TypeOK, CpuTierShallow, MoveToIdle, PickIdle, RqFree
<1>. QED BY <1>1, <1>2, <1>3, <1>4, <1>5, <1>6, <1>7, <1>8 DEF IndInv

\* cognis_enqueue chooses a deferred tier for a woken task.
LEMMA WokenDeferInv ==
    ASSUME IndInv, NEW c \in CPUs, NEW t \in Tasks, NEW s \in BOOLEAN, NEW r \in BOOLEAN,
           RqFree(c), home[t] = c, st[t] \in {"selected", "unselected"},
           st' = [st EXCEPT ![t] = "on"], UNCHANGED <<dsq, dl, curr, disp>>,
           Defer(c, t, s, r)
    PROVE  IndInv'
<1>1. TypeOK'
  BY TiersAreDsqs, TargetIsTier DEF IndInv, TypeOK, Defer, RqFree
<1>2. OnePlace'
  BY TaskAssumption DEF IndInv, TypeOK, OnePlace, Defer, RqFree
<1>3. HomeOK'
  BY TaskAssumption DEF IndInv, TypeOK, OnePlace, HomeOK, Defer, RqFree
<1>4. CpuOK'
  BY TaskAssumption DEF IndInv, TypeOK, CpuOK, Defer, RqFree
<1>5. EnqOK'
  <2>1. TargetDsq(c, s, r) \in Tiers(c)
    BY TargetIsTier
  <2>2. TargetDsq(c, s, r) = CpuDsq(c) => dsq[CpuDsq(c)] = {}
    BY PrivateTierEmpty DEF IndInv
  <2>. QED
    BY <2>1, <2>2 DEF IndInv, TypeOK, OnePlace, EnqOK, Defer
<1>6. HomeAwake'
  BY DEF IndInv, TypeOK, OnePlace, HomeAwake, Queued, Defer, RqFree
<1>7. DispOK' /\ CpuTierShallow'
  BY DEF IndInv, TypeOK, DispOK, CpuTierShallow, Defer, RqFree
<1>. QED BY <1>1, <1>2, <1>3, <1>4, <1>5, <1>6, <1>7 DEF IndInv

\* cognis_enqueue keeps the running task on the local DSQ of its CPU.
LEMMA YieldStayLocalInv ==
    ASSUME IndInv, NEW c \in CPUs, NEW t \in Tasks,
           RqFree(c), curr[c] = t, local[c] # {},
           curr' = [curr EXCEPT ![c] = "sched"], UNCHANGED <<st, dsq, dl, disp>>,
           StayLocal(c, t)
    PROVE  IndInv'
<1>1. TypeOK'
  BY DEF IndInv, TypeOK, StayLocal, RqFree, KickIdle
<1>2. OnePlace'
  BY TaskAssumption DEF IndInv, TypeOK, OnePlace, StayLocal, RqFree,
    KickIdle
<1>3. HomeOK'
  BY TaskAssumption DEF IndInv, TypeOK, OnePlace, HomeOK, StayLocal, RqFree,
    KickIdle
<1>4. CpuOK'
  BY TaskAssumption DEF IndInv, TypeOK, CpuOK, StayLocal, RqFree, KickIdle
<1>5. HomeAwake'
  BY TaskAssumption DEF IndInv, TypeOK, OnePlace, HomeAwake, Queued,
    StayLocal, RqFree, KickIdle
<1>6. EnqOK' /\ DispOK' /\ CpuTierShallow'
  BY DEF IndInv, TypeOK, EnqOK, DispOK, CpuTierShallow, StayLocal, RqFree,
    KickIdle
<1>. QED BY <1>1, <1>2, <1>3, <1>4, <1>5, <1>6 DEF IndInv

\* cognis_enqueue moves the running task to an idle CPU.
LEMMA YieldMoveToIdleInv ==
    ASSUME IndInv, NEW c \in CPUs, NEW t \in Tasks, NEW s \in BOOLEAN, NEW r \in BOOLEAN,
           RqFree(c), curr[c] = t, local[c] # {},
           curr' = [curr EXCEPT ![c] = "sched"], UNCHANGED <<st, dsq, dl, disp>>,
           MoveToIdle(c, t, s, r)
    PROVE  IndInv'
<1>1. TypeOK'
  BY DEF IndInv, TypeOK, MoveToIdle, PickIdle, RqFree
<1>2. OnePlace'
  BY TaskAssumption DEF IndInv, TypeOK, OnePlace, MoveToIdle, PickIdle,
    RqFree
<1>3. HomeOK'
  BY TaskAssumption DEF IndInv, TypeOK, OnePlace, HomeOK, MoveToIdle,
    PickIdle, RqFree
<1>4. CpuOK'
  BY TaskAssumption DEF IndInv, TypeOK, CpuOK, MoveToIdle, PickIdle, RqFree
<1>5. EnqOK'
  BY DEF IndInv, TypeOK, OnePlace, EnqOK, MoveToIdle, PickIdle, RqFree
<1>6. DispOK'
  BY DEF IndInv, TypeOK, OnePlace, DispOK, MoveToIdle, PickIdle, RqFree
<1>7. HomeAwake'
  BY TaskAssumption DEF IndInv, TypeOK, OnePlace, HomeAwake, Queued,
    MoveToIdle, PickIdle, RqFree
<1>8. CpuTierShallow'
  BY DEF IndInv, TypeOK, CpuTierShallow, MoveToIdle, PickIdle, RqFree
<1>. QED BY <1>1, <1>2, <1>3, <1>4, <1>5, <1>6, <1>7, <1>8 DEF IndInv

\* cognis_enqueue chooses a deferred tier for the running task.
LEMMA YieldDeferInv ==
    ASSUME IndInv, NEW c \in CPUs, NEW t \in Tasks, NEW s \in BOOLEAN, NEW r \in BOOLEAN,
           RqFree(c), curr[c] = t, local[c] # {},
           curr' = [curr EXCEPT ![c] = "sched"], UNCHANGED <<st, dsq, dl, disp>>,
           Defer(c, t, s, r)
    PROVE  IndInv'
<1>1. TypeOK'
  BY TiersAreDsqs, TargetIsTier DEF IndInv, TypeOK, Defer, RqFree
<1>2. OnePlace'
  BY TaskAssumption DEF IndInv, TypeOK, OnePlace, Defer, RqFree
<1>3. HomeOK'
  BY TaskAssumption DEF IndInv, TypeOK, OnePlace, HomeOK, Defer, RqFree
<1>4. CpuOK'
  BY TaskAssumption DEF IndInv, TypeOK, CpuOK, Defer, RqFree
<1>5. EnqOK'
  <2>1. TargetDsq(c, s, r) \in Tiers(c)
    BY TargetIsTier
  <2>2. TargetDsq(c, s, r) = CpuDsq(c) => dsq[CpuDsq(c)] = {}
    BY PrivateTierEmpty DEF IndInv
  <2>. QED
    BY <2>1, <2>2 DEF IndInv, TypeOK, OnePlace, EnqOK, Defer, HomeOK
<1>6. HomeAwake'
  BY TaskAssumption DEF IndInv, TypeOK, OnePlace, HomeAwake, Queued, Defer,
    RqFree
<1>7. DispOK' /\ CpuTierShallow'
  BY DEF IndInv, TypeOK, DispOK, CpuTierShallow, Defer, RqFree
<1>. QED BY <1>1, <1>2, <1>3, <1>4, <1>5, <1>6, <1>7 DEF IndInv

\* The insertion puts the task into a tier of its CPU, which is rescheduled.
LEMMA EnqInsertInv ==
    ASSUME IndInv, NEW c \in CPUs,
           EnqInsert(c)
    PROVE  IndInv'
<1>1. TypeOK'
  BY TiersAreDsqs DEF IndInv, TypeOK, EnqOK, EnqInsert, NoEnq, KickIdle
<1>2. OnePlace'
  BY TiersAreDsqs, TaskAssumption DEF IndInv, TypeOK, OnePlace, EnqOK,
    EnqInsert, NoEnq, KickIdle
<1>3. HomeOK'
  BY TiersAreDsqs DEF IndInv, TypeOK, OnePlace, HomeOK, EnqOK, EnqInsert,
    NoEnq, KickIdle
<1>4. CpuOK'
  BY DEF IndInv, TypeOK, CpuOK, EnqInsert, NoEnq, KickIdle
<1>5. EnqOK'
  BY TiersAreDsqs, PrivateTier, TaskAssumption DEF IndInv, TypeOK, OnePlace,
    EnqOK, EnqInsert, NoEnq, KickIdle
<1>6. DispOK'
  BY TiersAreDsqs, TaskAssumption DEF IndInv, TypeOK, OnePlace, DispOK,
    CpuOK, EnqOK, EnqInsert, NoEnq, KickIdle
<1>7. HomeAwake'
  BY TiersAreDsqs, TaskAssumption DEF IndInv, TypeOK, OnePlace, HomeAwake,
    Queued, EnqOK, EnqInsert, NoEnq, KickIdle
<1>8. CpuTierShallow'
  BY TiersAreDsqs, PrivateTier DEF IndInv, TypeOK, CpuTierShallow, EnqOK,
    EnqInsert, NoEnq, KickIdle
<1>. QED BY <1>1, <1>2, <1>3, <1>4, <1>5, <1>6, <1>7, <1>8 DEF IndInv

\* The peeks see every non-empty tier, so every tier with a task of this
\* CPU.
LEMMA PeekInv ==
    ASSUME IndInv, NEW c \in CPUs,
           Peek(c)
    PROVE  IndInv'
<1>1. TypeOK'
  BY TiersAreDsqs DEF IndInv, TypeOK, Peek, RqFree
<1>2. CpuOK'
  BY DEF IndInv, TypeOK, CpuOK, Peek, RqFree
<1>3. EnqOK'
  BY DEF IndInv, TypeOK, OnePlace, EnqOK, Peek, RqFree
<1>4. DispOK'
  BY TiersAreDsqs DEF IndInv, TypeOK, OnePlace, DispOK, HomeOK, Peek, RqFree
<1>5. OnePlace' /\ HomeOK' /\ HomeAwake' /\ CpuTierShallow'
  BY DEF IndInv, TypeOK, OnePlace, HomeOK, HomeAwake, CpuTierShallow,
    Queued, Peek, RqFree
<1>. QED BY <1>1, <1>2, <1>3, <1>4, <1>5 DEF IndInv

\* Once the moves of its stage have failed, no task of this CPU is queued: such a
\* task is in a tier that was seen, and may run here.
LEMMA NoOwnTask ==
    ASSUME IndInv, NEW c \in CPUs, StageEmpty(c)
    PROVE  /\ disp[c].stage \in 1 .. 6
           /\ \A t \in Tasks : Queued(t) => home[t] # c
<1>1. disp[c].stage \in 1 .. 6
  BY DEF IndInv, TypeOK, StageEmpty
<1>2. ASSUME NEW t \in Tasks, Queued(t), home[t] = c
      PROVE  FALSE
  <2>1. PICK d \in Dsqs : t \in dsq[d]
    BY <1>2 DEF Queued
  <2>2. disp[c].stage = 1 /\ d \in disp[c].seen
    BY <1>1, <1>2, <2>1 DEF IndInv, DispOK
  <2>3. t \in Eligible(d, c)
    BY <1>2, <2>1 DEF IndInv, HomeOK, Eligible
  <2>. QED BY <2>2, <2>3 DEF StageEmpty
<1>. QED BY <1>1, <1>2

\* The scan of a steal function only records its victim.
LEMMA StealInv ==
    ASSUME IndInv, NEW c \in CPUs,
           Steal(c)
    PROVE  IndInv'
<1>1. TypeOK'
  <2>1. PICK k \in disp[c].stage + 1 .. 6 : \E d \in Victims(c, k) :
          disp' = [disp EXCEPT ![c] = [stage |-> k, best |-> d, seen |-> {}]]
    BY DEF Steal, NextSteal
  <2>2. k \in 2 .. 6
    BY NoOwnTask DEF Steal
  <2>3. PICK d \in Dsqs :
          disp' = [disp EXCEPT ![c] = [stage |-> k, best |-> d, seen |-> {}]]
    BY <2>1, <2>2, VictimsAreDsqs
  <2>. QED BY <2>2, <2>3 DEF IndInv, TypeOK, Steal, NextSteal
<1>2. CpuOK'
  <2>1. disp[c].stage \in 1 .. 6
    BY NoOwnTask DEF Steal
  <2>2. PICK k \in disp[c].stage + 1 .. 6 : \E d \in Victims(c, k) :
          disp' = [disp EXCEPT ![c] = [stage |-> k, best |-> d, seen |-> {}]]
    BY DEF Steal, NextSteal
  <2>3. Victims(c, k) \subseteq Dsqs
    BY <2>1, VictimsAreDsqs
  <2>. QED BY <2>1, <2>2, <2>3 DEF IndInv, TypeOK, CpuOK, Steal, NextSteal
<1>3. DispOK'
  <2>1. \A t \in Tasks, d \in Dsqs : t \in dsq[d] => home[t] # c
    BY NoOwnTask DEF Steal, Queued
  <2>. QED BY <2>1 DEF IndInv, TypeOK, DispOK, Steal, NextSteal
<1>4. OnePlace' /\ HomeOK' /\ EnqOK' /\ HomeAwake' /\ CpuTierShallow'
  BY DEF IndInv, TypeOK, OnePlace, HomeOK, EnqOK, HomeAwake, CpuTierShallow,
    Queued, Steal, NextSteal
<1>. QED BY <1>1, <1>2, <1>3, <1>4 DEF IndInv

\* A CPU that gives up, and may go idle, leaves no task of its own behind.
LEMMA GiveUpInv ==
    ASSUME IndInv, NEW c \in CPUs,
           GiveUp(c)
    PROVE  IndInv'
<1>1. TypeOK'
  <2>1. NoDisp \in [stage : 0 .. 6, best : Dsqs \cup {NoDsq}, seen : SUBSET Dsqs]
    BY DEF NoDisp
  <2>. QED BY <2>1 DEF IndInv, TypeOK, GiveUp, NothingFound
<1>2. OnePlace'
  BY TaskAssumption DEF IndInv, TypeOK, OnePlace, GiveUp, NothingFound,
    NoDisp
<1>3. HomeOK'
  BY TaskAssumption DEF IndInv, TypeOK, OnePlace, HomeOK, GiveUp,
    NothingFound, NoDisp
<1>4. CpuOK'
  BY DEF IndInv, TypeOK, CpuOK, GiveUp, NothingFound, NoDisp
<1>5. DispOK'
  BY DEF IndInv, TypeOK, OnePlace, DispOK, GiveUp, NothingFound, NoDisp
<1>6. HomeAwake'
  <2>1. \A t \in Tasks : Queued(t) => home[t] # c
    BY NoOwnTask DEF GiveUp
  <2>2. local[c] = {}
    BY NoOwnTask DEF IndInv, CpuOK, GiveUp
  <2>. QED
    BY <2>1, <2>2 DEF IndInv, TypeOK, HomeAwake, Queued, GiveUp, NothingFound
<1>7. EnqOK' /\ CpuTierShallow'
  BY DEF IndInv, TypeOK, EnqOK, CpuTierShallow, GiveUp, NothingFound, NoDisp
<1>. QED BY <1>1, <1>2, <1>3, <1>4, <1>5, <1>6, <1>7 DEF IndInv

\* A moved task changes its CPU and its queue together.
LEMMA MoveToLocalInv ==
    ASSUME IndInv, NEW c \in CPUs, NEW d \in Dsqs,
           disp[c].stage # 0,
           MoveToLocal(c, d)
    PROVE  IndInv'
<1>1. TypeOK'
  BY DEF IndInv, TypeOK, MoveToLocal, Eligible, NoDisp
<1>2. OnePlace'
  BY DEF IndInv, TypeOK, OnePlace, MoveToLocal, Eligible, NoDisp
<1>3. HomeOK'
  BY DEF IndInv, TypeOK, OnePlace, HomeOK, MoveToLocal, Eligible, NoDisp
<1>4. CpuOK'
  BY DEF IndInv, TypeOK, CpuOK, MoveToLocal, Eligible, NoDisp
<1>5. EnqOK'
  BY TiersAreDsqs DEF IndInv, TypeOK, OnePlace, EnqOK, MoveToLocal,
    Eligible, NoDisp
<1>6. DispOK'
  BY DEF IndInv, TypeOK, OnePlace, DispOK, MoveToLocal, Eligible, NoDisp
<1>7. HomeAwake'
  <2>1. curr[c] # "idle"
    BY TaskAssumption DEF IndInv, CpuOK
  <2>2. \A t \in Tasks : Queued(t)' => Queued(t) /\ home'[t] = home[t]
    BY DEF IndInv, TypeOK, OnePlace, MoveToLocal, Eligible, Queued
  <2>. QED
    BY <2>1, <2>2 DEF IndInv, TypeOK, HomeAwake, MoveToLocal, Eligible
<1>8. CpuTierShallow'
  BY DEF IndInv, TypeOK, CpuTierShallow, MoveToLocal, Eligible, NoDisp
<1>. QED BY <1>1, <1>2, <1>3, <1>4, <1>5, <1>6, <1>7, <1>8 DEF IndInv

\* The kernel picks a task from the local DSQ.
LEMMA PickInv ==
    ASSUME IndInv, NEW c \in CPUs,
           Pick(c)
    PROVE  IndInv'
<1>1. TypeOK'
  BY DEF IndInv, TypeOK, Pick, RqFree
<1>2. OnePlace'
  BY TaskAssumption DEF IndInv, TypeOK, OnePlace, Pick, RqFree
<1>3. HomeOK'
  BY TaskAssumption DEF IndInv, TypeOK, OnePlace, HomeOK, Pick, RqFree
<1>4. CpuOK'
  BY TaskAssumption DEF IndInv, TypeOK, CpuOK, Pick, RqFree
<1>5. HomeAwake'
  BY TaskAssumption DEF IndInv, TypeOK, OnePlace, HomeAwake, Queued, Pick,
    RqFree
<1>6. EnqOK' /\ DispOK' /\ CpuTierShallow'
  BY DEF IndInv, TypeOK, EnqOK, DispOK, CpuTierShallow, Pick, RqFree
<1>. QED BY <1>1, <1>2, <1>3, <1>4, <1>5, <1>6 DEF IndInv

\* The running task blocks.
LEMMA BlockInv ==
    ASSUME IndInv, NEW c \in CPUs,
           Block(c)
    PROVE  IndInv'
<1>1. TypeOK'
  BY DEF IndInv, TypeOK, Block, RqFree
<1>2. OnePlace'
  BY TaskAssumption DEF IndInv, TypeOK, OnePlace, Block, RqFree
<1>3. HomeOK'
  BY TaskAssumption DEF IndInv, TypeOK, OnePlace, HomeOK, Block, RqFree
<1>4. CpuOK'
  BY TaskAssumption DEF IndInv, TypeOK, CpuOK, Block, RqFree
<1>5. HomeAwake'
  BY TaskAssumption DEF IndInv, TypeOK, OnePlace, HomeAwake, Queued, Block,
    RqFree
<1>6. EnqOK' /\ DispOK' /\ CpuTierShallow'
  BY DEF IndInv, TypeOK, EnqOK, DispOK, CpuTierShallow, Block, RqFree
<1>. QED BY <1>1, <1>2, <1>3, <1>4, <1>5, <1>6 DEF IndInv

\* A kicked CPU leaves idle.
LEMMA IdleWakeInv ==
    ASSUME IndInv, NEW c \in CPUs,
           IdleWake(c)
    PROVE  IndInv'
<1>1. TypeOK'
  BY DEF IndInv, TypeOK, IdleWake, RqFree
<1>2. OnePlace'
  BY TaskAssumption DEF IndInv, TypeOK, OnePlace, IdleWake, RqFree
<1>3. HomeOK'
  BY TaskAssumption DEF IndInv, TypeOK, OnePlace, HomeOK, IdleWake, RqFree
<1>4. CpuOK'
  BY DEF IndInv, TypeOK, CpuOK, IdleWake, RqFree
<1>5. HomeAwake'
  BY DEF IndInv, TypeOK, OnePlace, HomeAwake, Queued, IdleWake, RqFree
<1>6. EnqOK' /\ DispOK' /\ CpuTierShallow'
  BY DEF IndInv, TypeOK, EnqOK, DispOK, CpuTierShallow, IdleWake, RqFree
<1>. QED BY <1>1, <1>2, <1>3, <1>4, <1>5, <1>6 DEF IndInv

\* RT work takes a CPU.
LEMMA RtStartInv ==
    ASSUME IndInv, NEW c \in CPUs,
           RtStart(c)
    PROVE  IndInv'
<1>1. TypeOK'
  BY DEF IndInv, TypeOK, RtStart, RqFree
<1>2. OnePlace'
  BY TaskAssumption DEF IndInv, TypeOK, OnePlace, RtStart, RqFree
<1>3. HomeOK'
  BY TaskAssumption DEF IndInv, TypeOK, OnePlace, HomeOK, RtStart, RqFree
<1>4. CpuOK'
  BY DEF IndInv, TypeOK, CpuOK, RtStart, RqFree
<1>5. HomeAwake'
  BY DEF IndInv, TypeOK, OnePlace, HomeAwake, Queued, RtStart, RqFree
<1>6. EnqOK' /\ DispOK' /\ CpuTierShallow'
  BY DEF IndInv, TypeOK, EnqOK, DispOK, CpuTierShallow, RtStart, RqFree
<1>. QED BY <1>1, <1>2, <1>3, <1>4, <1>5, <1>6 DEF IndInv

\* RT work leaves a CPU.
LEMMA RtStopInv ==
    ASSUME IndInv, NEW c \in CPUs,
           RtStop(c)
    PROVE  IndInv'
<1>1. TypeOK'
  BY DEF IndInv, TypeOK, RtStop, RqFree
<1>2. OnePlace'
  BY TaskAssumption DEF IndInv, TypeOK, OnePlace, RtStop, RqFree
<1>3. HomeOK'
  BY TaskAssumption DEF IndInv, TypeOK, OnePlace, HomeOK, RtStop, RqFree
<1>4. CpuOK'
  BY DEF IndInv, TypeOK, CpuOK, RtStop, RqFree
<1>5. HomeAwake'
  BY DEF IndInv, TypeOK, OnePlace, HomeAwake, Queued, RtStop, RqFree
<1>6. EnqOK' /\ DispOK' /\ CpuTierShallow'
  BY DEF IndInv, TypeOK, EnqOK, DispOK, CpuTierShallow, RtStop, RqFree
<1>. QED BY <1>1, <1>2, <1>3, <1>4, <1>5, <1>6 DEF IndInv

\* Every step preserves the invariant.
LEMMA NextInv == IndInv /\ [Next]_vars => IndInv'
<1>. SUFFICES ASSUME IndInv, [Next]_vars PROVE IndInv'
  OBVIOUS
<1>1. ASSUME NEW t \in Tasks, Wake(t) PROVE IndInv'
  BY <1>1, WakeUnselectedInv, SelectIdleInv, SelectSyncInv, SelectBusyInv DEF Wake
<1>2. ASSUME NEW c \in CPUs, NEW t \in Tasks, EnqSelected(c, t) PROVE IndInv'
  BY <1>2, EnqSelectedInv
<1>3. ASSUME NEW c \in CPUs, NEW t \in Tasks, EnqWoken(c, t) PROVE IndInv'
  <2>. DEFINE s == st[t] = "selected"
  <2>1. s \in BOOLEAN /\ FALSE \in BOOLEAN
    OBVIOUS
  <2>2. CASE StayLocal(c, t)
    BY <1>3, <2>2, WokenStayLocalInv DEF EnqWoken
  <2>3. CASE MoveToIdle(c, t, s, FALSE)
    <3>. HIDE DEF s
    <3>. QED BY <1>3, <2>1, <2>3, WokenMoveToIdleInv DEF EnqWoken
  <2>4. CASE Defer(c, t, s, FALSE)
    <3>. HIDE DEF s
    <3>. QED BY <1>3, <2>1, <2>4, WokenDeferInv DEF EnqWoken
  <2>. QED BY <1>3, <2>2, <2>3, <2>4 DEF EnqWoken, Enqueue
<1>4. ASSUME NEW c \in CPUs, NEW t \in Tasks, Requeue(c, t) PROVE IndInv'
  BY <1>4, RequeueInv
<1>5. ASSUME NEW c \in CPUs, Yield(c) PROVE IndInv'
  <2>1. PICK t \in Tasks : t = curr[c]
    BY <1>5 DEF Yield
  <2>2. CASE StayLocal(c, t)
    BY <1>5, <2>1, <2>2, YieldStayLocalInv DEF Yield
  <2>3. CASE MoveToIdle(c, t, FALSE, TRUE)
    BY <1>5, <2>1, <2>3, YieldMoveToIdleInv DEF Yield
  <2>4. CASE Defer(c, t, FALSE, TRUE)
    BY <1>5, <2>1, <2>4, YieldDeferInv DEF Yield
  <2>. QED BY <1>5, <2>1, <2>2, <2>3, <2>4 DEF Yield, Enqueue
<1>6. ASSUME NEW c \in CPUs, MoveOwn(c) \/ MoveStolen(c) PROVE IndInv'
  <2>1. CASE MoveOwn(c)
    <3>1. PICK d \in disp[c].seen : MoveToLocal(c, d)
      BY <2>1 DEF MoveOwn
    <3>2. d \in Dsqs
      BY <3>1 DEF IndInv, TypeOK
    <3>. QED BY <2>1, <3>1, <3>2, MoveToLocalInv DEF MoveOwn
  <2>2. CASE MoveStolen(c)
    <3>1. disp[c].stage # 0
      BY <2>2 DEF IndInv, TypeOK, MoveStolen
    <3>2. disp[c].best \in Dsqs
      BY <2>2 DEF IndInv, CpuOK, MoveStolen
    <3>. QED BY <2>2, <3>1, <3>2, MoveToLocalInv DEF MoveStolen
  <2>. QED BY <1>6, <2>1, <2>2
<1>7. CASE \E c \in CPUs : EnqInsert(c) \/ Peek(c) \/ Steal(c) \/ GiveUp(c)
  BY <1>7, EnqInsertInv, PeekInv, StealInv, GiveUpInv
<1>8. CASE \E c \in CPUs : \/ Pick(c) \/ Block(c) \/ IdleWake(c)
                          \/ RtStart(c) \/ RtStop(c)
  BY <1>8, PickInv, BlockInv, IdleWakeInv, RtStartInv, RtStopInv
<1>9. CASE UNCHANGED vars
  BY <1>9 DEF vars, IndInv, TypeOK, OnePlace, HomeOK, CpuOK, EnqOK, DispOK,
     HomeAwake, CpuTierShallow, Queued
<1>. QED
  BY <1>1, <1>2, <1>3, <1>4, <1>5, <1>6, <1>7, <1>8, <1>9 DEF Next

-----------------------------------------------------------------------------
\* The inductive invariant holds in every reachable state.
THEOREM IndInvHolds == Spec => []IndInv
<1>1. Init => IndInv
  BY InitInv
<1>2. IndInv /\ [Next]_vars => IndInv'
  BY NextInv
<1>. QED BY <1>1, <1>2, PTL DEF Spec

\* Every variable keeps its type.
THEOREM TypeCorrect == Spec => []TypeOK
<1>1. IndInv => TypeOK
  BY DEF IndInv
<1>. QED BY <1>1, IndInvHolds, PTL

\* No lost wakeup: the CPU of a waiting task is never idle without a pending
\* reschedule.
THEOREM NoLostWakeup == Spec => []HomeAwake
<1>1. IndInv => HomeAwake
  BY DEF IndInv
<1>. QED BY <1>1, IndInvHolds, PTL

\* A scheduler-owned per-CPU DSQ never holds two tasks.
THEOREM PrivateTierShallow == Spec => []CpuTierShallow
<1>1. IndInv => CpuTierShallow
  BY DEF IndInv
<1>. QED BY <1>1, IndInvHolds, PTL

-----------------------------------------------------------------------------
(* The depth of the LLC and node tiers. *)

\* Queues and sets of pending insertions are finite.
LEMMA FiniteDepths ==
    ASSUME TypeOK, NEW d \in Dsqs
    PROVE  /\ IsFiniteSet(dsq[d]) /\ Cardinality(dsq[d]) \in Nat
           /\ IsFiniteSet(Pending(d)) /\ Cardinality(Pending(d)) \in Nat
           /\ Cardinality({c \in CPUs : d \in Tiers(c)}) \in Nat
<1>1. IsFiniteSet(dsq[d])
  BY TaskAssumption, FS_Subset DEF TypeOK
<1>2. IsFiniteSet(Pending(d))
  BY TopologyAssumption, FS_Subset DEF Pending
<1>3. IsFiniteSet({c \in CPUs : d \in Tiers(c)})
  BY TopologyAssumption, FS_Subset
<1>. QED BY <1>1, <1>2, <1>3, FS_CardinalityType

\* Both thresholds are at least one.
LEMMA ThresholdsPositive ==
    /\ LlcSpillThreshold \in Nat \ {0}
    /\ NodeSpillThreshold \in Nat \ {0}
<1>1. Cardinality(CPUs) \in Nat
  BY TopologyAssumption, FS_CardinalityType
<1>2. ASSUME NEW n \in Nat \ {0} PROVE SpillThreshold(n) \in Nat \ {0}
  <2>. DEFINE q == (Cardinality(CPUs) + n - 1) \div n
  <2>1. q \in Int
    BY <1>1, <1>2
  <2>2. AtLeastOne(q) \in Nat \ {0}
    BY <2>1 DEF AtLeastOne
  <2>. DEFINE h == AtLeastOne(q) \div 2
  <2>3. h \in Int
    BY <2>2
  <2>4. AtLeastOne(h) \in Nat \ {0}
    BY <2>3 DEF AtLeastOne
  <2>. QED BY <2>2, <2>4 DEF SpillThreshold
<1>. QED
  BY <1>2, TopologyAssumption DEF LlcSpillThreshold, NodeSpillThreshold

\* An enqueue that is about to insert was counted: insertion moves it from the
\* pending ones to the queue.
LEMMA InsertKeepsDepth ==
    ASSUME TypeOK, EnqOK, NEW d \in Dsqs, NEW th \in Int, DepthOK(d, th),
           NEW c \in CPUs, EnqInsert(c)
    PROVE  DepthOK(d, th)'
<1>. DEFINE Domain == {b \in CPUs : d \in Tiers(b)}
<1>1. CASE enq[c].dsq = d
  <2>1. dsq'[d] = dsq[d] \cup {enq[c].task}
    BY <1>1 DEF EnqInsert, TypeOK
  <2>2. IsFiniteSet(dsq[d]) /\ Cardinality(dsq[d]) \in Nat
    BY FiniteDepths
  <2>3. Cardinality(dsq'[d]) <= Cardinality(dsq[d]) + 1
    BY <2>1, <2>2, FS_AddElement
  <2>4. c \in Pending(d)
    BY <1>1 DEF Pending, EnqInsert
  <2>5. Pending(d)' = Pending(d) \ {c}
    BY <1>1, TaskAssumption DEF Pending, EnqInsert, NoEnq, TypeOK
  <2>6. Cardinality(Pending(d)') = Cardinality(Pending(d)) - 1
    BY <2>4, <2>5, FiniteDepths, FS_RemoveElement
  <2>7. Cardinality(dsq'[d]) \in Nat /\ Cardinality(Pending(d)) \in Nat
        /\ Cardinality(Domain) \in Nat
    BY <2>1, <2>2, FiniteDepths, FS_AddElement, FS_CardinalityType
  <2>. QED BY <2>2, <2>3, <2>6, <2>7 DEF DepthOK
<1>2. CASE enq[c].dsq # d
  <2>1. dsq'[d] = dsq[d]
    BY <1>2 DEF EnqInsert, TypeOK
  <2>2. Pending(d)' = Pending(d)
    BY <1>2, TaskAssumption DEF Pending, EnqInsert, NoEnq, TypeOK
  <2>. QED BY <2>1, <2>2 DEF DepthOK
<1>. QED BY <1>1, <1>2

\* Steps that insert nothing and choose nothing can only lower the sum.
LEMMA ShrinkKeepsDepth ==
    ASSUME TypeOK, NEW d \in Dsqs, NEW th \in Int, DepthOK(d, th),
           dsq'[d] \subseteq dsq[d], Pending(d)' \subseteq Pending(d)
    PROVE  DepthOK(d, th)'
<1>1. /\ Cardinality(dsq'[d]) \in Nat /\ Cardinality(Pending(d)') \in Nat
      /\ Cardinality(dsq'[d]) <= Cardinality(dsq[d])
      /\ Cardinality(Pending(d)') <= Cardinality(Pending(d))
  BY FiniteDepths, FS_Subset, FS_CardinalityType
<1>2. Cardinality({c \in CPUs : d \in Tiers(c)}) \in Nat
  BY FiniteDepths
<1>. QED BY <1>1, <1>2, FiniteDepths DEF DepthOK

\* An enqueue that has just chosen d saw a depth below the threshold, and every
\* pending insertion is of a CPU of the domain of d.
LEMMA ChoiceKeepsDepth ==
    ASSUME TypeOK, EnqOK', NEW d \in Dsqs, NEW th \in Int,
           dsq' = dsq, Cardinality(dsq[d]) < th
    PROVE  DepthOK(d, th)'
<1>. DEFINE Domain == {c \in CPUs : d \in Tiers(c)}
<1>1. Pending(d)' \subseteq Domain
  BY DEF EnqOK, Pending
<1>2. IsFiniteSet(Domain)
  BY TopologyAssumption, FS_Subset
<1>3. /\ Cardinality(Pending(d)') \in Nat /\ Cardinality(Domain) \in Nat
      /\ Cardinality(Pending(d)') <= Cardinality(Domain)
  BY <1>1, <1>2, FS_Subset, FS_CardinalityType
<1>4. Cardinality(dsq[d]) \in Nat
  BY FiniteDepths
<1>. QED BY <1>3, <1>4 DEF DepthOK

\* An LLC or node DSQ is chosen only below its threshold.
LEMMA TargetBelowThreshold ==
    ASSUME NEW c \in CPUs, NEW s \in BOOLEAN, NEW r \in BOOLEAN
    PROVE  /\ \A l \in Llcs : TargetDsq(c, s, r) = LlcDsq(l)
                 => Cardinality(dsq[LlcDsq(l)]) < LlcSpillThreshold
           /\ \A n \in Nodes : TargetDsq(c, s, r) = NodeDsq(n)
                 => Cardinality(dsq[NodeDsq(n)]) < NodeSpillThreshold
BY DEF TargetDsq, OverflowDsq, CpuDsq, LlcDsq, NodeDsq, SharedDsq

\* Seen from one DSQ, a step inserts, chooses this DSQ, or does not add to it.
LEMMA StepKinds ==
    ASSUME IndInv, [Next]_vars, NEW d \in Dsqs
    PROVE  \/ \E c \in CPUs : EnqInsert(c)
           \/ dsq'[d] \subseteq dsq[d] /\ Pending(d)' \subseteq Pending(d)
           \/ /\ dsq' = dsq
              /\ \E c \in CPUs : \E s, r \in BOOLEAN : d = TargetDsq(c, s, r)
<1>. DEFINE Shrinks == dsq'[d] \subseteq dsq[d] /\ Pending(d)' \subseteq Pending(d)
            Chosen  == \E c \in CPUs : \E s, r \in BOOLEAN : d = TargetDsq(c, s, r)
<1>1. ASSUME UNCHANGED <<dsq, enq>> PROVE Shrinks
  BY <1>1 DEF Pending
<1>2. ASSUME NEW c \in CPUs, NEW t \in Tasks, NEW s \in BOOLEAN, NEW r \in BOOLEAN,
             Enqueue(c, t, s, r), UNCHANGED dsq
      PROVE  Shrinks \/ Chosen
  <2>1. CASE UNCHANGED enq
    BY <1>1, <1>2, <2>1
  <2>2. CASE Defer(c, t, s, r) /\ d # TargetDsq(c, s, r)
    BY <1>2, <2>2 DEF IndInv, TypeOK, Defer, Pending
  <2>3. CASE Defer(c, t, s, r) /\ d = TargetDsq(c, s, r)
    BY <2>3
  <2>. QED BY <1>2, <2>1, <2>2, <2>3 DEF Enqueue, StayLocal, MoveToIdle
<1>3. ASSUME NEW t \in Tasks, Wake(t) PROVE Shrinks
  BY <1>1, <1>3 DEF Wake, WakeUnselected, SelectIdle, SelectSync, SelectBusy
<1>4. ASSUME NEW c \in CPUs, NEW t \in Tasks, EnqSelected(c, t) PROVE Shrinks
  BY <1>1, <1>4 DEF EnqSelected
<1>5. ASSUME NEW c \in CPUs, NEW t \in Tasks, EnqWoken(c, t)
      PROVE  dsq' = dsq /\ (Shrinks \/ Chosen)
  <2>1. (st[t] = "selected") \in BOOLEAN
    OBVIOUS
  <2>. QED BY <1>2, <1>5, <2>1 DEF EnqWoken
<1>6. ASSUME NEW c \in CPUs, NEW t \in Tasks, Requeue(c, t) PROVE Shrinks
  BY <1>6 DEF Requeue, Pending
<1>7. ASSUME NEW c \in CPUs, Yield(c)
      PROVE  dsq' = dsq /\ (Shrinks \/ Chosen)
  BY <1>2, <1>7 DEF Yield
<1>8. ASSUME NEW c \in CPUs, MoveOwn(c) \/ MoveStolen(c) PROVE Shrinks
  <2>1. PICK e : MoveToLocal(c, e)
    BY <1>8 DEF MoveOwn, MoveStolen
  <2>2. dsq'[d] \subseteq dsq[d] /\ enq' = enq
    BY <2>1 DEF IndInv, TypeOK, MoveToLocal
  <2>. QED BY <2>2 DEF Pending
<1>9. ASSUME NEW c \in CPUs, Peek(c) \/ Steal(c) \/ GiveUp(c) PROVE Shrinks
  BY <1>1, <1>9 DEF Peek, Steal, NextSteal, GiveUp, NothingFound
<1>10. ASSUME NEW c \in CPUs, \/ Pick(c) \/ Block(c) \/ IdleWake(c)
                              \/ RtStart(c) \/ RtStop(c)
       PROVE  Shrinks
  BY <1>1, <1>10 DEF Pick, Block, IdleWake, RtStart, RtStop
<1>11. ASSUME UNCHANGED vars PROVE Shrinks
  BY <1>1, <1>11 DEF vars
<1>. HIDE DEF Shrinks, Chosen
<1>12. \/ \E c \in CPUs : EnqInsert(c)
       \/ Shrinks
       \/ dsq' = dsq /\ Chosen
  BY <1>3, <1>4, <1>5, <1>6, <1>7, <1>8, <1>9, <1>10, <1>11 DEF Next
<1>. QED BY <1>12 DEF Shrinks, Chosen

\* The depth part of the invariant is preserved too.
LEMMA SpillStep ==
    ASSUME IndInv, IndInv', SpillOK, [Next]_vars
    PROVE  SpillOK'
<1>1. ASSUME NEW d \in Dsqs, NEW th \in Int, DepthOK(d, th),
             \A c \in CPUs, s, r \in BOOLEAN :
                d = TargetDsq(c, s, r) => Cardinality(dsq[d]) < th
      PROVE  DepthOK(d, th)'
  <2>1. CASE \E c \in CPUs : EnqInsert(c)
    BY <1>1, <2>1, InsertKeepsDepth DEF IndInv
  <2>2. CASE dsq'[d] \subseteq dsq[d] /\ Pending(d)' \subseteq Pending(d)
    BY <1>1, <2>2, ShrinkKeepsDepth DEF IndInv
  <2>3. CASE /\ dsq' = dsq
             /\ \E c \in CPUs : \E s, r \in BOOLEAN : d = TargetDsq(c, s, r)
    BY <1>1, <2>3, ChoiceKeepsDepth DEF IndInv
  <2>. QED BY <2>1, <2>2, <2>3, StepKinds
<1>2. ASSUME NEW l \in Llcs PROVE DepthOK(LlcDsq(l), LlcSpillThreshold)'
  <2>1. LlcDsq(l) \in Dsqs /\ LlcSpillThreshold \in Int
    BY ThresholdsPositive DEF Dsqs
  <2>2. DepthOK(LlcDsq(l), LlcSpillThreshold)
    BY DEF SpillOK
  <2>. QED BY <1>1, <2>1, <2>2, TargetBelowThreshold
<1>3. ASSUME NEW n \in Nodes PROVE DepthOK(NodeDsq(n), NodeSpillThreshold)'
  <2>1. NodeDsq(n) \in Dsqs /\ NodeSpillThreshold \in Int
    BY ThresholdsPositive DEF Dsqs
  <2>2. DepthOK(NodeDsq(n), NodeSpillThreshold)
    BY DEF SpillOK
  <2>. QED BY <1>1, <2>1, <2>2, TargetBelowThreshold
<1>. QED BY <1>2, <1>3 DEF SpillOK

\* Every queue is empty at first.
LEMMA SpillInit == Init => SpillOK
<1>. SUFFICES ASSUME Init PROVE SpillOK
  OBVIOUS
<1>1. TypeOK
  BY InitInv DEF IndInv
<1>2. ASSUME NEW d \in Dsqs, NEW th \in Nat \ {0} PROVE DepthOK(d, th)
  <2>1. dsq[d] = {} /\ Pending(d) = {}
    BY TaskAssumption DEF Init, NoEnq, Pending
  <2>2. Cardinality({}) = 0
    BY FS_EmptySet
  <2>3. Cardinality({c \in CPUs : d \in Tiers(c)}) \in Nat
    BY <1>1, FiniteDepths
  <2>. QED BY <2>1, <2>2, <2>3 DEF DepthOK
<1>. QED BY <1>2, ThresholdsPositive DEF SpillOK, Dsqs

\* The sum bounds the depth, and the CPUs that may choose a DSQ are those of its
\* domain.
LEMMA SpillOKBounds == IndInv /\ SpillOK => SpillBounded
<1>. SUFFICES ASSUME IndInv, SpillOK PROVE SpillBounded
  OBVIOUS
<1>1. ASSUME NEW d \in Dsqs, NEW th \in Int, DepthOK(d, th), NEW S \in SUBSET CPUs,
             {c \in CPUs : d \in Tiers(c)} \subseteq S
      PROVE  Cardinality(dsq[d]) <= th - 1 + Cardinality(S)
  <2>1. IsFiniteSet(S)
    BY TopologyAssumption, FS_Subset
  <2>2. /\ Cardinality({c \in CPUs : d \in Tiers(c)}) <= Cardinality(S)
        /\ Cardinality(S) \in Nat
    BY <1>1, <2>1, FS_Subset, FS_CardinalityType
  <2>. QED BY <1>1, <2>2, FiniteDepths DEF IndInv, DepthOK
<1>2. ASSUME NEW l \in Llcs
      PROVE  Cardinality(dsq[LlcDsq(l)])
                <= LlcSpillThreshold - 1 + Cardinality(LlcCpus(l))
  <2>1. {c \in CPUs : LlcDsq(l) \in Tiers(c)} \subseteq LlcCpus(l)
    BY DEF Tiers, CpuDsq, LlcDsq, NodeDsq, SharedDsq, LlcCpus
  <2>2. LlcCpus(l) \in SUBSET CPUs
    BY DEF LlcCpus
  <2>3. LlcDsq(l) \in Dsqs /\ LlcSpillThreshold \in Int
    BY ThresholdsPositive DEF Dsqs
  <2>. QED BY <1>1, <2>1, <2>2, <2>3 DEF SpillOK
<1>3. ASSUME NEW n \in Nodes
      PROVE  Cardinality(dsq[NodeDsq(n)])
                <= NodeSpillThreshold - 1 + Cardinality(NodeCpus(n))
  <2>1. {c \in CPUs : NodeDsq(n) \in Tiers(c)} \subseteq NodeCpus(n)
    BY DEF Tiers, CpuDsq, LlcDsq, NodeDsq, SharedDsq, NodeCpus
  <2>2. NodeCpus(n) \in SUBSET CPUs
    BY DEF NodeCpus
  <2>3. NodeDsq(n) \in Dsqs /\ NodeSpillThreshold \in Int
    BY ThresholdsPositive DEF Dsqs
  <2>. QED BY <1>1, <2>1, <2>2, <2>3 DEF SpillOK
<1>. QED BY <1>2, <1>3 DEF SpillBounded

\* However many CPUs race between the depth check of overflow_dsq and the
\* insertion, an LLC or node DSQ exceeds its threshold by less than one task per
\* CPU of its domain.
THEOREM SpillDepthBounded == Spec => []SpillBounded
<1>1. Init => SpillOK
  BY SpillInit
<1>2. IndInv /\ IndInv' /\ SpillOK /\ [Next]_vars => SpillOK'
  BY SpillStep
<1>3. IndInv /\ SpillOK => SpillBounded
  BY SpillOKBounds
<1>. QED BY <1>1, <1>2, <1>3, IndInvHolds, PTL DEF Spec

-----------------------------------------------------------------------------
(* CognisDsq implements TaskScheduler. *)

\* Every task on a run queue is in one of the queues, in an enqueue, or running.
NothingLost == \A t \in Tasks : st[t] = "on" => Placed(t)

Waiting(t, loc, en) == \E c \in CPUs : t \in loc[c] \/ en[c].task = t

\* cognis_enqueue leaves its task in a local DSQ or in an enqueue in progress, and
\* takes no other task from there.
LEMMA EnqueuePlaces ==
    ASSUME TypeOK, NEW c \in CPUs, NEW t \in Tasks, NEW s \in BOOLEAN, NEW r \in BOOLEAN,
           RqFree(c), Enqueue(c, t, s, r)
    PROVE  /\ Waiting(t, local', enq')
           /\ \A u \in Tasks : Waiting(u, local, enq) => Waiting(u, local', enq')
<1>. USE DEF Waiting, TypeOK
<1>1. CASE StayLocal(c, t)
  BY <1>1 DEF StayLocal
<1>2. CASE MoveToIdle(c, t, s, r)
  <2>1. PICK i \in CPUs : local' = [local EXCEPT ![i] = @ \cup {t}] /\ enq' = enq
    BY <1>2 DEF MoveToIdle, PickIdle
  <2>. QED BY <2>1
<1>3. CASE Defer(c, t, s, r)
  <2>1. /\ local' = local /\ \A b \in CPUs \ {c} : enq'[b] = enq[b]
        /\ enq'[c].task = t /\ enq[c].task = "none"
    BY <1>3 DEF Defer, RqFree
  <2>. QED BY <2>1, TaskAssumption
<1>. QED BY <1>1, <1>2, <1>3 DEF Enqueue

\* A move between DSQs and local DSQs loses nothing.
LEMMA MovePlaces ==
    ASSUME IndInv, NothingLost, NEW c \in CPUs, NEW d \in Dsqs, MoveToLocal(c, d)
    PROVE  NothingLost'
<1>1. PICK u \in Tasks : /\ dsq' = [dsq EXCEPT ![d] = @ \ {u}]
                        /\ local' = [local EXCEPT ![c] = @ \cup {u}]
  BY DEF MoveToLocal, Eligible, IndInv, TypeOK
<1>2. UNCHANGED <<st, curr, enq>>
  BY DEF MoveToLocal
<1>3. ASSUME NEW t \in Tasks, st'[t] = "on" PROVE Placed(t)'
  <2>1. Placed(t)
    BY <1>2, <1>3 DEF NothingLost
  <2>2. CASE t = u
    BY <1>1, <2>2 DEF Placed, IndInv, TypeOK
  <2>3. CASE t # u
    BY <1>1, <1>2, <2>1, <2>3 DEF Placed, Queued, IndInv, TypeOK
  <2>. QED BY <2>2, <2>3
<1>. QED BY <1>3 DEF NothingLost

\* No step of the scheduler or of the kernel loses a task.
LEMMA NothingLostStep ==
    ASSUME IndInv, NothingLost, [Next]_vars
    PROVE  NothingLost'
<1>. USE DEF NothingLost
<1>1. ASSUME NEW t \in Tasks, Wake(t) PROVE NothingLost'
  <2>1. UNCHANGED <<dsq, local, curr, enq>> /\ \A u \in Tasks : st'[u] = "on" => st[u] = "on"
    BY <1>1 DEF Wake, WakeUnselected, SelectIdle, SelectSync, SelectBusy, IndInv, TypeOK
  <2>. QED BY <2>1 DEF Placed, Queued
<1>2. ASSUME NEW c \in CPUs, NEW t \in Tasks, EnqSelected(c, t) PROVE NothingLost'
  BY <1>2 DEF EnqSelected, Placed, Queued, IndInv, TypeOK
<1>3. ASSUME NEW c \in CPUs, NEW t \in Tasks, EnqWoken(c, t) PROVE NothingLost'
  <2>. DEFINE s == st[t] = "selected"
  <2>1. s \in BOOLEAN /\ FALSE \in BOOLEAN
    OBVIOUS
  <2>2. RqFree(c) /\ Enqueue(c, t, s, FALSE) /\ UNCHANGED <<dsq, curr>>
    BY <1>3 DEF EnqWoken
  <2>. HIDE DEF s
  <2>3. /\ Waiting(t, local', enq')
        /\ \A u \in Tasks : Waiting(u, local, enq) => Waiting(u, local', enq')
    BY <2>1, <2>2, EnqueuePlaces DEF IndInv
  <2>4. \A u \in Tasks : u # t => st'[u] = st[u]
    BY <1>3 DEF EnqWoken, IndInv, TypeOK
  <2>. QED BY <2>2, <2>3, <2>4 DEF Waiting, Placed, Queued
<1>4. ASSUME NEW c \in CPUs, NEW t \in Tasks, Requeue(c, t) PROVE NothingLost'
  BY <1>4 DEF Requeue, Placed, Queued, IndInv, TypeOK
<1>5. ASSUME NEW c \in CPUs, Yield(c) PROVE NothingLost'
  <2>1. PICK t \in Tasks : t = curr[c]
    BY <1>5 DEF Yield
  <2>2. /\ RqFree(c) /\ Enqueue(c, t, FALSE, TRUE) /\ UNCHANGED <<st, dsq>>
        /\ \A b \in CPUs \ {c} : curr'[b] = curr[b]
    BY <1>5, <2>1 DEF Yield, IndInv, TypeOK
  <2>3. /\ Waiting(t, local', enq')
        /\ \A u \in Tasks : Waiting(u, local, enq) => Waiting(u, local', enq')
    BY <2>2, EnqueuePlaces, FALSE \in BOOLEAN, TRUE \in BOOLEAN DEF IndInv
  <2>. QED BY <2>1, <2>2, <2>3 DEF Waiting, Placed, Queued
<1>6. ASSUME NEW c \in CPUs, EnqInsert(c) PROVE NothingLost'
  <2>1. enq[c].dsq \in Dsqs
    BY <1>6, TiersAreDsqs DEF EnqInsert, IndInv, EnqOK
  <2>2. /\ UNCHANGED <<st, local, curr>> /\ \A b \in CPUs \ {c} : enq'[b] = enq[b]
        /\ dsq' = [dsq EXCEPT ![enq[c].dsq] = @ \cup {enq[c].task}]
    BY <1>6 DEF EnqInsert, IndInv, TypeOK
  <2>3. ASSUME NEW t \in Tasks, Placed(t) PROVE Placed(t)'
    <3>1. CASE Queued(t) \/ enq[c].task = t
      <4>1. Queued(t)'
        BY <2>1, <2>2, <3>1 DEF Queued, IndInv, TypeOK
      <4>. QED BY <4>1 DEF Placed
    <3>2. CASE \E b \in CPUs : t \in local[b] \/ curr[b] = t
      BY <2>2, <3>2 DEF Placed
    <3>3. CASE \E b \in CPUs \ {c} : enq[b].task = t
      BY <2>2, <3>3 DEF Placed
    <3>. QED BY <2>3, <3>1, <3>2, <3>3 DEF Placed
  <2>. QED BY <2>2, <2>3
<1>7. ASSUME NEW c \in CPUs, MoveOwn(c) \/ MoveStolen(c) PROVE NothingLost'
  <2>1. PICK d \in Dsqs : MoveToLocal(c, d)
    BY <1>7 DEF MoveOwn, MoveStolen, IndInv, TypeOK, CpuOK
  <2>. QED BY <2>1, MovePlaces
<1>8. ASSUME NEW c \in CPUs, Peek(c) \/ Steal(c) \/ GiveUp(c) PROVE NothingLost'
  <2>1. UNCHANGED <<st, dsq, local, enq>>
        /\ \A b \in CPUs : curr[b] \in Tasks => curr'[b] = curr[b]
    BY <1>8, TaskAssumption DEF Peek, Steal, NextSteal, GiveUp, NothingFound, IndInv, TypeOK
  <2>. QED BY <2>1 DEF Placed, Queued
<1>9. ASSUME NEW c \in CPUs, Pick(c) PROVE NothingLost'
  <2>1. PICK t \in local[c] : /\ curr' = [curr EXCEPT ![c] = t]
                             /\ local' = [local EXCEPT ![c] = @ \ {t}]
    BY <1>9 DEF Pick
  <2>2. UNCHANGED <<st, dsq, enq>> /\ curr[c] \notin Tasks
    BY <1>9, TaskAssumption DEF Pick
  <2>3. ASSUME NEW u \in Tasks, Placed(u) PROVE Placed(u)'
    <3>1. CASE u = t
      BY <2>1, <3>1 DEF Placed, IndInv, TypeOK
    <3>2. CASE u # t
      BY <2>1, <2>2, <2>3, <3>2 DEF Placed, Queued, IndInv, TypeOK
    <3>. QED BY <3>1, <3>2
  <2>. QED BY <2>2, <2>3
<1>10. ASSUME NEW c \in CPUs, Block(c) PROVE NothingLost'
  BY <1>10 DEF Block, Placed, Queued, IndInv, TypeOK
<1>11. ASSUME NEW c \in CPUs, IdleWake(c) \/ RtStop(c) PROVE NothingLost'
  <2>1. UNCHANGED <<st, dsq, local, enq>>
        /\ \A b \in CPUs : curr[b] \in Tasks => curr'[b] = curr[b]
    BY <1>11, TaskAssumption DEF IdleWake, RtStop, IndInv, TypeOK
  <2>. QED BY <2>1 DEF Placed, Queued
<1>12. ASSUME NEW c \in CPUs, RtStart(c) PROVE NothingLost'
  <2>1. /\ UNCHANGED <<st, dsq, enq>>
        /\ \A b \in CPUs : local[b] \subseteq local'[b]
        /\ \A b \in CPUs \ {c} : curr'[b] = curr[b]
        /\ curr[c] \in Tasks => curr[c] \in local'[c]
    BY <1>12 DEF RtStart, IndInv, TypeOK
  <2>. QED BY <2>1 DEF Placed, Queued
<1>13. CASE UNCHANGED vars
  BY <1>13 DEF vars, Placed, Queued
<1>. QED
  BY <1>1, <1>2, <1>3, <1>4, <1>5, <1>6, <1>7, <1>8, <1>9, <1>10, <1>11, <1>12, <1>13 DEF Next

\* The refinement mapping, given that nothing is lost.
LEMMA MappedAwake ==
    ASSUME IndInv, NothingLost
    PROVE  Awake = {t \in Tasks : st[t] # "asleep"}
BY DEF Awake, NothingLost, Placed, Queued, IndInv, OnePlace

LEMMA MappedAwakeNext ==
    ASSUME IndInv', NothingLost'
    PROVE  Awake' = {t \in Tasks : st'[t] # "asleep"}
BY DEF Awake, NothingLost, Placed, Queued, IndInv, OnePlace

\* A step that changes what runs on one CPU.
LEMMA RunningChange ==
    ASSUME NEW c \in CPUs, NEW v, Running'[c] = v,
           \A b \in CPUs \ {c} : Running'[b] = Running[b]
    PROVE  Running' = [Running EXCEPT ![c] = v]
<1>1. DOMAIN Running = CPUs /\ DOMAIN Running' = CPUs
  BY DEF Running
<1>2. Running' = [b \in CPUs |-> Running'[b]] /\ Running = [b \in CPUs |-> Running[b]]
  BY DEF Running
<1>3. [Running EXCEPT ![c] = v] = [b \in CPUs |-> IF b = c THEN v ELSE Running[b]]
  BY <1>1
<1>. QED BY <1>2, <1>3

\* A step that neither puts a task to sleep nor wakes one, and moves no task on or
\* off a CPU, is no step of the abstract scheduler.
LEMMA Stutters ==
    ASSUME IndInv, NothingLost, IndInv', NothingLost',
           \A t \in Tasks : st[t] = "asleep" <=> st'[t] = "asleep",
           \A c \in CPUs : curr[c] = curr'[c] \/ (curr[c] \notin Tasks /\ curr'[c] \notin Tasks)
    PROVE  UNCHANGED <<Awake, Running>>
<1>1. Awake' = Awake
  BY MappedAwake, MappedAwakeNext
<1>2. Running' = Running
  BY DEF Running
<1>. QED BY <1>1, <1>2

\* A running task leaves its CPU and goes on waiting.
LEMMA Preempts ==
    ASSUME IndInv, NothingLost, IndInv', NothingLost', NEW c \in CPUs,
           curr[c] \in Tasks, curr'[c] \notin Tasks, st' = st,
           \A b \in CPUs \ {c} : curr'[b] = curr[b]
    PROVE  Sched!Preempt(c)
<1>1. Awake' = Awake
  BY MappedAwake, MappedAwakeNext
<1>2. Running[c] \in Tasks /\ Running'[c] = "none" /\ \A b \in CPUs \ {c} : Running'[b] = Running[b]
  BY DEF Running
<1>3. Running' = [Running EXCEPT ![c] = "none"]
  BY <1>2, RunningChange
<1>. QED BY <1>1, <1>2, <1>3 DEF Sched!Preempt

\* Each step is one of the abstract scheduler, or changes nothing it knows of.
LEMMA SchedStep ==
    ASSUME IndInv, NothingLost, IndInv', NothingLost', [Next]_vars
    PROVE  Sched!Next \/ UNCHANGED Sched!vars
<1>. USE DEF Sched!vars
<1>1. ASSUME NEW t \in Tasks, Wake(t) PROVE Sched!Next
  <2>1. /\ st[t] = "asleep" /\ curr' = curr
        /\ \E v \in {"unselected", "direct", "selected"} : st' = [st EXCEPT ![t] = v]
    BY <1>1 DEF Wake, WakeUnselected, SelectIdle, SelectSync, SelectBusy
  <2>2. t \notin Awake /\ Awake' = Awake \cup {t}
    BY <2>1, MappedAwake, MappedAwakeNext DEF IndInv, TypeOK
  <2>3. Running' = Running
    BY <2>1 DEF Running
  <2>. QED BY <2>2, <2>3 DEF Sched!Next, Sched!Wake
<1>2. ASSUME NEW c \in CPUs, NEW t \in Tasks, EnqSelected(c, t) \/ EnqWoken(c, t) \/ Requeue(c, t)
      PROVE  UNCHANGED <<Awake, Running>>
  <2>1. st[t] # "asleep"
    BY <1>2 DEF EnqSelected, EnqWoken, Requeue, Queued, IndInv, OnePlace
  <2>2. curr' = curr /\ \E v \in {"on", "unselected"} : st' = [st EXCEPT ![t] = v]
    BY <1>2 DEF EnqSelected, EnqWoken, Requeue
  <2>. QED BY <2>1, <2>2, Stutters DEF IndInv, TypeOK
<1>3. ASSUME NEW c \in CPUs, EnqInsert(c) \/ Peek(c) \/ MoveOwn(c) \/ MoveStolen(c) \/ Steal(c)
      PROVE  UNCHANGED <<Awake, Running>>
  BY <1>3, Stutters DEF EnqInsert, Peek, MoveOwn, MoveStolen, MoveToLocal, Steal, NextSteal
<1>4. ASSUME NEW c \in CPUs, GiveUp(c) \/ IdleWake(c) \/ RtStop(c)
      PROVE  UNCHANGED <<Awake, Running>>
  <2>1. /\ st' = st
        /\ \A b \in CPUs : curr[b] = curr'[b] \/ (curr[b] \notin Tasks /\ curr'[b] \notin Tasks)
    BY <1>4, TaskAssumption DEF GiveUp, NothingFound, IdleWake, RtStop, IndInv, TypeOK
  <2>. QED BY <2>1, Stutters
<1>5. ASSUME NEW c \in CPUs, Yield(c) PROVE Sched!Preempt(c)
  BY <1>5, Preempts, TaskAssumption DEF Yield, IndInv, TypeOK
<1>6. ASSUME NEW c \in CPUs, RtStart(c)
      PROVE  Sched!Preempt(c) \/ UNCHANGED <<Awake, Running>>
  <2>1. st' = st /\ curr'[c] = "rt" /\ \A b \in CPUs \ {c} : curr'[b] = curr[b]
    BY <1>6 DEF RtStart, IndInv, TypeOK
  <2>2. CASE curr[c] \in Tasks
    BY <2>1, <2>2, Preempts, TaskAssumption
  <2>3. CASE curr[c] \notin Tasks
    BY <2>1, <2>3, Stutters, TaskAssumption
  <2>. QED BY <2>2, <2>3
<1>7. ASSUME NEW c \in CPUs, Pick(c) PROVE \E t \in Tasks : Sched!Run(c, t)
  <2>1. PICK t \in local[c] : curr' = [curr EXCEPT ![c] = t]
    BY <1>7 DEF Pick
  <2>2. t \in Tasks /\ st[t] = "on" /\ c \in Allowed[t] /\ \A b \in CPUs : curr[b] # t
    BY <2>1 DEF IndInv, TypeOK, OnePlace, HomeOK
  <2>3. t \in Awake /\ Awake' = Awake
    BY <1>7, <2>2, MappedAwake, MappedAwakeNext DEF Pick
  <2>4. Running[c] = "none" /\ Running' = [Running EXCEPT ![c] = t]
    <3>1. Running[c] = "none"
      BY <1>7, TaskAssumption DEF Pick, Running
    <3>2. Running'[c] = t /\ \A b \in CPUs \ {c} : Running'[b] = Running[b]
      BY <2>1, <2>2 DEF Running, IndInv, TypeOK
    <3>. QED BY <3>1, <3>2, RunningChange
  <2>5. \A b \in CPUs : Running[b] # t
    BY <2>2, TaskAssumption DEF Running
  <2>. QED BY <2>2, <2>3, <2>4, <2>5 DEF Sched!Run
<1>8. ASSUME NEW c \in CPUs, Block(c) PROVE Sched!Block(c)
  <2>1. /\ curr[c] \in Tasks /\ st' = [st EXCEPT ![curr[c]] = "asleep"]
        /\ curr' = [curr EXCEPT ![c] = "sched"]
    BY <1>8 DEF Block
  <2>2. Awake' = Awake \ {curr[c]}
    BY <2>1, MappedAwake, MappedAwakeNext DEF IndInv, TypeOK
  <2>3. Running[c] = curr[c] /\ Running' = [Running EXCEPT ![c] = "none"]
    BY <2>1, TaskAssumption DEF Running, IndInv, TypeOK
  <2>. QED BY <2>1, <2>2, <2>3 DEF Sched!Block
<1>9. CASE UNCHANGED vars
  BY <1>9, Stutters DEF vars
<1>. QED
  BY <1>1, <1>2, <1>3, <1>4, <1>5, <1>6, <1>7, <1>8, <1>9 DEF Next, Sched!Next

\* Whatever the CPUs' enqueues, peeks, moves and steals do to each other, Cognis
\* keeps the promises of a scheduler: no woken task is lost, none runs on two CPUs,
\* and none runs outside of its affinity mask.
THEOREM Refinement == Spec => ImplementsScheduler
<1>1. Init => Sched!Init /\ NothingLost
  <2>. SUFFICES ASSUME Init PROVE Sched!Init /\ NothingLost
    OBVIOUS
  <2>1. NothingLost
    BY DEF Init, NothingLost
  <2>2. Awake = {}
    BY <2>1, InitInv, MappedAwake DEF Init
  <2>3. Running = [c \in CPUs |-> "none"]
    BY TaskAssumption DEF Init, Running
  <2>. QED BY <2>1, <2>2, <2>3 DEF Sched!Init
<1>2. IndInv /\ NothingLost /\ [Next]_vars => NothingLost'
  BY NothingLostStep
<1>3. IndInv /\ NothingLost /\ IndInv' /\ NothingLost' /\ [Next]_vars => [Sched!Next]_(Sched!vars)
  BY SchedStep
<1>. QED BY <1>1, <1>2, <1>3, IndInvHolds, PTL DEF Spec, ImplementsScheduler, Sched!Spec

-----------------------------------------------------------------------------
(* The topology that detect exports. *)

\* What a probe returns: every CPU has an LLC and a node among the ids.
LEMMA HostFacts ==
    ASSUME NEW h \in Hosts
    PROVE  /\ h.probed \in BOOLEAN /\ h.cpus \subseteq TopoIds
           /\ h.llc \in [h.cpus -> TopoIds] /\ h.node \in [h.cpus -> TopoIds]
           /\ h.nodes \subseteq TopoIds /\ \A c \in h.cpus : h.node[c] \in h.nodes
           /\ IsFiniteSet(AllLlcs(h)) /\ IsFiniteSet(h.nodes)
           /\ InTables(h) \subseteq 0 .. MaxTopoCpus - 1
<1>1. PICK cs \in SUBSET TopoIds :
        h \in [probed : BOOLEAN, cpus : {cs}, llc : [cs -> TopoIds],
               node : [cs -> TopoIds], nodes : SUBSET TopoIds]
  BY DEF Hosts
<1>2. h.cpus = cs /\ h.probed \in BOOLEAN /\ h.llc \in [cs -> TopoIds]
      /\ h.node \in [cs -> TopoIds] /\ h.nodes \subseteq TopoIds
  BY <1>1
<1>3. \A c \in h.cpus : h.node[c] \in h.nodes
  BY DEF Hosts
<1>4. AllLlcs(h) \subseteq TopoIds
  BY <1>2 DEF AllLlcs
<1>5. IsFiniteSet(AllLlcs(h)) /\ IsFiniteSet(h.nodes)
  BY <1>2, <1>4, TopoAssumption, FS_Subset
<1>6. InTables(h) \subseteq 0 .. MaxTopoCpus - 1
  <2>. SUFFICES ASSUME NEW c \in InTables(h) PROVE c \in 0 .. MaxTopoCpus - 1 OBVIOUS
  <2>1. c \in Nat /\ c < MaxTopoCpus
    BY <1>2, TopoAssumption DEF InTables
  <2>. QED BY <2>1, TopoAssumption
<1>. QED BY <1>1, <1>2, <1>3, <1>5, <1>6

\* A remap numbers the ids it has met from 0 on without a gap, each once.
RemapOK(r, ids) ==
    /\ IsFiniteSet(ids) /\ r.next \in Nat /\ r.next = Cardinality(ids)
    /\ r.idx \in [ids -> Nat]
    /\ \A i \in ids : r.idx[i] < r.next
    /\ \A i, j \in ids : r.idx[i] = r.idx[j] => i = j
    /\ \A k \in Nat : k < r.next => \E i \in ids : r.idx[i] = k

\* The maps detect starts with.
LEMMA NoRemapOK == RemapOK(NoRemap, {})
BY FS_EmptySet DEF RemapOK, NoRemap

\* It still does when another id is looked up, and keeps the indices it gave.
LEMMA RemapAdds ==
    ASSUME NEW r, NEW ids, NEW id, RemapOK(r, ids)
    PROVE  /\ RemapOK(Remap(r, id), ids \cup {id})
           /\ \A i \in ids : Remap(r, id).idx[i] = r.idx[i]
           /\ r.next <= Remap(r, id).next
<1>0. DOMAIN r.idx = ids
  BY DEF RemapOK
<1>1. CASE id \in ids
  <2>1. Remap(r, id) = r /\ ids \cup {id} = ids
    BY <1>0, <1>1 DEF Remap
  <2>2. r.next <= r.next
    BY DEF RemapOK
  <2>3. RemapOK(Remap(r, id), ids \cup {id})
    BY <2>1
  <2>. QED BY <2>1, <2>2, <2>3
<1>2. CASE id \notin ids
  <2>. DEFINE f == [i \in ids \cup {id} |-> IF i = id THEN r.next ELSE r.idx[i]]
  <2>1. Remap(r, id) = [idx |-> f, next |-> r.next + 1]
    BY <1>0, <1>2 DEF Remap
  <2>2. Remap(r, id).idx = f /\ Remap(r, id).next = r.next + 1
    BY <2>1
  <2>3. IsFiniteSet(ids \cup {id}) /\ Cardinality(ids \cup {id}) = r.next + 1
    BY <1>2, FS_AddElement DEF RemapOK
  <2>4. f \in [ids \cup {id} -> Nat] /\ f[id] = r.next /\ \A i \in ids : f[i] = r.idx[i]
    BY <1>2 DEF RemapOK
  <2>. HIDE DEF f
  <2>5. r.next \in Nat /\ \A i \in ids : r.idx[i] \in Nat /\ r.idx[i] < r.next
    BY DEF RemapOK
  <2>6. \A i, j \in ids \cup {id} : f[i] = f[j] => i = j
    <3>1. \A i, j \in ids : f[i] = f[j] => i = j
      BY <2>4 DEF RemapOK
    <3>2. \A i \in ids : f[i] # f[id]
      BY <2>4, <2>5
    <3>. QED BY <3>1, <3>2
  <2>7. \A k \in Nat : k < r.next + 1 => \E i \in ids \cup {id} : f[i] = k
    <3>. SUFFICES ASSUME NEW k \in Nat, k < r.next + 1
                  PROVE  \E i \in ids \cup {id} : f[i] = k
      OBVIOUS
    <3>1. CASE k < r.next
      <4>1. PICK i \in ids : r.idx[i] = k
        BY <3>1 DEF RemapOK
      <4>. QED BY <2>4, <4>1
    <3>2. CASE k = r.next
      BY <2>4, <3>2
    <3>. QED BY <2>5, <3>1, <3>2
  <2>8. \A i \in ids \cup {id} : f[i] < r.next + 1
    BY <2>4, <2>5
  <2>9. RemapOK(Remap(r, id), ids \cup {id})
    BY <2>2, <2>3, <2>4, <2>5, <2>6, <2>7, <2>8 DEF RemapOK
  <2>. QED BY <2>2, <2>4, <2>5, <2>9
<1>. QED BY <1>1, <1>2

\* The CPUs the loop has entered into the tables, and their domains.
Seen == InTables(host) \ todo
SeenNodes == {host.node[c] : c \in Seen}
SeenLlcs == {host.llc[c] : c \in Seen}

\* The tables' domains.
ExportType ==
    export \in [nrLlcs : Nat, nrNodes : Nat, cpuLlc : [0 .. MaxTopoCpus - 1 -> Nat],
                cpuNode : [0 .. MaxTopoCpus - 1 -> Nat], llcNode : [0 .. MaxLlcs - 1 -> Nat]]

\* The entries of the CPUs seen are the indices of their domains, the others are 0.
CpuEntries ==
    \A c \in 0 .. MaxTopoCpus - 1 :
        /\ c \in Seen => /\ export.cpuNode[c] = nodeRemap.idx[host.node[c]]
                         /\ export.cpuLlc[c] = llcRemap.idx[host.llc[c]]
        /\ c \notin Seen => export.cpuNode[c] = 0 /\ export.cpuLlc[c] = 0

\* Every LLC has the index of a node, and the right one if LLCs lie within nodes.
LlcEntries ==
    /\ \A l \in 0 .. MaxLlcs - 1 : export.llcNode[l] < nodeRemap.next \/ export.llcNode[l] = 0
    /\ (\A c, d \in host.cpus : host.llc[c] = host.llc[d] => host.node[c] = host.node[d])
          => \A c \in Seen : export.llcNode[llcRemap.idx[host.llc[c]]] = nodeRemap.idx[host.node[c]]

\* The loop invariant of detect.
LoopInv ==
    /\ host \in Hosts /\ ~FallsBack(host) /\ todo \subseteq host.cpus
    /\ RemapOK(nodeRemap, SeenNodes) /\ RemapOK(llcRemap, SeenLlcs)
    /\ ExportType /\ CpuEntries /\ LlcEntries

\* While detect runs its loop invariant holds, and what it returns is faithful.
DetectInv ==
    /\ phase \in {"start", "visit", "default", "exported"}
    /\ phase = "start" => nodeRemap = NoRemap /\ llcRemap = NoRemap /\ export = DefaultExport
    /\ phase = "visit" => LoopInv
    /\ Detected => host \in Hosts /\ ExportType /\ TablesFaithful

\* TopologyExport::default fills every table.
LEMMA DefaultType == DefaultExport \in
    [nrLlcs : Nat, nrNodes : Nat, cpuLlc : [0 .. MaxTopoCpus - 1 -> Nat],
     cpuNode : [0 .. MaxTopoCpus - 1 -> Nat], llcNode : [0 .. MaxLlcs - 1 -> Nat]]
BY DEF DefaultExport

\* The default tables are faithful to every host.
LEMMA DefaultFaithful ==
    host \in Hosts /\ export = DefaultExport /\ phase # "exported" => TablesFaithful
<1>. SUFFICES ASSUME host \in Hosts, export = DefaultExport, phase # "exported"
              PROVE  TablesFaithful
  OBVIOUS
<1>1. /\ export.nrLlcs = 1 /\ export.nrNodes = 1
      /\ \A c \in 0 .. MaxTopoCpus - 1 : export.cpuLlc[c] = 0 /\ export.cpuNode[c] = 0
      /\ \A l \in 0 .. MaxLlcs - 1 : export.llcNode[l] = 0
  BY DEF DefaultExport
<1>2. \A c \in InTables(host) : export.cpuLlc[c] = 0 /\ export.cpuNode[c] = 0
  BY <1>1, HostFacts
<1>3. InTables(host) # {} =>
        /\ {export.cpuLlc[c] : c \in InTables(host)} = 0 .. 0
        /\ {export.cpuNode[c] : c \in InTables(host)} = 0 .. 0
  BY <1>2
<1>4. 0 \in 0 .. MaxLlcs - 1 /\ 1 <= MaxLlcs /\ 1 <= MaxNodes
  BY TopoAssumption
<1>. QED BY <1>1, <1>2, <1>3, <1>4 DEF TablesFaithful

\* Before detect is called.
LEMMA DetectInitInv == DetectInit => DetectInv
BY DEF DetectInit, DetectInv, Detected

\* The probe.
LEMMA ProbeInv ==
    ASSUME DetectInv, Probe
    PROVE  DetectInv'
<1>1. host' \in Hosts /\ todo' = host'.cpus /\ export' = DefaultExport
      /\ nodeRemap' = NoRemap /\ llcRemap' = NoRemap
  BY DEF Probe, DetectInv
<1>2. phase' = IF FallsBack(host') THEN "default" ELSE "visit"
  BY DEF Probe
<1>3. ExportType'
  BY <1>1, DefaultType DEF ExportType
<1>4. CASE phase' = "default"
  <2>1. TablesFaithful'
    <3>1. (host \in Hosts /\ export = DefaultExport /\ phase # "exported" => TablesFaithful)'
      BY DefaultFaithful, PTL
    <3>. QED BY <1>1, <1>4, <3>1
  <2>. QED BY <1>1, <1>3, <1>4, <2>1 DEF DetectInv, Detected
<1>5. CASE phase' = "visit"
  <2>1. ~FallsBack(host')
    BY <1>2, <1>5
  <2>2. Seen' = {}
    BY <1>1 DEF Seen, InTables
  <2>3. SeenNodes' = {} /\ SeenLlcs' = {}
    BY <2>2 DEF SeenNodes, SeenLlcs
  <2>4. RemapOK(nodeRemap', SeenNodes') /\ RemapOK(llcRemap', SeenLlcs')
    BY <1>1, <2>3, NoRemapOK
  <2>5. CpuEntries'
    BY <1>1, <2>2 DEF CpuEntries, DefaultExport
  <2>6. LlcEntries'
    BY <1>1, <2>2 DEF LlcEntries, DefaultExport
  <2>7. LoopInv'
    BY <1>1, <1>3, <2>1, <2>4, <2>5, <2>6 DEF LoopInv
  <2>. QED BY <1>5, <2>7 DEF DetectInv, Detected
<1>. QED BY <1>2, <1>4, <1>5

\* A CPU beyond the tables changes nothing but the loop's position.
LEMMA IgnoreCpuInv ==
    ASSUME DetectInv, NEW cpu \in TopoIds, IgnoreCpu(cpu)
    PROVE  DetectInv'
<1>1. LoopInv /\ phase = "visit"
  BY DEF IgnoreCpu, IsNext, DetectInv
<1>2. UNCHANGED <<phase, host, nodeRemap, llcRemap, export>> /\ todo' = todo \ {cpu}
  BY DEF IgnoreCpu
<1>3. Seen' = Seen
  <2>1. cpu \notin InTables(host)
    BY TopoAssumption DEF IgnoreCpu, InTables
  <2>. QED BY <1>2, <2>1 DEF Seen, InTables
<1>4. LoopInv'
  <2>1. SeenNodes' = SeenNodes /\ SeenLlcs' = SeenLlcs
    BY <1>2, <1>3 DEF SeenNodes, SeenLlcs
  <2>2. RemapOK(nodeRemap', SeenNodes') /\ RemapOK(llcRemap', SeenLlcs')
    BY <1>1, <1>2, <2>1 DEF LoopInv
  <2>3. host' \in Hosts /\ ~FallsBack(host') /\ todo' \subseteq host'.cpus
    BY <1>1, <1>2 DEF LoopInv
  <2>4. ExportType' /\ CpuEntries' /\ LlcEntries'
    BY <1>1, <1>2, <1>3 DEF LoopInv, ExportType, CpuEntries, LlcEntries
  <2>. QED BY <2>2, <2>3, <2>4 DEF LoopInv
<1>. QED BY <1>1, <1>2, <1>4 DEF DetectInv, Detected

\* The number of indices given is bounded by the number of domains on the host.
LEMMA RemapBounded ==
    ASSUME NEW h \in Hosts, ~FallsBack(h), NEW T \in SUBSET h.cpus, NEW r, NEW q,
           RemapOK(r, {h.llc[c] : c \in T}), RemapOK(q, {h.node[c] : c \in T})
    PROVE  r.next <= MaxLlcs /\ q.next <= MaxNodes
<1>1. {h.llc[c] : c \in T} \subseteq AllLlcs(h) /\ {h.node[c] : c \in T} \subseteq h.nodes
  BY HostFacts DEF AllLlcs
<1>2. /\ IsFiniteSet(AllLlcs(h)) /\ IsFiniteSet(h.nodes)
  BY HostFacts
<1>3. /\ Cardinality({h.llc[c] : c \in T}) <= Cardinality(AllLlcs(h))
      /\ Cardinality({h.node[c] : c \in T}) <= Cardinality(h.nodes)
  BY <1>1, <1>2, FS_Subset
<1>4. Cardinality(AllLlcs(h)) \in Nat /\ Cardinality(h.nodes) \in Nat
  BY <1>2, FS_CardinalityType
<1>5. Cardinality(AllLlcs(h)) <= MaxLlcs /\ Cardinality(h.nodes) <= MaxNodes
  BY <1>4, TopoAssumption DEF FallsBack
<1>6. /\ r.next \in Nat /\ r.next = Cardinality({h.llc[c] : c \in T})
      /\ q.next \in Nat /\ q.next = Cardinality({h.node[c] : c \in T})
  BY DEF RemapOK
<1>. QED BY <1>3, <1>4, <1>5, <1>6, TopoAssumption

\* A CPU within the tables.
LEMMA VisitCpuInv ==
    ASSUME DetectInv, NEW cpu \in TopoIds, VisitCpu(cpu)
    PROVE  DetectInv'
<1>. DEFINE nid == host.node[cpu]  lid == host.llc[cpu]
            node == nodeRemap'.idx[nid]  llc == llcRemap'.idx[lid]
<1>1. LoopInv /\ phase = "visit"
  BY DEF VisitCpu, IsNext, DetectInv
<1>2. /\ UNCHANGED <<phase, host>> /\ todo' = todo \ {cpu}
      /\ nodeRemap' = Remap(nodeRemap, nid) /\ llcRemap' = Remap(llcRemap, lid)
      /\ export' = [export EXCEPT !.cpuNode[cpu] = node, !.cpuLlc[cpu] = llc,
                                  !.llcNode[llc] = node]
  BY DEF VisitCpu
<1>3. /\ host \in Hosts /\ ~FallsBack(host) /\ cpu \in todo /\ cpu \in host.cpus
      /\ cpu \in InTables(host) /\ cpu \in 0 .. MaxTopoCpus - 1
  <2>1. cpu \in todo /\ cpu < MaxTopoCpus BY DEF VisitCpu, IsNext
  <2>2. host \in Hosts /\ ~FallsBack(host) /\ cpu \in host.cpus BY <1>1, <2>1 DEF LoopInv
  <2>3. cpu \in InTables(host) BY <2>1, <2>2 DEF InTables
  <2>. QED BY <2>1, <2>2, <2>3, HostFacts
<1>4. Seen' = Seen \cup {cpu}
  BY <1>2, <1>3 DEF Seen, InTables
<1>5. SeenNodes' = SeenNodes \cup {nid} /\ SeenLlcs' = SeenLlcs \cup {lid}
  BY <1>2, <1>4 DEF SeenNodes, SeenLlcs
<1>6. /\ RemapOK(nodeRemap', SeenNodes') /\ RemapOK(llcRemap', SeenLlcs')
      /\ \A i \in SeenNodes : nodeRemap'.idx[i] = nodeRemap.idx[i]
      /\ \A i \in SeenLlcs : llcRemap'.idx[i] = llcRemap.idx[i]
      /\ nodeRemap.next <= nodeRemap'.next
  <2>1. RemapOK(nodeRemap, SeenNodes) /\ RemapOK(llcRemap, SeenLlcs)
    BY <1>1 DEF LoopInv
  <2>2. /\ RemapOK(Remap(nodeRemap, nid), SeenNodes \cup {nid})
        /\ \A i \in SeenNodes : Remap(nodeRemap, nid).idx[i] = nodeRemap.idx[i]
        /\ nodeRemap.next <= Remap(nodeRemap, nid).next
    BY <2>1, RemapAdds
  <2>3. /\ RemapOK(Remap(llcRemap, lid), SeenLlcs \cup {lid})
        /\ \A i \in SeenLlcs : Remap(llcRemap, lid).idx[i] = llcRemap.idx[i]
        /\ llcRemap.next <= Remap(llcRemap, lid).next
    BY <2>1, RemapAdds
  <2>. QED BY <1>2, <1>5, <2>2, <2>3
<1>7. llcRemap'.next <= MaxLlcs
  <2>1. Seen' \in SUBSET host.cpus
    BY <1>2 DEF Seen, InTables
  <2>2. SeenNodes' = {host.node[c] : c \in Seen'} /\ SeenLlcs' = {host.llc[c] : c \in Seen'}
    BY <1>2 DEF SeenNodes, SeenLlcs
  <2>. QED BY <1>3, <1>6, <2>1, <2>2, RemapBounded
<1>8. /\ node \in Nat /\ node < nodeRemap'.next /\ nodeRemap'.next \in Nat
      /\ llc \in Nat /\ llc < llcRemap'.next /\ llcRemap'.next \in Nat
  BY <1>5, <1>6 DEF RemapOK
<1>9. llc \in 0 .. MaxLlcs - 1
  BY <1>7, <1>8, TopoAssumption
<1>. HIDE DEF node, llc
<1>10. ExportType'
  BY <1>1, <1>2, <1>3, <1>8, <1>9 DEF LoopInv, ExportType
<1>11. /\ export'.cpuNode = [export.cpuNode EXCEPT ![cpu] = node]
       /\ export'.cpuLlc = [export.cpuLlc EXCEPT ![cpu] = llc]
       /\ export'.llcNode = [export.llcNode EXCEPT ![llc] = node]
  BY <1>1, <1>2 DEF LoopInv, ExportType
<1>12. CpuEntries'
  <2>. SUFFICES ASSUME NEW c \in 0 .. MaxTopoCpus - 1
                PROVE  /\ c \in Seen' => /\ export'.cpuNode[c] = nodeRemap'.idx[host'.node[c]]
                                         /\ export'.cpuLlc[c] = llcRemap'.idx[host'.llc[c]]
                       /\ c \notin Seen' => export'.cpuNode[c] = 0 /\ export'.cpuLlc[c] = 0
    BY DEF CpuEntries
  <2>1. /\ export.cpuNode \in [0 .. MaxTopoCpus - 1 -> Nat]
        /\ export.cpuLlc \in [0 .. MaxTopoCpus - 1 -> Nat]
    BY <1>1 DEF LoopInv, ExportType
  <2>2. CASE c = cpu
    <3>1. export'.cpuNode[cpu] = node /\ export'.cpuLlc[cpu] = llc /\ cpu \in Seen'
      BY <1>3, <1>4, <1>11, <2>1
    <3>2. node = nodeRemap'.idx[host'.node[cpu]] /\ llc = llcRemap'.idx[host'.llc[cpu]]
      BY <1>2 DEF node, llc
    <3>. QED BY <2>2, <3>1, <3>2
  <2>3. CASE c # cpu
    <3>1. export'.cpuNode[c] = export.cpuNode[c] /\ export'.cpuLlc[c] = export.cpuLlc[c]
      BY <1>11, <2>1, <2>3
    <3>2. c \in Seen' <=> c \in Seen
      BY <1>4, <2>3
    <3>3. c \in Seen => host.node[c] \in SeenNodes /\ host.llc[c] \in SeenLlcs
      BY DEF SeenNodes, SeenLlcs
    <3>. QED BY <1>1, <1>2, <1>6, <3>1, <3>2, <3>3 DEF LoopInv, CpuEntries
  <2>. QED BY <2>2, <2>3
<1>13. LlcEntries'
  <2>0. export.llcNode \in [0 .. MaxLlcs - 1 -> Nat] /\ nodeRemap.next \in Nat
    BY <1>1 DEF LoopInv, ExportType, RemapOK
  <2>1. \A l \in 0 .. MaxLlcs - 1 : export'.llcNode[l] < nodeRemap'.next \/ export'.llcNode[l] = 0
    <3>. SUFFICES ASSUME NEW l \in 0 .. MaxLlcs - 1
                  PROVE  export'.llcNode[l] < nodeRemap'.next \/ export'.llcNode[l] = 0
      OBVIOUS
    <3>1. CASE l = llc
      BY <1>8, <1>11, <2>0, <3>1
    <3>2. CASE l # llc
      <4>1. export'.llcNode[l] = export.llcNode[l] /\ export.llcNode[l] \in Nat
        BY <1>11, <2>0, <3>2
      <4>2. export.llcNode[l] < nodeRemap.next \/ export.llcNode[l] = 0
        BY <1>1 DEF LoopInv, LlcEntries
      <4>. QED BY <1>6, <1>8, <2>0, <4>1, <4>2
    <3>. QED BY <3>1, <3>2
  <2>2. ASSUME \A c, d \in host.cpus : host.llc[c] = host.llc[d] => host.node[c] = host.node[d],
               NEW c \in Seen'
        PROVE  export'.llcNode[llcRemap'.idx[host.llc[c]]] = nodeRemap'.idx[host.node[c]]
    <3>1. c \in host.cpus
      BY <1>2 DEF Seen, InTables
    <3>2. CASE host.llc[c] = lid
      <4>1. host.node[c] = nid
        BY <1>3, <2>2, <3>1, <3>2
      <4>2. llcRemap'.idx[host.llc[c]] = llc /\ nodeRemap'.idx[host.node[c]] = node
        BY <3>2, <4>1 DEF node, llc
      <4>. QED BY <1>9, <1>11, <2>0, <4>2
    <3>3. CASE host.llc[c] # lid
      <4>1. c \in Seen
        BY <1>4, <3>3
      <4>2. host.node[c] \in SeenNodes /\ host.llc[c] \in SeenLlcs
        BY <4>1 DEF SeenNodes, SeenLlcs
      <4>3. llcRemap'.idx[host.llc[c]] # llc
        BY <1>5, <1>6, <3>3, <4>2 DEF RemapOK, llc
      <4>4. llcRemap'.idx[host.llc[c]] \in 0 .. MaxLlcs - 1
        <5>1. llcRemap'.idx[host.llc[c]] \in Nat /\ llcRemap'.idx[host.llc[c]] < llcRemap'.next
          BY <1>5, <1>6, <4>2 DEF RemapOK
        <5>. QED BY <1>7, <1>8, <5>1, TopoAssumption
      <4>5. export'.llcNode[llcRemap'.idx[host.llc[c]]] = export.llcNode[llcRemap.idx[host.llc[c]]]
        BY <1>6, <1>11, <2>0, <4>2, <4>3, <4>4
      <4>6. export.llcNode[llcRemap.idx[host.llc[c]]] = nodeRemap.idx[host.node[c]]
        BY <1>1, <2>2, <4>1 DEF LoopInv, LlcEntries
      <4>. QED BY <1>6, <4>2, <4>5, <4>6
    <3>. QED BY <3>2, <3>3
  <2>. QED BY <1>2, <2>1, <2>2 DEF LlcEntries
<1>14. LoopInv'
  <2>1. host' \in Hosts /\ ~FallsBack(host') /\ todo' \subseteq host'.cpus
    BY <1>1, <1>2 DEF LoopInv
  <2>. QED BY <1>6, <1>10, <1>12, <1>13, <2>1 DEF LoopInv
<1>. QED BY <1>1, <1>2, <1>14 DEF DetectInv, Detected

\* The end of the loop.
LEMMA FinishInv ==
    ASSUME DetectInv, Finish
    PROVE  DetectInv'
<1>. DEFINE AtLeast1(n) == IF n < 1 THEN 1 ELSE n
<1>1. LoopInv /\ todo = {}
  BY DEF Finish, DetectInv
<1>2. UNCHANGED <<host, todo, nodeRemap, llcRemap>> /\ phase' = "exported"
      /\ export' = [export EXCEPT !.nrNodes = AtLeast1(nodeRemap.next),
                                  !.nrLlcs = AtLeast1(llcRemap.next)]
  BY DEF Finish
<1>3. host \in Hosts /\ Seen = InTables(host) /\ InTables(host) \subseteq 0 .. MaxTopoCpus - 1
  BY <1>1, HostFacts DEF LoopInv, Seen
<1>4. /\ nodeRemap.next \in Nat /\ llcRemap.next \in Nat
      /\ RemapOK(nodeRemap, SeenNodes) /\ RemapOK(llcRemap, SeenLlcs)
  BY <1>1 DEF LoopInv, RemapOK
<1>5. llcRemap.next <= MaxLlcs /\ nodeRemap.next <= MaxNodes
  <2>1. Seen \in SUBSET host.cpus /\ ~FallsBack(host)
    BY <1>1 DEF Seen, InTables, LoopInv
  <2>. QED BY <1>3, <1>4, <2>1, RemapBounded DEF SeenNodes, SeenLlcs
<1>6. ExportType'
  BY <1>1, <1>2, <1>4 DEF LoopInv, ExportType
<1>7. /\ export'.nrNodes = AtLeast1(nodeRemap.next) /\ export'.nrLlcs = AtLeast1(llcRemap.next)
      /\ export'.cpuNode = export.cpuNode /\ export'.cpuLlc = export.cpuLlc
      /\ export'.llcNode = export.llcNode
  BY <1>1, <1>2 DEF LoopInv, ExportType
<1>8. \A c \in Seen : /\ host.node[c] \in SeenNodes /\ host.llc[c] \in SeenLlcs
                      /\ export.cpuNode[c] = nodeRemap.idx[host.node[c]]
                      /\ export.cpuLlc[c] = llcRemap.idx[host.llc[c]]
  BY <1>1, <1>3 DEF SeenNodes, SeenLlcs, LoopInv, CpuEntries
<1>9. \A c \in Seen : /\ export.cpuNode[c] \in Nat /\ export.cpuNode[c] < nodeRemap.next
                      /\ export.cpuLlc[c] \in Nat /\ export.cpuLlc[c] < llcRemap.next
  BY <1>4, <1>8 DEF RemapOK
<1>10. /\ export'.nrLlcs \in Nat /\ export'.nrLlcs <= MaxLlcs
       /\ export'.nrNodes \in Nat /\ export'.nrNodes <= MaxNodes
  BY <1>4, <1>5, <1>7, TopoAssumption
<1>11. \A c \in 0 .. MaxTopoCpus - 1 : /\ export'.cpuLlc[c] \in 0 .. export'.nrLlcs - 1
                                      /\ export'.cpuNode[c] \in 0 .. export'.nrNodes - 1
  <2>1. \A c \in 0 .. MaxTopoCpus - 1 :
           c \notin Seen => export.cpuNode[c] = 0 /\ export.cpuLlc[c] = 0
    BY <1>1 DEF LoopInv, CpuEntries
  <2>. QED BY <1>4, <1>7, <1>9, <2>1
<1>12. \A l \in 0 .. export'.nrLlcs - 1 : export'.llcNode[l] \in 0 .. export'.nrNodes - 1
  <2>. SUFFICES ASSUME NEW l \in 0 .. export'.nrLlcs - 1
                PROVE  export'.llcNode[l] \in 0 .. export'.nrNodes - 1
    OBVIOUS
  <2>1. l \in 0 .. MaxLlcs - 1
    BY <1>10, TopoAssumption
  <2>2. export.llcNode[l] \in Nat
    BY <1>1, <2>1 DEF LoopInv, ExportType
  <2>3. export.llcNode[l] < nodeRemap.next \/ export.llcNode[l] = 0
    BY <1>1, <2>1 DEF LoopInv, LlcEntries
  <2>. QED BY <1>4, <1>7, <2>2, <2>3
<1>13. ASSUME InTables(host) # {}
       PROVE  /\ {export'.cpuLlc[c] : c \in InTables(host)} = 0 .. export'.nrLlcs - 1
              /\ {export'.cpuNode[c] : c \in InTables(host)} = 0 .. export'.nrNodes - 1
  <2>1. export'.nrLlcs = llcRemap.next /\ export'.nrNodes = nodeRemap.next
    BY <1>3, <1>4, <1>7, <1>9, <1>13
  <2>2. ASSUME NEW k \in 0 .. export'.nrLlcs - 1
        PROVE  \E c \in InTables(host) : k = export'.cpuLlc[c]
    <3>1. PICK i \in SeenLlcs : llcRemap.idx[i] = k
      BY <1>4, <2>1 DEF RemapOK
    <3>2. PICK c \in Seen : i = host.llc[c]
      BY DEF SeenLlcs
    <3>. QED BY <1>3, <1>7, <1>8, <3>1, <3>2
  <2>3. ASSUME NEW k \in 0 .. export'.nrNodes - 1
        PROVE  \E c \in InTables(host) : k = export'.cpuNode[c]
    <3>1. PICK i \in SeenNodes : nodeRemap.idx[i] = k
      BY <1>4, <2>1 DEF RemapOK
    <3>2. PICK c \in Seen : i = host.node[c]
      BY DEF SeenNodes
    <3>. QED BY <1>3, <1>7, <1>8, <3>1, <3>2
  <2>4. \A c \in InTables(host) : /\ export'.cpuLlc[c] \in 0 .. export'.nrLlcs - 1
                                  /\ export'.cpuNode[c] \in 0 .. export'.nrNodes - 1
    BY <1>3, <1>11
  <2>5. {export'.cpuLlc[c] : c \in InTables(host)} = 0 .. export'.nrLlcs - 1
    BY <2>2, <2>4
  <2>6. {export'.cpuNode[c] : c \in InTables(host)} = 0 .. export'.nrNodes - 1
    BY <2>3, <2>4
  <2>. QED BY <2>5, <2>6
<1>14. \A c, d \in InTables(host) :
         /\ export'.cpuLlc[c] = export'.cpuLlc[d] <=> host.llc[c] = host.llc[d]
         /\ export'.cpuNode[c] = export'.cpuNode[d] <=> host.node[c] = host.node[d]
  BY <1>3, <1>4, <1>7, <1>8 DEF RemapOK
<1>15. ASSUME \A c, d \in host.cpus : host.llc[c] = host.llc[d] => host.node[c] = host.node[d],
              NEW c \in InTables(host)
       PROVE  export'.llcNode[export'.cpuLlc[c]] = export'.cpuNode[c]
  <2>1. export.llcNode[llcRemap.idx[host.llc[c]]] = nodeRemap.idx[host.node[c]]
    BY <1>1, <1>3, <1>15 DEF LoopInv, LlcEntries
  <2>. QED BY <1>3, <1>7, <1>8, <2>1
<1>16. TablesFaithful'
  BY <1>2, <1>10, <1>11, <1>12, <1>13, <1>14, <1>15 DEF TablesFaithful, InTables
<1>. QED BY <1>2, <1>3, <1>6, <1>16 DEF DetectInv, Detected

\* detect and the restarts preserve the loop invariant and its result.
LEMMA DetectStep == DetectInv /\ [ExportNext]_exportVars => DetectInv'
<1>. SUFFICES ASSUME DetectInv, [ExportNext]_exportVars PROVE DetectInv' OBVIOUS
<1>1. CASE DetectNext
  BY <1>1, ProbeInv, IgnoreCpuInv, VisitCpuInv, FinishInv DEF DetectNext
<1>2. CASE Restart
  BY <1>2 DEF Restart, DetectInv, Detected
<1>3. CASE UNCHANGED detectVars
  BY <1>3 DEF detectVars, DetectInv, Detected, LoopInv, SeenNodes, SeenLlcs, Seen,
     ExportType, CpuEntries, LlcEntries, TablesFaithful
<1>. QED BY <1>1, <1>2, <1>3 DEF ExportNext, Detect, RunQueues, exportVars

\* The composition only adds steps that leave the queues alone.
LEMMA ExportedQueues == ExportSpec => Spec
<1>1. ExportInit => Init
  BY DEF ExportInit
<1>2. [ExportNext]_exportVars => [Next]_vars
  BY DEF ExportNext, exportVars, Detect, Restart, RunQueues
<1>. QED BY <1>1, <1>2, PTL DEF ExportSpec, Spec

\* So what is proved of the queues is true of them behind a topology detection, too:
\* no wakeup is lost, and no task is lost, runs twice or runs where it may not.
THEOREM ExportedScheduler == ExportSpec => []IndInv /\ []HomeAwake /\ ImplementsScheduler
BY ExportedQueues, IndInvHolds, NoLostWakeup, Refinement, PTL

\* The tiers of a task's CPU in terms of the tables: what the DSQs of one domain mean.
LEMMA QueuesFaithful ==
    ASSUME IndInv, DetectInv, Attached, phase = "exported", NEW t \in Tasks, NEW u \in Tasks,
           home[t] \in InTables(host), home[u] \in InTables(host)
    PROVE  /\ \A l \in Llcs : {t, u} \subseteq dsq[LlcDsq(l)]
                 => host.llc[home[t]] = host.llc[home[u]]
           /\ \A n \in Nodes : {t, u} \subseteq dsq[NodeDsq(n)]
                 => host.node[home[t]] = host.node[home[u]]
<1>1. home[t] \in CPUs /\ home[u] \in CPUs
  BY DEF IndInv, TypeOK
<1>2. TablesFaithful
  BY DEF DetectInv, Detected
<1>3. home[t] < MaxTopoCpus /\ home[u] < MaxTopoCpus
  BY DEF InTables
<1>4. /\ LlcOf[home[t]] = export.cpuLlc[home[t]] /\ NodeOf[home[t]] = export.cpuNode[home[t]]
      /\ LlcOf[home[u]] = export.cpuLlc[home[u]] /\ NodeOf[home[u]] = export.cpuNode[home[u]]
  BY <1>1, <1>3 DEF Attached, CpuLlcIdxFor, CpuNodeIdxFor
<1>5. \A d \in Dsqs : {t, u} \subseteq dsq[d] => d \in Tiers(home[t]) /\ d \in Tiers(home[u])
  BY DEF IndInv, HomeOK
<1>6. \A l \in Llcs : LlcDsq(l) \in Dsqs /\ \A c \in CPUs : LlcDsq(l) \in Tiers(c) => l = LlcOf[c]
  BY DEF Dsqs, Tiers, LlcDsq, CpuDsq, NodeDsq, SharedDsq
<1>7. \A n \in Nodes : NodeDsq(n) \in Dsqs /\ \A c \in CPUs : NodeDsq(n) \in Tiers(c) => n = NodeOf[c]
  BY DEF Dsqs, Tiers, LlcDsq, CpuDsq, NodeDsq, SharedDsq
<1>8. /\ export.cpuLlc[home[t]] = export.cpuLlc[home[u]] => host.llc[home[t]] = host.llc[home[u]]
      /\ export.cpuNode[home[t]] = export.cpuNode[home[u]] => host.node[home[t]] = host.node[home[u]]
  BY <1>2 DEF TablesFaithful
<1>9. ASSUME NEW l \in Llcs, {t, u} \subseteq dsq[LlcDsq(l)]
      PROVE  host.llc[home[t]] = host.llc[home[u]]
  BY <1>1, <1>4, <1>5, <1>6, <1>8, <1>9
<1>10. ASSUME NEW n \in Nodes, {t, u} \subseteq dsq[NodeDsq(n)]
       PROVE  host.node[home[t]] = host.node[home[u]]
  BY <1>1, <1>4, <1>5, <1>7, <1>8, <1>10
<1>. QED BY <1>9, <1>10

\* Whatever the probe finds, the tables are faithful, and the tasks that share an
\* LLC's or a node's DSQ share the LLC or the node.
THEOREM TopologyFaithful == ExportSpec => []ExportFaithful
<1>1. ExportInit => DetectInv
  BY DetectInitInv DEF ExportInit
<1>2. IndInv /\ DetectInv => ExportFaithful
  <2>. SUFFICES ASSUME IndInv, DetectInv PROVE ExportFaithful OBVIOUS
  <2>1. Detected => TablesFaithful
    BY DEF DetectInv
  <2>. QED BY <2>1, QueuesFaithful DEF ExportFaithful
<1>. QED BY <1>1, <1>2, DetectStep, ExportedQueues, IndInvHolds, PTL DEF ExportSpec

\* The rodata always are a topology in the sense of TopologyAssumption: the theorems
\* above hold on every host on which the scheduler starts.
THEOREM TopologyAlwaysMet == ExportSpec => []TopologyMet
<1>1. ExportInit => DetectInv
  BY DetectInitInv DEF ExportInit
<1>2. DetectInv => TopologyMet
  <2>. SUFFICES ASSUME DetectInv, Detected PROVE TopologyMet BY DEF TopologyMet
  <2>1. ExportType /\ TablesFaithful
    BY DEF DetectInv
  <2>2. export.nrLlcs \in Nat /\ export.nrNodes \in Nat
    BY <2>1 DEF ExportType
  <2>3. \A c \in 0 .. MaxTopoCpus - 1 : /\ export.cpuLlc[c] \in 0 .. export.nrLlcs - 1
                                        /\ export.cpuNode[c] \in 0 .. export.nrNodes - 1
    BY <2>1 DEF TablesFaithful
  <2>4. 0 \in 0 .. MaxTopoCpus - 1
    BY TopoAssumption
  <2>5. 0 < export.nrLlcs /\ 0 < export.nrNodes
    BY <2>2, <2>3, <2>4
  <2>6. \A c \in CPUs : /\ CpuLlcIdxFor(c) \in 0 .. export.nrLlcs - 1
                        /\ CpuNodeIdxFor(c) \in 0 .. export.nrNodes - 1
    <3>. SUFFICES ASSUME NEW c \in CPUs
                  PROVE  /\ CpuLlcIdxFor(c) \in 0 .. export.nrLlcs - 1
                         /\ CpuNodeIdxFor(c) \in 0 .. export.nrNodes - 1
      OBVIOUS
    <3>1. CASE c < MaxTopoCpus
      <4>1. c \in 0 .. MaxTopoCpus - 1
        BY <3>1, TopologyAssumption, TopoAssumption
      <4>. QED BY <2>3, <3>1, <4>1 DEF CpuLlcIdxFor, CpuNodeIdxFor
    <3>2. CASE ~(c < MaxTopoCpus)
      BY <2>2, <2>5, <3>2 DEF CpuLlcIdxFor, CpuNodeIdxFor
    <3>. QED BY <3>1, <3>2
  <2>7. \A l \in 0 .. export.nrLlcs - 1 : LlcNodeIdxFor(l) \in 0 .. export.nrNodes - 1
    BY <2>1, <2>2, <2>5 DEF TablesFaithful, LlcNodeIdxFor
  <2>. QED BY <2>2, <2>5, <2>6, <2>7 DEF TopologyMet
<1>. QED BY <1>1, <1>2, DetectStep, PTL DEF ExportSpec
=============================================================================
