------------------------- MODULE VirtualTime_proofs -------------------------
(***************************************************************************)
(* DeadlineBounded for every number of CPUs and tasks, every weight and    *)
(* every setting of the slice parameters.  It is not inductive: an unlocked*)
(* store sets vtime_now back, which moves every deadline further out.  The *)
(* strengthening bounds each task against vtime_now and against every      *)
(* value a CPU is still about to store.                                    *)
(***************************************************************************)
EXTENDS VirtualTime, FiniteSetTheorems, TLAPS

\* Task t, whose state is s and virtual time v, is not too far ahead of the
\* (present or coming) front f.
Near(t, s, v, f) ==
    CASE s = "running" -> v <= f + RaceBound
      [] s = "asleep" -> \E b \in Bursts \cup {0} :
                            v <= f + RaceBound + ByWeightInverse(t, b)
      [] OTHER -> \E b \in Bursts \cup {0} :
                            v <= f + RaceBound + ByWeightInverse(t, b) + AwakeMax(t)

Storing(t) == \E c \in CPUs : curr[c] = t /\ write[c] # {}

\* A CPU runs one task, and no task runs on two.
Owners ==
    /\ \A c \in CPUs : curr[c] # NoTask => curr[c] \in Tasks /\ st[curr[c]] = "running"
    /\ \A c, e \in CPUs : curr[c] # NoTask /\ curr[c] = curr[e] => c = e

\* What a CPU is about to store is its task's virtual time.
WritesCurrent ==
    \A c \in CPUs : \A v \in write[c] :
        v >= - RaceBound /\ curr[c] # NoTask /\ vt[curr[c]] = v

\* vtime_now and the values about to be stored into it.
Fronts == {0} \cup UNION {write[c] : c \in CPUs}

\* No task is far ahead of any of them, except one that is itself about to move
\* the front.
FrontsNear ==
    \A t \in Tasks : ~Storing(t) => \A f \in Fronts : Near(t, st[t], vt[t], f)

IndInv == TypeOK /\ Owners /\ WritesCurrent /\ FrontsNear

-----------------------------------------------------------------------------
LEMMA DivNat ==
    ASSUME NEW m \in Nat, NEW n \in Nat \ {0}
    PROVE  m \div n \in Nat
BY SMT

LEMMA MulNat ==
    ASSUME NEW m \in Nat, NEW n \in Nat
    PROVE  m * n \in Nat
BY SMT

\* Charges and caps are natural numbers, and a burst of length 0 charges nothing.
LEMMA ChargeNat ==
    ASSUME NEW t \in Tasks, NEW n \in Nat
    PROVE  ByWeightInverse(t, n) \in Nat /\ ByWeight(t, n) \in Nat
<1>1. Weight[t] \in Nat \ {0}
  BY VirtualTimeAssumption
<1>2. n * 100 \in Nat /\ n * Weight[t] \in Nat
  BY <1>1, MulNat
<1> QED
  BY <1>1, <1>2, DivNat DEF ByWeightInverse, ByWeight

LEMMA AwakeMaxNat ==
    ASSUME NEW t \in Tasks
    PROVE  AwakeMax(t) \in Nat
BY ChargeNat, VirtualTimeAssumption DEF AwakeMax

\* The lag of task_dl is never negative: vtime_min is not ahead of the front.
LEMMA VtimeMinBehind ==
    ASSUME NEW t \in Tasks, NEW f \in Freqs
    PROVE  VtimeMin(t, f) \in Int /\ VtimeMin(t, f) <= 0
<1> DEFINE nr == Cardinality(Queued)
           q == Larger(StarvationNs \div SliceNs, 1)
<1>1. nr \in Nat
  <2>1. IsFiniteSet(Queued)
    BY FS_Subset, VirtualTimeAssumption DEF Queued
  <2> QED
    BY <2>1, FS_CardinalityType
<1>2. q \in Nat \ {0}
  BY DivNat, VirtualTimeAssumption DEF Larger
<1>3. Larger(f, 1) \in Nat
  BY VirtualTimeAssumption DEF Larger
<1>4. Larger(f, 1) * q \in Nat /\ q + nr \in Nat \ {0}
  BY <1>1, <1>2, <1>3, MulNat
<1>5. (Larger(f, 1) * q) \div (q + nr) \in Nat
  BY <1>4, DivNat
<1>6. LagScale(f, nr) \in Nat
  BY <1>5 DEF LagScale, Larger
<1>7. SliceLagNs * LagScale(f, nr) \in Nat
  BY <1>6, MulNat, VirtualTimeAssumption
<1>8. ByWeight(t, SliceLagNs * LagScale(f, nr)) \in Nat
  BY <1>7, ChargeNat
<1> HIDE DEF nr
<1> QED
  BY <1>8 DEF VtimeMin, nr

-----------------------------------------------------------------------------
\* What Enqueue leaves: the task is queued, one awake cap further out than it was.
LEMMA EnqueueStep ==
    ASSUME TypeOK, NEW t \in Tasks, NEW v \in Int, NEW a \in Nat, Enqueue(t, v, a)
    PROVE  /\ st' = [st EXCEPT ![t] = "queued"]
           /\ awake' \in [Tasks -> Nat]
           /\ \E w \in Int : vt' = [vt EXCEPT ![t] = w] /\
                 (w <= v + AwakeMax(t) \/ w <= AwakeMax(t))
<1>1. AwakeMax(t) \in Nat
  BY AwakeMaxNat
<1>2. awake'[t] = Smaller(a, AwakeMax(t)) /\ awake' \in [Tasks -> Nat]
  BY <1>1 DEF Enqueue, TypeOK, Smaller
<1>3. PICK f \in Freqs : vt' = [vt EXCEPT ![t] = Larger(v, VtimeMin(t, f)) + awake'[t]]
  BY DEF Enqueue
<1>4. VtimeMin(t, f) \in Int /\ VtimeMin(t, f) <= 0
  BY VtimeMinBehind
<1>5. awake'[t] \in Nat /\ awake'[t] <= AwakeMax(t)
  BY <1>1, <1>2 DEF Smaller
<1>6. /\ Larger(v, VtimeMin(t, f)) + awake'[t] \in Int
      /\ \/ Larger(v, VtimeMin(t, f)) + awake'[t] <= v + AwakeMax(t)
         \/ Larger(v, VtimeMin(t, f)) + awake'[t] <= AwakeMax(t)
  BY <1>1, <1>4, <1>5 DEF Larger
<1> QED
  BY <1>2, <1>3, <1>6 DEF Enqueue

\* A task that Enqueue lifts from within a charge of a front f stays near f.
LEMMA EnqueuedNear ==
    ASSUME NEW t \in Tasks, NEW v \in Int, NEW w \in Int,
           w <= v + AwakeMax(t) \/ w <= AwakeMax(t),
           NEW f \in Int, f >= - RaceBound,
           NEW b \in Bursts \cup {0}, v <= f + RaceBound + ByWeightInverse(t, b)
    PROVE  Near(t, "queued", w, f)
<1>1. AwakeMax(t) \in Nat /\ ByWeightInverse(t, b) \in Nat /\ RaceBound \in Nat
  BY AwakeMaxNat, ChargeNat, VirtualTimeAssumption
<1>2. w <= f + RaceBound + ByWeightInverse(t, b) + AwakeMax(t)
  BY <1>1
<1> QED
  BY <1>2 DEF Near

\* A virtual time at or behind a front is near it, and nearness is monotone.
LEMMA BehindNear ==
    ASSUME NEW t \in Tasks, NEW s, NEW v \in Int, NEW f \in Int, v <= f + RaceBound
    PROVE  Near(t, s, v, f)
<1>1. /\ AwakeMax(t) \in Nat /\ RaceBound \in Nat
      /\ ByWeightInverse(t, 0) \in Nat /\ 0 \in Bursts \cup {0}
  BY AwakeMaxNat, ChargeNat, VirtualTimeAssumption
<1>2. v <= f + RaceBound + ByWeightInverse(t, 0)
  BY <1>1
<1>3. v <= f + RaceBound + ByWeightInverse(t, 0) + AwakeMax(t)
  BY <1>1
<1> QED
  BY <1>1, <1>2, <1>3 DEF Near

\* Moving the origin by d keeps a task near, also when its virtual time is lifted
\* to -Floor.
LEMMA ShiftNear ==
    ASSUME NEW t \in Tasks, NEW s, NEW v \in Int, NEW f \in Int, NEW d \in Int,
           NEW e \in Int, e = f - d, e >= - RaceBound,
           Near(t, s, v, f)
    PROVE  Near(t, s, Larger(v - d, - Floor), e)
<1>1. /\ AwakeMax(t) \in Nat /\ RaceBound \in Nat /\ Floor \in Nat
      /\ \A b \in Bursts \cup {0} : ByWeightInverse(t, b) \in Nat
  BY AwakeMaxNat, ChargeNat, VirtualTimeAssumption
<1>2. CASE v - d < - Floor
  <2>1. - Floor <= e + RaceBound /\ Larger(v - d, - Floor) = - Floor /\ - Floor \in Int
    BY <1>1, <1>2 DEF Larger
  <2> QED
    BY <2>1, BehindNear
<1>3. CASE ~(v - d < - Floor)
  <2>1. Larger(v - d, - Floor) = v - d
    BY <1>1, <1>3 DEF Larger
  <2>2. CASE s = "running"
    BY <1>1, <2>1, <2>2 DEF Near
  <2>3. CASE s = "asleep"
    <3>1. PICK b \in Bursts \cup {0} : v <= f + RaceBound + ByWeightInverse(t, b)
      BY <2>3 DEF Near
    <3>2. v - d <= e + RaceBound + ByWeightInverse(t, b)
      BY <1>1, <3>1
    <3> QED
      BY <2>1, <2>3, <3>2 DEF Near
  <2>4. CASE s # "running" /\ s # "asleep"
    <3>1. PICK b \in Bursts \cup {0} :
             v <= f + RaceBound + ByWeightInverse(t, b) + AwakeMax(t)
      BY <2>4 DEF Near
    <3>2. v - d <= e + RaceBound + ByWeightInverse(t, b) + AwakeMax(t)
      BY <1>1, <3>1
    <3> QED
      BY <2>1, <2>4, <3>2 DEF Near
  <2> QED
    BY <2>2, <2>3, <2>4
<1> QED
  BY <1>2, <1>3

LEMMA LaterNear ==
    ASSUME NEW t \in Tasks, NEW s, NEW v \in Int, NEW f \in Int, f >= 0,
           Near(t, s, v, 0)
    PROVE  Near(t, s, v, f)
<1>1. /\ AwakeMax(t) \in Nat /\ RaceBound \in Nat
      /\ \A b \in Bursts \cup {0} : ByWeightInverse(t, b) \in Nat
  BY AwakeMaxNat, ChargeNat, VirtualTimeAssumption
<1>2. CASE s = "running"
  BY <1>1, <1>2 DEF Near
<1>3. CASE s = "asleep"
  <2>1. PICK b \in Bursts \cup {0} : v <= 0 + RaceBound + ByWeightInverse(t, b)
    BY <1>3 DEF Near
  <2>2. v <= f + RaceBound + ByWeightInverse(t, b)
    BY <1>1, <2>1
  <2> QED
    BY <1>3, <2>2 DEF Near
<1>4. CASE s # "running" /\ s # "asleep"
  <2>1. PICK b \in Bursts \cup {0} :
           v <= 0 + RaceBound + ByWeightInverse(t, b) + AwakeMax(t)
    BY <1>4 DEF Near
  <2>2. v <= f + RaceBound + ByWeightInverse(t, b) + AwakeMax(t)
    BY <1>1, <2>1
  <2> QED
    BY <1>4, <2>2 DEF Near
<1> QED
  BY <1>2, <1>3, <1>4

\* Fronts are integers, none further back than RaceBound.
LEMMA FrontsBounded ==
    ASSUME TypeOK, WritesCurrent
    PROVE  \A f \in Fronts : f \in Int /\ f >= - RaceBound
BY VirtualTimeAssumption DEF Fronts, WritesCurrent, TypeOK

-----------------------------------------------------------------------------
LEMMA InitInv == Init => IndInv
<1> SUFFICES ASSUME Init PROVE IndInv
  OBVIOUS
<1>1. TypeOK
  BY VirtualTimeAssumption DEF Init, TypeOK
<1>2. Owners /\ WritesCurrent
  BY DEF Init, Owners, WritesCurrent
<1>3. FrontsNear
  <2> SUFFICES ASSUME NEW t \in Tasks, NEW f \in Fronts
               PROVE  Near(t, st[t], vt[t], f)
    BY DEF FrontsNear
  <2>1. f = 0 /\ vt[t] = 0
    BY DEF Init, Fronts
  <2> QED
    BY <2>1, BehindNear, VirtualTimeAssumption
<1> QED
  BY <1>1, <1>2, <1>3 DEF IndInv

\* A step that leaves CPUs and pending stores alone and moves the virtual time of
\* one task that is not running needs to be examined for that task only.
LEMMA OneTaskStep ==
    ASSUME IndInv, NEW t \in Tasks, st[t] = "asleep", TypeOK',
           NEW s, st' = [st EXCEPT ![t] = s],
           NEW w \in Int, vt' = [vt EXCEPT ![t] = w],
           \A f \in Fronts : Near(t, s, w, f),
           UNCHANGED <<curr, write>>
    PROVE  IndInv'
<1>1. \A c \in CPUs : curr[c] # t
  BY VirtualTimeAssumption DEF IndInv, Owners
<1>2. Owners'
  BY <1>1 DEF IndInv, Owners, TypeOK
<1>3. WritesCurrent'
  BY <1>1 DEF IndInv, WritesCurrent, Owners, TypeOK
<1>4. FrontsNear'
  <2> SUFFICES ASSUME NEW u \in Tasks, ~Storing(u)', NEW f \in Fronts'
               PROVE  Near(u, st'[u], vt'[u], f)
    BY DEF FrontsNear
  <2>1. f \in Fronts /\ ~Storing(u)
    BY DEF Fronts, Storing
  <2>2. CASE u = t
    BY <2>1, <2>2 DEF IndInv, TypeOK
  <2>3. CASE u # t
    BY <2>1, <2>3 DEF IndInv, FrontsNear, TypeOK
  <2> QED
    BY <2>2, <2>3
<1> QED
  BY <1>2, <1>3, <1>4 DEF IndInv

LEMMA JoinInv ==
    ASSUME IndInv, NEW t \in Tasks, Join(t)
    PROVE  IndInv'
<1>1. TypeOK'
  BY VirtualTimeAssumption DEF IndInv, TypeOK, Join
<1>2. \A f \in Fronts : Near(t, "asleep", 0, f)
  <2> SUFFICES ASSUME NEW f \in Fronts PROVE Near(t, "asleep", 0, f)
    OBVIOUS
  <2>1. f \in Int /\ 0 <= f + RaceBound
    BY FrontsBounded, VirtualTimeAssumption DEF IndInv
  <2> QED
    BY <2>1, BehindNear
<1>3. /\ st[t] = "asleep" /\ st' = [st EXCEPT ![t] = "asleep"]
      /\ vt' = [vt EXCEPT ![t] = 0] /\ UNCHANGED <<curr, write>>
  BY DEF Join, IndInv, TypeOK
<1>4. 0 \in Int
  OBVIOUS
<1> QED
  BY <1>1, <1>2, <1>3, <1>4, OneTaskStep

LEMMA WakeInv ==
    ASSUME IndInv, NEW t \in Tasks, Wake(t)
    PROVE  IndInv'
<1>1. vt[t] \in Int /\ TypeOK /\ Enqueue(t, vt[t], 0) /\ st[t] = "asleep"
  BY DEF IndInv, TypeOK, Wake
<1>2. PICK w \in Int : /\ vt' = [vt EXCEPT ![t] = w]
                       /\ w <= vt[t] + AwakeMax(t) \/ w <= AwakeMax(t)
  BY <1>1, EnqueueStep
<1>3. st' = [st EXCEPT ![t] = "queued"] /\ awake' \in [Tasks -> Nat]
  BY <1>1, EnqueueStep
<1>4. TypeOK'
  BY <1>2, <1>3 DEF IndInv, TypeOK, Wake
<1>5. \A f \in Fronts : Near(t, "queued", w, f)
  <2> SUFFICES ASSUME NEW f \in Fronts PROVE Near(t, "queued", w, f)
    OBVIOUS
  <2>1. f \in Int /\ f >= - RaceBound
    BY FrontsBounded DEF IndInv
  <2>2. ~Storing(t)
    BY <1>1, VirtualTimeAssumption DEF IndInv, Owners, Storing
  <2>3. Near(t, "asleep", vt[t], f)
    BY <1>1, <2>2 DEF IndInv, FrontsNear
  <2>4. PICK b \in Bursts \cup {0} : vt[t] <= f + RaceBound + ByWeightInverse(t, b)
    BY <2>3 DEF Near
  <2> QED
    BY <1>1, <1>2, <2>1, <2>4, EnqueuedNear
<1> QED
  BY <1>1, <1>2, <1>3, <1>4, <1>5, OneTaskStep DEF Wake

LEMMA RunInv ==
    ASSUME IndInv, NEW c \in CPUs, Run(c)
    PROVE  IndInv'
<1>1. PICK t \in Queued :
         /\ st' = [st EXCEPT ![t] = "running"]
         /\ curr' = [curr EXCEPT ![c] = t]
         /\ write' = [write EXCEPT ![c] = {v \in {vt[t]} : v > 0}]
  BY DEF Run
<1>2. curr[c] = NoTask /\ UNCHANGED <<vt, awake, joins>>
  BY DEF Run
<1>3. t \in Tasks /\ st[t] = "queued" /\ t # NoTask /\ vt[t] \in Int
  BY VirtualTimeAssumption DEF Queued, IndInv, TypeOK
<1>4. TypeOK'
  BY <1>1, <1>2, <1>3 DEF IndInv, TypeOK
<1>5. \A e \in CPUs : curr[e] # t
  BY <1>3 DEF IndInv, Owners
<1>6. Owners'
  BY <1>1, <1>2, <1>3, <1>5 DEF IndInv, Owners, TypeOK
<1>7. WritesCurrent'
  <2> SUFFICES ASSUME NEW e \in CPUs, NEW v \in write'[e]
               PROVE  v >= - RaceBound /\ curr'[e] # NoTask /\ vt'[curr'[e]] = v
    BY DEF WritesCurrent
  <2>1. CASE e = c
    BY <1>1, <1>2, <1>3, <2>1, VirtualTimeAssumption DEF IndInv, TypeOK
  <2>2. CASE e # c
    BY <1>1, <1>2, <2>2 DEF IndInv, TypeOK, WritesCurrent
  <2> QED
    BY <2>1, <2>2
<1>8. FrontsNear'
  <2> SUFFICES ASSUME NEW u \in Tasks, ~Storing(u)', NEW f \in Fronts'
               PROVE  Near(u, st'[u], vt'[u], f)
    BY DEF FrontsNear
  <2>1. f \in Fronts \/ (f = vt[t] /\ f > 0)
    BY <1>1 DEF Fronts, IndInv, TypeOK
  <2>2. f \in Int /\ f >= - RaceBound
    BY <1>3, <2>1, FrontsBounded, VirtualTimeAssumption DEF IndInv
  <2>3. CASE u = t
    <3>1. vt[t] <= 0
      BY <1>1, <1>3, <2>3 DEF Storing, IndInv, TypeOK
    <3>2. vt'[u] \in Int /\ vt'[u] <= f + RaceBound
      BY <1>2, <1>3, <2>2, <2>3, <3>1, VirtualTimeAssumption
    <3> QED
      BY <2>2, <3>2, BehindNear
  <2>4. CASE u # t
    <3>1. ~Storing(u) /\ st'[u] = st[u] /\ vt'[u] = vt[u] /\ vt[u] \in Int
      <4>1. ASSUME NEW e \in CPUs, curr[e] = u, write[e] # {} PROVE FALSE
        <5>1. e # c
          BY <1>2, <4>1, VirtualTimeAssumption
        <5>2. curr'[e] = u /\ write'[e] # {}
          BY <1>1, <4>1, <5>1 DEF IndInv, TypeOK
        <5> QED
          BY <5>2 DEF Storing
      <4> QED
        BY <1>1, <1>2, <2>4, <4>1 DEF Storing, IndInv, TypeOK
    <3>2. CASE f \in Fronts
      BY <3>1, <3>2 DEF IndInv, FrontsNear
    <3>3. CASE f = vt[t] /\ f > 0
      <4>1. Near(u, st[u], vt[u], 0)
        BY <3>1 DEF IndInv, FrontsNear, Fronts
      <4> QED
        BY <2>2, <3>1, <3>3, <4>1, LaterNear
    <3> QED
      BY <2>1, <3>2, <3>3
  <2> QED
    BY <2>3, <2>4
<1> QED
  BY <1>4, <1>6, <1>7, <1>8 DEF IndInv

LEMMA StoreInv ==
    ASSUME IndInv, NEW c \in CPUs, Store(c)
    PROVE  IndInv'
<1>1. PICK d \in write[c] :
         /\ \A e \in CPUs \ {c} : \A v \in write[e] : v - d >= - RaceBound
         /\ vt' = [t \in Tasks |-> Larger(vt[t] - d, - Floor)]
         /\ write' = [e \in CPUs |-> IF e = c THEN {} ELSE {v - d : v \in write[e]}]
         /\ UNCHANGED <<st, awake, curr, joins>>
  BY DEF Store
<1>2. /\ d \in Int /\ d \in Fronts /\ Floor \in Nat /\ RaceBound \in Nat
      /\ RaceBound <= Floor /\ write \in [CPUs -> SUBSET Int]
      /\ \A t \in Tasks : vt[t] \in Int
  BY <1>1, VirtualTimeAssumption DEF IndInv, TypeOK, Fronts
<1>3. TypeOK'
  <2>1. vt' \in [Tasks -> Int]
    BY <1>1, <1>2 DEF Larger
  <2>2. write' \in [CPUs -> SUBSET Int]
    BY <1>1, <1>2
  <2> QED
    BY <1>1, <2>1, <2>2 DEF IndInv, TypeOK
<1>4. Owners'
  BY <1>1 DEF IndInv, Owners
<1>5. \A e \in CPUs : \A w \in write'[e] :
         e # c /\ \E v \in write[e] : w = v - d /\ v \in Int /\ w >= - RaceBound
  BY <1>1, <1>2
<1>6. WritesCurrent'
  <2> SUFFICES ASSUME NEW e \in CPUs, NEW w \in write'[e]
               PROVE  w >= - RaceBound /\ curr'[e] # NoTask /\ vt'[curr'[e]] = w
    BY DEF WritesCurrent
  <2>1. PICK v \in write[e] : w = v - d /\ v \in Int /\ w >= - RaceBound
    BY <1>5
  <2>2. curr[e] # NoTask /\ curr[e] \in Tasks /\ vt[curr[e]] = v
    BY DEF IndInv, WritesCurrent, Owners
  <2>3. vt'[curr[e]] = Larger(v - d, - Floor)
    BY <1>1, <2>2
  <2>4. vt'[curr[e]] = w
    BY <1>2, <2>1, <2>3 DEF Larger
  <2> QED
    BY <1>1, <2>1, <2>2, <2>4
<1>7. FrontsNear'
  <2> SUFFICES ASSUME NEW u \in Tasks, ~Storing(u)', NEW f \in Fronts'
               PROVE  Near(u, st'[u], vt'[u], f)
    BY DEF FrontsNear
  <2>1. PICK g \in Fronts : g \in Int /\ f = g - d /\ f \in Int /\ f >= - RaceBound
    <3>1. CASE f = 0
      BY <1>2, <3>1
    <3>2. CASE f # 0
      <4>1. PICK e \in CPUs : f \in write'[e]
        BY <3>2 DEF Fronts
      <4>2. PICK v \in write[e] : f = v - d /\ v \in Int /\ f >= - RaceBound
        BY <1>5, <4>1
      <4> QED
        BY <1>2, <4>2 DEF Fronts
    <3> QED
      BY <3>1, <3>2
  <2>2. vt'[u] = Larger(vt[u] - d, - Floor) /\ st'[u] = st[u]
    BY <1>1
  <2>3. CASE ~Storing(u)
    <3>1. Near(u, st[u], vt[u], g)
      BY <2>3 DEF IndInv, FrontsNear
    <3> QED
      BY <1>2, <2>1, <2>2, <3>1, ShiftNear
  <2>4. CASE Storing(u)
    <3>1. PICK e \in CPUs : curr[e] = u /\ write[e] # {}
      BY <2>4 DEF Storing
    <3>2. e = c
      <4>1. SUFFICES ASSUME e # c PROVE FALSE
        OBVIOUS
      <4>2. write'[e] # {} /\ curr'[e] = u
        BY <1>1, <3>1, <4>1
      <4> QED
        BY <4>2 DEF Storing
    <3>3. vt[u] = d
      BY <1>1, <3>1, <3>2 DEF IndInv, WritesCurrent
    <3>4. vt'[u] \in Int /\ vt'[u] <= f + RaceBound
      BY <1>2, <2>1, <2>2, <3>3 DEF Larger
    <3> QED
      BY <2>1, <3>4, BehindNear
  <2> QED
    BY <2>3, <2>4
<1> QED
  BY <1>3, <1>4, <1>6, <1>7 DEF IndInv

LEMMA StopInv ==
    ASSUME IndInv, NEW c \in CPUs, Stop(c)
    PROVE  IndInv'
<1> DEFINE t == curr[c]
<1>1. /\ t # NoTask /\ t \in Tasks /\ st[t] = "running" /\ write[c] = {}
      /\ curr' = [curr EXCEPT ![c] = NoTask] /\ UNCHANGED <<write, joins>>
      /\ vt[t] \in Int /\ awake[t] \in Nat
  BY DEF Stop, IndInv, Owners, TypeOK
<1>2. PICK b \in Bursts :
         \/ Enqueue(t, Charge(t, b), awake[t] + ByWeightInverse(t, b))
         \/ /\ st' = [st EXCEPT ![t] = "asleep"]
            /\ vt' = [vt EXCEPT ![t] = Charge(t, b)]
            /\ awake' = [awake EXCEPT ![t] = awake[t] + ByWeightInverse(t, b)]
  BY DEF Stop
<1>3. ByWeightInverse(t, b) \in Nat /\ b \in Bursts \cup {0} /\ RaceBound \in Nat
  BY <1>1, ChargeNat, VirtualTimeAssumption
<1>4. ~Storing(t)
  BY <1>1 DEF Storing, IndInv, Owners
<1>5. \A f \in Fronts : f \in Int /\ f >= - RaceBound /\ vt[t] <= f + RaceBound
  BY <1>1, <1>4, FrontsBounded DEF IndInv, FrontsNear, Near
<1>6. Charge(t, b) \in Int /\ awake[t] + ByWeightInverse(t, b) \in Nat
  BY <1>1, <1>3 DEF Charge
<1>7. \A f \in Fronts : Charge(t, b) <= f + RaceBound + ByWeightInverse(t, b)
  BY <1>1, <1>3, <1>5 DEF Charge
<1> HIDE DEF t
<1>8. PICK s \in {"asleep", "queued"}, w \in Int :
         /\ st' = [st EXCEPT ![t] = s] /\ vt' = [vt EXCEPT ![t] = w]
         /\ awake' \in [Tasks -> Nat]
         /\ \A f \in Fronts : Near(t, s, w, f)
  <2>1. CASE Enqueue(t, Charge(t, b), awake[t] + ByWeightInverse(t, b))
    <3>1. TypeOK
      BY DEF IndInv
    <3>2. PICK w \in Int :
             /\ vt' = [vt EXCEPT ![t] = w]
             /\ w <= Charge(t, b) + AwakeMax(t) \/ w <= AwakeMax(t)
      BY <1>1, <1>6, <2>1, <3>1, EnqueueStep
    <3>3. st' = [st EXCEPT ![t] = "queued"] /\ awake' \in [Tasks -> Nat]
      BY <1>1, <1>6, <2>1, <3>1, EnqueueStep
    <3>4. \A f \in Fronts : Near(t, "queued", w, f)
      BY <1>1, <1>3, <1>5, <1>6, <1>7, <3>2, EnqueuedNear
    <3> QED
      BY <3>2, <3>3, <3>4
  <2>2. CASE /\ st' = [st EXCEPT ![t] = "asleep"]
             /\ vt' = [vt EXCEPT ![t] = Charge(t, b)]
             /\ awake' = [awake EXCEPT ![t] = awake[t] + ByWeightInverse(t, b)]
    <3>1. \A f \in Fronts : Near(t, "asleep", Charge(t, b), f)
      BY <1>3, <1>7 DEF Near
    <3>2. awake' \in [Tasks -> Nat]
      BY <1>1, <1>6, <2>2 DEF IndInv, TypeOK
    <3> QED
      BY <1>6, <2>2, <3>1, <3>2
  <2> QED
    BY <1>2, <2>1, <2>2
<1>9. TypeOK'
  BY <1>1, <1>8 DEF IndInv, TypeOK
<1>10. \A e \in CPUs : e # c => curr[e] # t /\ curr'[e] = curr[e]
  BY <1>1 DEF IndInv, Owners, TypeOK, t
<1>11. curr'[c] = NoTask
  BY <1>1 DEF IndInv, TypeOK
<1>12. Owners'
  BY <1>8, <1>10, <1>11 DEF IndInv, Owners, TypeOK
<1>13. WritesCurrent'
  <2> SUFFICES ASSUME NEW e \in CPUs, NEW v \in write[e]
               PROVE  v >= - RaceBound /\ curr'[e] # NoTask /\ vt'[curr'[e]] = v
    BY <1>1 DEF WritesCurrent
  <2>1. e # c
    BY <1>1
  <2>2. v >= - RaceBound /\ curr[e] # NoTask /\ curr[e] \in Tasks /\ vt[curr[e]] = v
    BY DEF IndInv, WritesCurrent, Owners
  <2> QED
    BY <1>8, <1>10, <2>1, <2>2 DEF IndInv, TypeOK
<1>14. FrontsNear'
  <2> SUFFICES ASSUME NEW u \in Tasks, ~Storing(u)', NEW f \in Fronts'
               PROVE  Near(u, st'[u], vt'[u], f)
    BY DEF FrontsNear
  <2>1. f \in Fronts
    BY <1>1 DEF Fronts
  <2>2. CASE u = t
    BY <1>8, <2>1, <2>2 DEF IndInv, TypeOK
  <2>3. CASE u # t
    <3>1. ~Storing(u)
      BY <1>1, <1>10 DEF Storing
    <3> QED
      BY <1>8, <2>1, <2>3, <3>1 DEF IndInv, FrontsNear, TypeOK
  <2> QED
    BY <2>2, <2>3
<1> QED
  BY <1>9, <1>12, <1>13, <1>14 DEF IndInv

\* The inductive invariant holds in every reachable state.
LEMMA IndInvAlways == Spec => []IndInv
<1>1. Init => IndInv
  BY InitInv
<1>2. IndInv /\ [Next]_vars => IndInv'
  <2> SUFFICES ASSUME IndInv, [Next]_vars PROVE IndInv'
    OBVIOUS
  <2>1. CASE UNCHANGED vars
    BY <2>1 DEF IndInv, TypeOK, Owners, WritesCurrent, FrontsNear, Fronts, Storing, vars
  <2>2. ASSUME NEW t \in Tasks, Wake(t) \/ Join(t) PROVE IndInv'
    BY <2>2, WakeInv, JoinInv
  <2>3. ASSUME NEW c \in CPUs, Run(c) \/ Store(c) \/ Stop(c) PROVE IndInv'
    BY <2>3, RunInv, StoreInv, StopInv
  <2> QED
    BY <2>1, <2>2, <2>3 DEF Next
<1> QED
  BY <1>1, <1>2, PTL DEF Spec

\* The state of task_dl's queue never drifts: a task in a vtime-ordered DSQ is at
\* most one charged burst, the awake cap and one race on vtime_now ahead of the
\* front, for every number of CPUs and tasks and all weights and slice settings.
THEOREM DeadlineBoundedAlways == Spec => []DeadlineBounded
<1>1. IndInv => DeadlineBounded
  <2> SUFFICES ASSUME IndInv, NEW t \in Queued
               PROVE  \E b \in Bursts \cup {0} :
                        vt[t] <= RaceBound + ByWeightInverse(t, b) + AwakeMax(t)
    BY DEF DeadlineBounded
  <2>1. t \in Tasks /\ st[t] = "queued" /\ 0 \in Fronts /\ ~Storing(t)
    BY VirtualTimeAssumption DEF Queued, Fronts, Storing, IndInv, Owners
  <2>2. Near(t, "queued", vt[t], 0)
    BY <2>1 DEF IndInv, FrontsNear
  <2>3. PICK b \in Bursts \cup {0} :
           vt[t] <= 0 + RaceBound + ByWeightInverse(t, b) + AwakeMax(t)
    BY <2>2 DEF Near
  <2> QED
    BY <2>1, <2>3, AwakeMaxNat, ChargeNat, VirtualTimeAssumption
<1> QED
  BY <1>1, IndInvAlways, PTL

-----------------------------------------------------------------------------
(* Overtaking. *)

\* Enqueue never moves a task to an earlier virtual time.
LEMMA EnqueueLater ==
    ASSUME TypeOK, NEW t \in Tasks, NEW v \in Int, NEW a \in Nat, Enqueue(t, v, a)
    PROVE  \E w \in Int : vt' = [vt EXCEPT ![t] = w] /\ w >= v
<1>1. AwakeMax(t) \in Nat
  BY AwakeMaxNat
<1>2. awake'[t] = Smaller(a, AwakeMax(t))
  BY DEF Enqueue, TypeOK
<1>3. awake'[t] \in Nat
  BY <1>1, <1>2 DEF Smaller
<1>4. PICK f \in Freqs : vt' = [vt EXCEPT ![t] = Larger(v, VtimeMin(t, f)) + awake'[t]]
  BY DEF Enqueue
<1>5. VtimeMin(t, f) \in Int
  BY VtimeMinBehind
<1>6. Larger(v, VtimeMin(t, f)) + awake'[t] \in Int /\ Larger(v, VtimeMin(t, f)) + awake'[t] >= v
  BY <1>3, <1>5 DEF Larger
<1> QED
  BY <1>4, <1>6

\* A store of vtime_now that lifts what falls below the floor gives nobody a lead.
LEMMA ShiftKeepsLead ==
    ASSUME NEW x \in Int, NEW y \in Int, NEW d \in Int, NEW n \in Nat
    PROVE  Larger(Larger(x - d, - n) - Larger(y - d, - n), 0) <= Larger(x - y, 0)
BY DEF Larger

\* A wakeup, with whatever lag, takes no lead: it moves the sleeper to a later time.
LEMMA WakeKeepsLead ==
    ASSUME IndInv, NEW x \in Tasks, Wake(x)
    PROVE  OvertakingStep
<1>1. vt \in [Tasks -> Int] /\ TypeOK /\ Enqueue(x, vt[x], 0) /\ st[x] = "asleep"
  BY DEF IndInv, TypeOK, Wake
<1>2. PICK w \in Int : vt' = [vt EXCEPT ![x] = w] /\ w >= vt[x]
  BY <1>1, EnqueueLater
<1>3. st' = [st EXCEPT ![x] = "queued"]
  BY <1>1 DEF Enqueue
<1> SUFFICES ASSUME NEW t \in Tasks, NEW u \in Tasks, t # u, st[t] = "queued"
             PROVE  /\ Lead(t, u)' <= Lead(t, u)
                    /\ ~(st[u] = "queued" /\ st'[u] = "running")
                    /\ ~(st[u] = "running" /\ st'[u] # "running")
  BY DEF OvertakingStep
<1>4. vt'[t] = vt[t] /\ vt'[u] >= vt[u] /\ vt'[u] \in Int
  BY <1>1, <1>2
<1>5. Lead(t, u)' <= Lead(t, u)
  BY <1>1, <1>4 DEF Lead, Larger
<1> QED
  BY <1>1, <1>3, <1>5 DEF TypeOK

LEMMA RunKeepsLead ==
    ASSUME IndInv, NEW c \in CPUs, Run(c)
    PROVE  OvertakingStep
<1>1. PICK x \in Queued : (\A y \in Queued : vt[x] <= vt[y]) /\ st' = [st EXCEPT ![x] = "running"]
  BY DEF Run
<1>2. vt' = vt /\ vt \in [Tasks -> Int] /\ st \in [Tasks -> {"asleep", "queued", "running"}]
  BY DEF Run, IndInv, TypeOK
<1> SUFFICES ASSUME NEW t \in Tasks, NEW u \in Tasks, t # u, st[t] = "queued"
             PROVE  /\ Lead(t, u)' <= Lead(t, u)
                    /\ st[u] = "queued" /\ st'[u] = "running" => vt[u] <= vt[t]
                    /\ ~(st[u] = "running" /\ st'[u] # "running")
  BY DEF OvertakingStep
<1>3. Lead(t, u)' <= Lead(t, u)
  BY <1>2 DEF Lead, Larger
<1>4. x \in Tasks /\ st[x] = "queued" /\ t \in Queued
  BY DEF Queued
<1> QED
  BY <1>1, <1>2, <1>3, <1>4

LEMMA StoreKeepsLead ==
    ASSUME IndInv, NEW c \in CPUs, Store(c)
    PROVE  OvertakingStep
<1>1. PICK d \in write[c] : vt' = [t \in Tasks |-> Larger(vt[t] - d, - Floor)] /\ st' = st
  BY DEF Store
<1>2. d \in Int /\ vt \in [Tasks -> Int] /\ Floor \in Nat
  BY <1>1, VirtualTimeAssumption DEF IndInv, TypeOK
<1> SUFFICES ASSUME NEW t \in Tasks, NEW u \in Tasks
             PROVE  Lead(t, u)' <= Lead(t, u)
  BY <1>1 DEF OvertakingStep
<1>3. vt[t] \in Int /\ vt[u] \in Int
  BY <1>2
<1>4. vt'[t] = Larger(vt[t] - d, - Floor) /\ vt'[u] = Larger(vt[u] - d, - Floor)
  BY <1>1
<1> QED
  BY <1>2, <1>3, <1>4, ShiftKeepsLead DEF Lead

LEMMA StopUsesLead ==
    ASSUME IndInv, NEW c \in CPUs, Stop(c)
    PROVE  OvertakingStep
<1> DEFINE x == curr[c]
<1>1. /\ x \in Tasks /\ st[x] = "running" /\ vt[x] \in Int /\ awake[x] \in Nat
      /\ TypeOK /\ vt \in [Tasks -> Int] /\ st \in [Tasks -> {"asleep", "queued", "running"}]
  BY DEF Stop, IndInv, Owners, TypeOK
<1>2. PICK b \in Bursts :
         \/ Enqueue(x, Charge(x, b), awake[x] + ByWeightInverse(x, b))
         \/ /\ st' = [st EXCEPT ![x] = "asleep"]
            /\ vt' = [vt EXCEPT ![x] = Charge(x, b)]
  BY DEF Stop
<1>3. ByWeightInverse(x, b) \in Nat /\ ByWeightInverse(x, b) > 0
  BY <1>1, ChargeNat, VirtualTimeAssumption
<1>4. Charge(x, b) \in Int /\ Charge(x, b) > vt[x] /\ awake[x] + ByWeightInverse(x, b) \in Nat
  BY <1>1, <1>3 DEF Charge
<1> HIDE DEF x
<1>5. PICK s \in {"asleep", "queued"}, w \in Int :
         st' = [st EXCEPT ![x] = s] /\ vt' = [vt EXCEPT ![x] = w] /\ w > vt[x]
  <2>1. CASE Enqueue(x, Charge(x, b), awake[x] + ByWeightInverse(x, b))
    <3>1. PICK w \in Int : vt' = [vt EXCEPT ![x] = w] /\ w >= Charge(x, b)
      BY <1>1, <1>4, <2>1, EnqueueLater
    <3>2. w > vt[x]
      BY <1>1, <1>4, <3>1
    <3> QED
      BY <2>1, <3>1, <3>2 DEF Enqueue
  <2>2. CASE /\ st' = [st EXCEPT ![x] = "asleep"]
             /\ vt' = [vt EXCEPT ![x] = Charge(x, b)]
    BY <1>4, <2>2
  <2> QED
    BY <1>2, <2>1, <2>2
<1> SUFFICES ASSUME NEW t \in Tasks, NEW u \in Tasks, t # u, st[t] = "queued"
             PROVE  /\ Lead(t, u)' <= Lead(t, u)
                    /\ ~(st[u] = "queued" /\ st'[u] = "running")
                    /\ st[u] = "running" /\ st'[u] # "running" =>
                          Lead(t, u)' < Lead(t, u) \/ vt'[u] > vt'[t]
  BY DEF OvertakingStep
<1>6. vt[t] \in Int /\ vt[u] \in Int /\ vt'[t] = vt[t]
  BY <1>1, <1>5
<1>7. CASE u = x
  <2>1. vt'[u] \in Int /\ vt'[u] > vt[u]
    BY <1>1, <1>5, <1>7
  <2>2. Lead(t, u)' <= Lead(t, u) /\ (Lead(t, u)' < Lead(t, u) \/ vt'[u] > vt'[t])
    BY <1>6, <2>1 DEF Lead, Larger
  <2> QED
    BY <1>1, <1>7, <2>2
<1>8. CASE u # x
  <2>1. vt'[u] = vt[u] /\ st'[u] = st[u]
    BY <1>1, <1>5, <1>8
  <2>2. Lead(t, u)' <= Lead(t, u)
    BY <1>6, <2>1 DEF Lead, Larger
  <2> QED
    BY <2>1, <2>2
<1> QED
  BY <1>7, <1>8

\* A waiting task is overtaken by a task that is ahead of it only, each run uses up
\* lead, and no order of wakeups, re-enqueues and racing stores gives any back: with
\* finitely many joins every other task runs only finitely often before it.
THEOREM OvertakingBoundedAlways == Spec => OvertakingBounded
<1>1. IndInv /\ [Next]_vars => [OvertakingStep]_vars
  <2> SUFFICES ASSUME IndInv, Next PROVE OvertakingStep
    OBVIOUS
  <2>1. ASSUME NEW t \in Tasks, Join(t) PROVE OvertakingStep
    <3>1. joins' # joins
      BY <2>1, VirtualTimeAssumption DEF Join, IndInv, TypeOK
    <3> QED
      BY <3>1 DEF OvertakingStep
  <2>2. ASSUME NEW t \in Tasks, Wake(t) PROVE OvertakingStep
    BY <2>2, WakeKeepsLead
  <2>3. ASSUME NEW c \in CPUs, Run(c) \/ Store(c) \/ Stop(c) PROVE OvertakingStep
    BY <2>3, RunKeepsLead, StoreKeepsLead, StopUsesLead
  <2> QED
    BY <2>1, <2>2, <2>3 DEF Next
<1> QED
  BY <1>1, IndInvAlways, PTL DEF Spec, OvertakingBounded

=============================================================================
