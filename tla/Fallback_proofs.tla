--------------------------- MODULE Fallback_proofs ---------------------------
(***************************************************************************)
(* The user-space fallback, for every finite set of tasks, every lane and  *)
(* ring size, every drain budget and every profile: the deferred slots     *)
(* suffice, no task is lost, and the policy of the loop (TaskPolicy)       *)
(* bounds the credit of sleepers.                                          *)
(***************************************************************************)
EXTENDS Fallback, FiniteSetTheorems, FunctionTheorems, TLAPS

\* The lanes hold tasks and the rings are sequences of them.
QueuesOK ==
    /\ queued \in Seq(Tasks) /\ dispatched \in Seq(Tasks)
    /\ lane \in [Lanes -> Seq(Tasks)]

\* The inductive invariant: the deferred slots suffice.
LoopInv == QueuesOK /\ DeferredSlotFree

\* A task appended to one lane: the lengths of all lanes afterwards.
LEMMA AppendedLengths ==
    ASSUME QueuesOK, NEW l \in Lanes, NEW q \in Seq(Tasks), NEW t \in Tasks,
           lane' = [lane EXCEPT ![l] = Append(q, t)]
    PROVE  /\ lane' \in [Lanes -> Seq(Tasks)]
           /\ Len(lane'[l]) = Len(q) + 1
           /\ \A k \in Lanes : k # l => lane'[k] = lane[k]
BY DEF QueuesOK

\* A round of drain_queued_tasks starts without a deferred task, so that its push
\* takes at most one deferred slot.
LEMMA DrainOneInv == ASSUME LoopInv, DrainOne PROVE LoopInv'
<1>. USE BoundAssumption DEF LoopInv, QueuesOK
<1>1. PICK l \in Lanes : Push(l, lane[l], Head(queued))
  BY DEF DrainOne
<1>2. /\ queued # << >> /\ queued' \in Seq(Tasks) /\ Head(queued) \in Tasks
      /\ UNCHANGED dispatched
  BY DEF DrainOne
<1>3. \A k \in Lanes : lane[k] \in Seq(Tasks) /\ Len(lane[k]) \in Nat /\ Len(lane[k]) <= LaneCapacity
  BY DEF DrainOne, HasDeferred
<1>4. lane' = [lane EXCEPT ![l] = Append(lane[l], Head(queued))] /\ dropped' = dropped
  BY <1>1, <1>3 DEF Push
<1>5. /\ lane' \in [Lanes -> Seq(Tasks)]
      /\ Len(lane'[l]) = Len(lane[l]) + 1
      /\ \A k \in Lanes : k # l => lane'[k] = lane[k]
  BY <1>2, <1>3, <1>4, AppendedLengths
<1>6. DeferredSlotFree'
  BY <1>3, <1>4, <1>5 DEF DeferredSlotFree
<1>. QED BY <1>2, <1>5, <1>6

\* A task popped from its lane leaves the lane one shorter.
LEMMA DispatchSentInv == ASSUME LoopInv, DispatchSent PROVE LoopInv'
<1>. USE BoundAssumption DEF LoopInv, QueuesOK
<1>1. PICK l \in Lanes : /\ PopLane(l)
                         /\ dispatched' = Append(dispatched, Head(lane[l]))
                         /\ lane' = [lane EXCEPT ![l] = Tail(@)]
  BY DEF DispatchSent
<1>2. lane[l] \in Seq(Tasks) /\ lane[l] # << >>
  BY <1>1 DEF PopLane
<1>3. /\ lane' \in [Lanes -> Seq(Tasks)] /\ Len(lane'[l]) = Len(lane[l]) - 1
      /\ \A k \in Lanes : k # l => lane'[k] = lane[k]
  BY <1>1, <1>2
<1>4. dispatched' \in Seq(Tasks) /\ UNCHANGED <<queued, dropped>>
  BY <1>1, <1>2, Head(lane[l]) \in Tasks DEF DispatchSent
<1>5. \A k \in Lanes : Len(lane[k]) \in Nat
  OBVIOUS
<1>6. DeferredSlotFree'
  <2>1. \A k \in Lanes : Len(lane'[k]) \in Nat /\ Len(lane'[k]) <= Len(lane[k])
    <3>. TAKE k \in Lanes
    <3>1. lane'[k] \in Seq(Tasks)
      BY <1>3
    <3>2. Len(lane'[k]) \in Nat
      BY <3>1
    <3>3. CASE k = l
      BY <1>3, <1>5, <3>2, <3>3
    <3>4. CASE k # l
      BY <1>3, <1>5, <3>4
    <3>. QED BY <3>2, <3>3, <3>4
  <2>. QED BY <1>4, <1>5, <2>1 DEF DeferredSlotFree
<1>. QED BY <1>3, <1>4, <1>6

\* The task put back after a failed reservation finds the room it left.
LEMMA DispatchFullInv == ASSUME LoopInv, DispatchFull PROVE LoopInv'
<1>. USE BoundAssumption DEF LoopInv, QueuesOK
<1>1. PICK l \in Lanes : PopLane(l) /\ Push(l, Tail(lane[l]), Head(lane[l]))
  BY DEF DispatchFull
<1>2. lane[l] \in Seq(Tasks) /\ lane[l] # << >>
  BY <1>1 DEF PopLane
<1>3. /\ Tail(lane[l]) \in Seq(Tasks) /\ Head(lane[l]) \in Tasks
      /\ Len(Tail(lane[l])) = Len(lane[l]) - 1 /\ Len(lane[l]) \in Nat
  BY <1>2
<1>4. Len(Tail(lane[l])) <= LaneCapacity
  BY <1>3 DEF DeferredSlotFree
<1>5. lane' = [lane EXCEPT ![l] = Append(Tail(lane[l]), Head(lane[l]))] /\ dropped' = dropped
  BY <1>1, <1>4 DEF Push
<1>6. /\ lane' \in [Lanes -> Seq(Tasks)] /\ Len(lane'[l]) = Len(lane[l])
      /\ \A k \in Lanes : k # l => lane'[k] = lane[k]
  BY <1>3, <1>5, AppendedLengths
<1>7. UNCHANGED <<queued, dispatched>>
  BY DEF DispatchFull
<1>8. DeferredSlotFree'
  BY <1>5, <1>6 DEF DeferredSlotFree
<1>. QED BY <1>6, <1>7, <1>8

\* The steps that leave the lanes alone.
LEMMA OtherInv ==
    ASSUME LoopInv,
           \/ StartSchedule \/ DrainEnd \/ DispatchEnd \/ Notify \/ BpfDrain \/ FallQuiet
           \/ Idle \/ \E t \in Tasks : HandOver(t)
    PROVE  LoopInv'
<1>. USE DEF LoopInv, QueuesOK, DeferredSlotFree
<1>1. CASE StartSchedule
  BY <1>1 DEF StartSchedule
<1>2. CASE DrainEnd
  BY <1>2 DEF DrainEnd
<1>3. CASE DispatchEnd
  BY <1>3 DEF DispatchEnd
<1>4. CASE BpfDrain
  <2>1. dispatched' \in Seq(Tasks) /\ UNCHANGED <<queued, lane, dropped>>
    BY <1>4 DEF BpfDrain
  <2>. QED BY <2>1
<1>5. CASE FallQuiet
  BY <1>5 DEF FallQuiet
<1>6. CASE Idle
  BY <1>6 DEF Idle, vars
<1>7. CASE \E t \in Tasks : HandOver(t)
  <2>1. queued' \in Seq(Tasks) /\ UNCHANGED <<dispatched, lane, dropped>>
    BY <1>7 DEF HandOver
  <2>. QED BY <2>1
<1>8. CASE Notify
  BY <1>8 DEF Notify
<1>. QED BY <1>1, <1>2, <1>3, <1>4, <1>5, <1>6, <1>7, <1>8

\* The invariant holds in every reachable state.
THEOREM LoopInvHolds == Spec => []LoopInv
<1>1. Init => LoopInv
  BY BoundAssumption DEF Init, LoopInv, QueuesOK, DeferredSlotFree, Lanes
<1>2. ASSUME LoopInv, [Next]_vars PROVE LoopInv'
  <2>1. CASE Next
    BY <1>2, <2>1, DrainOneInv, DispatchSentInv, DispatchFullInv, OtherInv
       DEF Next, Schedule
  <2>2. CASE UNCHANGED vars
    BY <1>2, <2>2 DEF vars, LoopInv, QueuesOK, DeferredSlotFree
  <2>. QED BY <1>2, <2>1, <2>2
<1>. QED BY <1>1, <1>2, PTL DEF Spec

\* push_task never drops a task: at most one lane uses its deferred slot, whatever
\* lanes fill up and reservations fail.
THEOREM DeferredSlotSuffices == Spec => []DeferredSlotFree
<1>1. LoopInv => DeferredSlotFree
  BY DEF LoopInv
<1>. QED BY <1>1, LoopInvHolds, PTL

-----------------------------------------------------------------------------
(* No task is lost or duplicated. *)

Holds(s, t) == \E i \in DOMAIN s : s[i] = t
Distinct(s) == \A i, j \in DOMAIN s : s[i] = s[j] => i = j

\* The rings and the lanes as one family of queues.
Places == 1 .. 5
Queue == [k \in Places |-> IF k = 4 THEN queued ELSE IF k = 5 THEN dispatched ELSE lane[k]]

\* A family of queues holds each task of F once, and no other task.
EachOnce(Q, F) ==
    /\ \A k \in Places : Distinct(Q[k])
    /\ \A k, l \in Places, t \in Tasks : Holds(Q[k], t) /\ Holds(Q[l], t) => k = l
    /\ \A t \in Tasks : t \in F <=> \E k \in Places : Holds(Q[k], t)

LEMMA AppendHolds ==
    ASSUME NEW s \in Seq(Tasks), NEW t \in Tasks
    PROVE  /\ \A u \in Tasks : Holds(Append(s, t), u) <=> Holds(s, u) \/ u = t
           /\ Distinct(s) /\ ~Holds(s, t) => Distinct(Append(s, t))
<1>1. /\ Append(s, t) \in Seq(Tasks) /\ Len(s) \in Nat /\ Len(Append(s, t)) = Len(s) + 1
      /\ DOMAIN s = 1 .. Len(s) /\ DOMAIN Append(s, t) = 1 .. Len(s) + 1
      /\ \A i \in 1 .. Len(s) : Append(s, t)[i] = s[i]
      /\ Append(s, t)[Len(s) + 1] = t
  OBVIOUS
<1>. DEFINE a == Append(s, t)
<1>2. ASSUME NEW u \in Tasks PROVE Holds(a, u) <=> Holds(s, u) \/ u = t
  <2>1. ASSUME Holds(a, u) PROVE Holds(s, u) \/ u = t
    BY <1>1, <2>1 DEF Holds
  <2>2. ASSUME Holds(s, u) PROVE Holds(a, u)
    <3>1. PICK i \in 1 .. Len(s) : s[i] = u
      BY <1>1, <2>2 DEF Holds
    <3>2. i \in DOMAIN a /\ a[i] = u
      BY <1>1, <3>1
    <3>. QED BY <3>2 DEF Holds
  <2>3. Holds(a, t)
    <3>1. Len(s) + 1 \in DOMAIN a
      BY <1>1
    <3>. QED BY <1>1, <3>1 DEF Holds
  <2>. QED BY <2>1, <2>2, <2>3
<1>3. ASSUME Distinct(s), ~Holds(s, t) PROVE Distinct(a)
  <2>. SUFFICES ASSUME NEW i \in DOMAIN a, NEW j \in DOMAIN a, a[i] = a[j] PROVE i = j
    BY DEF Distinct
  <2>1. CASE i \in 1 .. Len(s) /\ j \in 1 .. Len(s)
    BY <1>1, <1>3, <2>1 DEF Distinct
  <2>2. CASE i \in 1 .. Len(s) /\ j = Len(s) + 1
    BY <1>1, <1>3, <2>2 DEF Holds
  <2>3. CASE i = Len(s) + 1 /\ j \in 1 .. Len(s)
    BY <1>1, <1>3, <2>3 DEF Holds
  <2>. QED BY <1>1, <2>1, <2>2, <2>3
<1>. QED BY <1>2, <1>3

LEMMA TailHolds ==
    ASSUME NEW s \in Seq(Tasks), s # << >>
    PROVE  /\ Tail(s) \in Seq(Tasks) /\ Head(s) \in Tasks
           /\ Holds(s, Head(s))
           /\ \A u \in Tasks : Holds(s, u) <=> Holds(Tail(s), u) \/ u = Head(s)
           /\ Distinct(s) => Distinct(Tail(s)) /\ ~Holds(Tail(s), Head(s))
<1>1. /\ Tail(s) \in Seq(Tasks) /\ Len(s) \in Nat \ {0} /\ Len(Tail(s)) = Len(s) - 1
      /\ DOMAIN s = 1 .. Len(s) /\ DOMAIN Tail(s) = 1 .. Len(s) - 1
      /\ \A i \in 1 .. Len(s) - 1 : Tail(s)[i] = s[i + 1]
      /\ Head(s) = s[1] /\ Head(s) \in Tasks
  OBVIOUS
<1>. DEFINE r == Tail(s)
<1>2. Holds(s, Head(s))
  <2>1. 1 \in DOMAIN s
    BY <1>1
  <2>. QED BY <1>1, <2>1 DEF Holds
<1>3. ASSUME NEW u \in Tasks PROVE Holds(s, u) <=> Holds(r, u) \/ u = Head(s)
  <2>1. ASSUME Holds(s, u), u # Head(s) PROVE Holds(r, u)
    <3>1. PICK i \in 1 .. Len(s) : s[i] = u
      BY <1>1, <2>1 DEF Holds
    <3>2. i - 1 \in DOMAIN r /\ r[i - 1] = u
      BY <1>1, <2>1, <3>1
    <3>. QED BY <3>2 DEF Holds
  <2>2. ASSUME Holds(r, u) PROVE Holds(s, u)
    <3>1. PICK i \in 1 .. Len(s) - 1 : r[i] = u
      BY <1>1, <2>2 DEF Holds
    <3>2. i + 1 \in DOMAIN s /\ s[i + 1] = u
      BY <1>1, <3>1
    <3>. QED BY <3>2 DEF Holds
  <2>. QED BY <1>2, <2>1, <2>2
<1>4. ASSUME Distinct(s) PROVE Distinct(r) /\ ~Holds(r, Head(s))
  <2>1. ASSUME NEW i \in DOMAIN r, NEW j \in DOMAIN r, r[i] = r[j] PROVE i = j
    <3>1. i + 1 \in DOMAIN s /\ j + 1 \in DOMAIN s /\ s[i + 1] = s[j + 1] /\ i \in Int /\ j \in Int
      BY <1>1, <2>1
    <3>2. i + 1 = j + 1
      BY <1>4, <3>1 DEF Distinct
    <3>. QED BY <3>1, <3>2
  <2>2. ASSUME NEW i \in DOMAIN r, r[i] = Head(s) PROVE FALSE
    <3>1. i + 1 \in DOMAIN s /\ 1 \in DOMAIN s /\ s[i + 1] = s[1] /\ i \in Nat \ {0}
      BY <1>1, <2>2
    <3>2. i + 1 = 1
      BY <1>4, <3>1 DEF Distinct
    <3>. QED BY <3>1, <3>2
  <2>. QED BY <2>1, <2>2 DEF Distinct, Holds
<1>. QED BY <1>1, <1>2, <1>3, <1>4

\* A task that is nowhere enters the back of a queue.
LEMMA EnterOnce ==
    ASSUME NEW Q \in [Places -> Seq(Tasks)], NEW F, NEW k \in Places, NEW t \in Tasks,
           EachOnce(Q, F), t \notin F
    PROVE  EachOnce([Q EXCEPT ![k] = Append(Q[k], t)], F \cup {t})
<1>. DEFINE R == [Q EXCEPT ![k] = Append(Q[k], t)]
<1>1. \A l \in Places : ~Holds(Q[l], t)
  BY DEF EachOnce
<1>2. /\ R[k] = Append(Q[k], t) /\ \A l \in Places : l # k => R[l] = Q[l]
      /\ Q[k] \in Seq(Tasks)
  OBVIOUS
<1>3. /\ \A u \in Tasks : Holds(R[k], u) <=> Holds(Q[k], u) \/ u = t
      /\ Distinct(R[k])
  BY <1>1, <1>2, AppendHolds DEF EachOnce
<1>. HIDE DEF R
<1>. QED BY <1>1, <1>2, <1>3 DEF EachOnce

\* The head of a queue leaves it.
LEMMA LeaveOnce ==
    ASSUME NEW Q \in [Places -> Seq(Tasks)], NEW F, NEW k \in Places,
           EachOnce(Q, F), Q[k] # << >>
    PROVE  EachOnce([Q EXCEPT ![k] = Tail(Q[k])], F \ {Head(Q[k])})
<1>. DEFINE R == [Q EXCEPT ![k] = Tail(Q[k])]
            t == Head(Q[k])
<1>1. /\ R[k] = Tail(Q[k]) /\ \A l \in Places : l # k => R[l] = Q[l]
      /\ Q[k] \in Seq(Tasks)
  OBVIOUS
<1>2. /\ t \in Tasks /\ Holds(Q[k], t) /\ Distinct(R[k]) /\ ~Holds(R[k], t)
      /\ \A u \in Tasks : Holds(Q[k], u) <=> Holds(R[k], u) \/ u = t
  BY <1>1, TailHolds DEF EachOnce
<1>. HIDE DEF R, t
<1>3. \A l \in Places : Distinct(R[l])
  BY <1>1, <1>2 DEF EachOnce
<1>4. \A l \in Places, u \in Tasks : Holds(R[l], u) <=> Holds(Q[l], u) /\ u # t
  BY <1>1, <1>2 DEF EachOnce
<1>5. \A u \in Tasks : u \in F \ {t} <=> \E l \in Places : Holds(R[l], u)
  BY <1>4 DEF EachOnce
<1>6. EachOnce(R, F \ {t})
  BY <1>3, <1>4, <1>5 DEF EachOnce
<1>. QED BY <1>6 DEF R, t

\* The head of one queue goes to the back of another one, or of its own.
LEMMA MoveOnce ==
    ASSUME NEW Q \in [Places -> Seq(Tasks)], NEW F, NEW k \in Places, NEW l \in Places,
           EachOnce(Q, F), Q[k] # << >>,
           NEW R \in [Places -> Seq(Tasks)],
           R[l] = Append(IF l = k THEN Tail(Q[k]) ELSE Q[l], Head(Q[k])),
           l # k => R[k] = Tail(Q[k]),
           \A m \in Places \ {k, l} : R[m] = Q[m]
    PROVE  EachOnce(R, F)
<1>. DEFINE P == [Q EXCEPT ![k] = Tail(Q[k])]
            t == Head(Q[k])
<1>1. Q[k] \in Seq(Tasks) /\ t \in Tasks /\ Holds(Q[k], t) /\ Tail(Q[k]) \in Seq(Tasks)
  BY TailHolds
<1>2. t \in F
  BY <1>1 DEF EachOnce
<1>3. P \in [Places -> Seq(Tasks)] /\ EachOnce(P, F \ {t})
  BY <1>1, LeaveOnce
<1>4. R = [P EXCEPT ![l] = Append(P[l], t)]
  <2>. DEFINE S == [P EXCEPT ![l] = Append(P[l], t)]
  <2>1. \A m \in Places : P[m] = IF m = k THEN Tail(Q[k]) ELSE Q[m]
    OBVIOUS
  <2>2. DOMAIN P = Places /\ DOMAIN R = Places
    OBVIOUS
  <2>. HIDE DEF P
  <2>3. DOMAIN S = Places /\ \A m \in Places : S[m] = IF m = l THEN Append(P[l], t) ELSE P[m]
    BY <2>2
  <2>4. ASSUME NEW m \in Places PROVE R[m] = S[m]
    BY <2>1, <2>3
  <2>5. R = [m \in Places |-> R[m]] /\ S = [m \in Places |-> S[m]]
    BY <2>2, <2>3
  <2>. QED BY <2>4, <2>5
<1>. HIDE DEF P, t
<1>5. EachOnce(R, (F \ {t}) \cup {t})
  BY <1>1, <1>3, <1>4, EnterOnce
<1>6. (F \ {t}) \cup {t} = F
  BY <1>2
<1>. QED BY <1>5, <1>6

LEMMA QueueFamily == QueuesOK => Queue \in [Places -> Seq(Tasks)]
BY DEF QueuesOK, Queue, Places, Lanes

LEMMA QueueFamilyNext == QueuesOK' => Queue' \in [Places -> Seq(Tasks)]
BY DEF QueuesOK, Queue, Places, Lanes

\* Lane l is the queue l, "queued" and "dispatched" are 4 and 5.
LEMMA QueueIs ==
    /\ Lanes \subseteq Places /\ 4 \in Places \ Lanes /\ 5 \in Places \ Lanes
    /\ \A k \in Places : k \in Lanes \/ k = 4 \/ k = 5
    /\ Queue[4] = queued /\ Queue[5] = dispatched /\ \A l \in Lanes : Queue[l] = lane[l]
    /\ Queue'[4] = queued' /\ Queue'[5] = dispatched' /\ \A l \in Lanes : Queue'[l] = lane'[l]
BY DEF Queue, Places, Lanes

\* Each step moves a task between queues, lets one enter or leave, or does neither.
LEMMA OnceStep ==
    ASSUME LoopInv, LoopInv', EachOnce(Queue, inFlight), [Next]_vars
    PROVE  EachOnce(Queue', inFlight')
<1>1. /\ Queue \in [Places -> Seq(Tasks)] /\ Queue' \in [Places -> Seq(Tasks)]
  BY QueueFamily, QueueFamilyNext DEF LoopInv
<1>2. CASE DrainOne
  <2>1. PICK l \in Lanes : Push(l, lane[l], Head(queued))
    BY <1>2 DEF DrainOne
  <2>2. Len(lane[l]) <= LaneCapacity
    BY <1>2, BoundAssumption DEF DrainOne, HasDeferred, LoopInv, QueuesOK
  <2>3. /\ queued # << >> /\ queued' = Tail(queued) /\ UNCHANGED <<dispatched, inFlight>>
        /\ lane' = [lane EXCEPT ![l] = Append(lane[l], Head(queued))]
    BY <1>2, <2>1, <2>2 DEF DrainOne, Push
  <2>4. lane'[l] = Append(lane[l], Head(queued)) /\ \A m \in Lanes \ {l} : lane'[m] = lane[m]
    BY <2>3 DEF LoopInv, QueuesOK
  <2>5. /\ Queue[4] # << >> /\ Queue'[l] = Append(Queue[l], Head(Queue[4]))
        /\ Queue'[4] = Tail(Queue[4]) /\ \A m \in Places \ {4, l} : Queue'[m] = Queue[m]
    BY <2>3, <2>4, QueueIs
  <2>6. l \in Places /\ 4 \in Places /\ l # 4
    BY QueueIs
  <2>7. EachOnce(Queue', inFlight)
    BY <1>1, <2>5, <2>6, MoveOnce
  <2>. QED BY <2>3, <2>7
<1>3. CASE DispatchSent
  <2>1. PICK l \in Lanes : /\ PopLane(l)
                          /\ dispatched' = Append(dispatched, Head(lane[l]))
                          /\ lane' = [lane EXCEPT ![l] = Tail(@)]
    BY <1>3 DEF DispatchSent
  <2>2. lane[l] # << >> /\ UNCHANGED <<queued, inFlight>>
    BY <1>3, <2>1 DEF DispatchSent, PopLane
  <2>3. lane'[l] = Tail(lane[l]) /\ \A m \in Lanes \ {l} : lane'[m] = lane[m]
    BY <2>1 DEF LoopInv, QueuesOK
  <2>4. /\ Queue[l] # << >> /\ Queue'[5] = Append(Queue[5], Head(Queue[l]))
        /\ Queue'[l] = Tail(Queue[l]) /\ \A m \in Places \ {l, 5} : Queue'[m] = Queue[m]
    BY <2>1, <2>2, <2>3, QueueIs
  <2>5. l \in Places /\ 5 \in Places /\ l # 5
    BY QueueIs
  <2>6. EachOnce(Queue', inFlight)
    BY <1>1, <2>4, <2>5, MoveOnce
  <2>. QED BY <2>2, <2>6
<1>4. CASE DispatchFull
  <2>1. PICK l \in Lanes : PopLane(l) /\ Push(l, Tail(lane[l]), Head(lane[l]))
    BY <1>4 DEF DispatchFull
  <2>2. lane[l] # << >> /\ UNCHANGED <<queued, dispatched, inFlight>>
    BY <1>4, <2>1 DEF DispatchFull, PopLane
  <2>3. Len(Tail(lane[l])) <= LaneCapacity
    BY <2>2, BoundAssumption DEF LoopInv, QueuesOK, DeferredSlotFree
  <2>4. lane' = [lane EXCEPT ![l] = Append(Tail(lane[l]), Head(lane[l]))]
    BY <2>1, <2>3 DEF Push
  <2>5. /\ lane'[l] = Append(Tail(lane[l]), Head(lane[l]))
        /\ \A m \in Lanes \ {l} : lane'[m] = lane[m]
    BY <2>4 DEF LoopInv, QueuesOK
  <2>6. /\ Queue[l] # << >> /\ Queue'[l] = Append(Tail(Queue[l]), Head(Queue[l]))
        /\ \A m \in Places \ {l} : Queue'[m] = Queue[m]
    BY <2>2, <2>5, QueueIs
  <2>7. l \in Places
    BY QueueIs
  <2>8. EachOnce(Queue', inFlight)
    BY <1>1, <2>6, <2>7, MoveOnce
  <2>. QED BY <2>2, <2>8
<1>5. CASE BpfDrain
  <2>1. /\ dispatched # << >> /\ dispatched' = Tail(dispatched)
        /\ inFlight' = inFlight \ {Head(dispatched)} /\ UNCHANGED <<queued, lane>>
    BY <1>5 DEF BpfDrain
  <2>2. Queue' = [Queue EXCEPT ![5] = Tail(Queue[5])]
    <3>1. Queue'[5] = Tail(Queue[5]) /\ \A k \in Places \ {5} : Queue'[k] = Queue[k]
      BY <2>1, QueueIs
    <3>. QED BY <1>1, <3>1
  <2>. QED BY <1>1, <2>1, <2>2, LeaveOnce, QueueIs
<1>6. CASE \E t \in Tasks : HandOver(t)
  <2>1. PICK t \in Tasks : HandOver(t)
    BY <1>6
  <2>2. Queue' = [Queue EXCEPT ![4] = Append(Queue[4], t)]
    BY <2>1 DEF HandOver, Queue, Places
  <2>. QED BY <1>1, <2>1, <2>2, EnterOnce, QueueIs DEF HandOver
<1>7. CASE \/ StartSchedule \/ DrainEnd \/ DispatchEnd \/ Notify \/ FallQuiet \/ Idle
           \/ UNCHANGED vars
  <2>1. UNCHANGED <<queued, lane, dispatched, inFlight>>
    BY <1>7 DEF StartSchedule, DrainEnd, DispatchEnd, Notify, FallQuiet, Idle, vars
  <2>2. Queue' = Queue
    BY <2>1 DEF Queue
  <2>. QED BY <2>1, <2>2
<1>. QED BY <1>2, <1>3, <1>4, <1>5, <1>6, <1>7 DEF Next, Schedule

\* A queue without repetitions has as many positions as tasks.
LEMMA DistinctCount ==
    ASSUME NEW s \in Seq(Tasks), Distinct(s)
    PROVE  /\ \A t \in Tasks : Count(t, s) = IF Holds(s, t) THEN 1 ELSE 0
           /\ IsFiniteSet({t \in Tasks : Holds(s, t)})
           /\ Cardinality({t \in Tasks : Holds(s, t)}) = Len(s)
<1>1. ASSUME NEW t \in Tasks PROVE Count(t, s) = IF Holds(s, t) THEN 1 ELSE 0
  <2>1. CASE Holds(s, t)
    <3>1. PICK i \in DOMAIN s : s[i] = t
      BY <2>1 DEF Holds
    <3>2. {j \in DOMAIN s : s[j] = t} = {i}
      BY <3>1 DEF Distinct
    <3>. QED BY <2>1, <3>2, FS_Singleton DEF Count
  <2>2. CASE ~Holds(s, t)
    <3>1. {j \in DOMAIN s : s[j] = t} = {}
      BY <2>2 DEF Holds
    <3>. QED BY <2>2, <3>1, FS_EmptySet DEF Count
  <2>. QED BY <2>1, <2>2
<1>. DEFINE T == {t \in Tasks : Holds(s, t)}
<1>2. DOMAIN s = 1 .. Len(s) /\ Len(s) \in Nat /\ \A i \in 1 .. Len(s) : s[i] \in Tasks
  OBVIOUS
<1>3. IsFiniteSet(1 .. Len(s)) /\ Cardinality(1 .. Len(s)) = Len(s)
  <2>1. 1 \in Int /\ Len(s) \in Int
    BY <1>2
  <2>2. IsFiniteSet(1 .. Len(s)) /\ Cardinality(1 .. Len(s)) = IF 1 > Len(s) THEN 0 ELSE Len(s) - 1 + 1
    BY <2>1, FS_Interval
  <2>. QED BY <1>2, <2>2
<1>. DEFINE f == [i \in 1 .. Len(s) |-> s[i]]
<1>4. f \in Bijection(1 .. Len(s), T)
  <2>1. f \in [1 .. Len(s) -> T]
    BY <1>2 DEF Holds
  <2>2. \A i, j \in 1 .. Len(s) : f[i] = f[j] => i = j
    BY <1>2 DEF Distinct
  <2>3. \A t \in T : \E i \in 1 .. Len(s) : f[i] = t
    BY <1>2 DEF Holds
  <2>. HIDE DEF f, T
  <2>. QED BY <2>1, <2>2, <2>3, Fun_IsBij
<1>5. ExistsBijection(1 .. Len(s), T)
  BY <1>4 DEF ExistsBijection
<1>6. IsFiniteSet(T) /\ Cardinality(T) = Cardinality(1 .. Len(s))
  <2>. HIDE DEF T
  <2>. QED BY <1>3, <1>5, FS_Bijection
<1>. QED BY <1>1, <1>3, <1>6

LEMMA DisjointUnion ==
    ASSUME NEW A, NEW B, IsFiniteSet(A), IsFiniteSet(B), A \cap B = {}
    PROVE  /\ IsFiniteSet(A \cup B)
           /\ Cardinality(A \cup B) = Cardinality(A) + Cardinality(B)
<1>1. /\ IsFiniteSet(A \cup B)
      /\ Cardinality(A \cup B) = Cardinality(A) + Cardinality(B) - Cardinality(A \cap B)
  BY FS_Union
<1>2. Cardinality(A \cap B) = 0
  BY FS_EmptySet
<1>3. Cardinality(A) \in Nat /\ Cardinality(B) \in Nat
  BY FS_CardinalityType
<1>. QED BY <1>1, <1>2, <1>3

LEMMA DisjointUnion3 ==
    ASSUME NEW A, NEW B, NEW C, IsFiniteSet(A), IsFiniteSet(B), IsFiniteSet(C),
           A \cap B = {}, A \cap C = {}, B \cap C = {}
    PROVE  Cardinality((A \cup B) \cup C) = Cardinality(A) + Cardinality(B) + Cardinality(C)
<1>1. IsFiniteSet(A \cup B) /\ Cardinality(A \cup B) = Cardinality(A) + Cardinality(B)
  BY DisjointUnion
<1>2. (A \cup B) \cap C = {}
  OBVIOUS
<1>3. Cardinality((A \cup B) \cup C) = Cardinality(A \cup B) + Cardinality(C)
  BY <1>1, <1>2, DisjointUnion
<1>. QED BY <1>1, <1>3

\* The lanes together hold no more tasks than there are.
LEMMA LanesBounded ==
    ASSUME LoopInv, EachOnce(Queue, inFlight)
    PROVE  TasksLen \in 0 .. Cardinality(Tasks)
<1>. DEFINE T == [l \in Lanes |-> {t \in Tasks : Holds(lane[l], t)}]
<1>1. \A l \in Lanes : lane[l] \in Seq(Tasks) /\ Distinct(lane[l])
  BY QueueIs DEF LoopInv, QueuesOK, EachOnce
<1>2. \A l \in Lanes : IsFiniteSet(T[l]) /\ Cardinality(T[l]) = Len(lane[l]) /\ Len(lane[l]) \in Nat
  BY <1>1, DistinctCount
<1>3. \A k, l \in Lanes : k # l => T[k] \cap T[l] = {}
  BY QueueIs DEF EachOnce
<1>4. \A l \in Lanes : T[l] \subseteq Tasks
  OBVIOUS
<1>5. 1 \in Lanes /\ 2 \in Lanes /\ 3 \in Lanes
  BY DEF Lanes
<1>. HIDE DEF T
<1>6. \A l \in {1, 2, 3} : /\ IsFiniteSet(T[l]) /\ Cardinality(T[l]) = Len(lane[l])
                            /\ Len(lane[l]) \in Nat
  BY <1>2 DEF Lanes
<1>7. T[1] \cap T[2] = {} /\ T[1] \cap T[3] = {} /\ T[2] \cap T[3] = {}
  BY <1>3 DEF Lanes
<1>8. /\ Cardinality((T[1] \cup T[2]) \cup T[3])
           = Cardinality(T[1]) + Cardinality(T[2]) + Cardinality(T[3])
      /\ Cardinality(T[1]) = Len(lane[1]) /\ Cardinality(T[2]) = Len(lane[2])
      /\ Cardinality(T[3]) = Len(lane[3])
  <2>1. IsFiniteSet(T[1]) /\ IsFiniteSet(T[2]) /\ IsFiniteSet(T[3])
    BY <1>6
  <2>2. Cardinality((T[1] \cup T[2]) \cup T[3])
          = Cardinality(T[1]) + Cardinality(T[2]) + Cardinality(T[3])
    BY <1>7, <2>1, DisjointUnion3
  <2>. QED BY <1>6, <2>2
<1>9. Cardinality((T[1] \cup T[2]) \cup T[3]) = TasksLen
  BY <1>8 DEF TasksLen
<1>10. Cardinality((T[1] \cup T[2]) \cup T[3]) <= Cardinality(Tasks) /\ Cardinality(Tasks) \in Nat
  <2>1. (T[1] \cup T[2]) \cup T[3] \subseteq Tasks
    BY <1>4, <1>5
  <2>. QED BY <2>1, TasksAssumption, FS_Subset, FS_CardinalityType
<1>11. TasksLen \in Nat
  BY DEF TasksLen, LoopInv, QueuesOK, Lanes
<1>. QED BY <1>9, <1>10, <1>11

\* EachOnce says of every task what TasksConserved counts.
LEMMA OnceConserved ==
    ASSUME LoopInv, EachOnce(Queue, inFlight)
    PROVE  TasksConserved
<1>. SUFFICES ASSUME NEW t \in Tasks
              PROVE  Count(t, queued) + Count(t, lane[1]) + Count(t, lane[2]) + Count(t, lane[3])
                       + Count(t, dispatched) = IF t \in inFlight THEN 1 ELSE 0
  BY DEF TasksConserved
<1>. DEFINE h(k) == Holds(Queue[k], t)
<1>1. \A k \in Places : Count(t, Queue[k]) = IF h(k) THEN 1 ELSE 0
  BY QueueFamily, DistinctCount DEF LoopInv, EachOnce
<1>2. \A k, l \in Places : h(k) /\ h(l) => k = l
  BY DEF EachOnce
<1>3. t \in inFlight <=> \E k \in Places : h(k)
  BY DEF EachOnce
<1>4. Places = {1, 2, 3, 4, 5}
  BY DEF Places
<1>5. /\ Count(t, Queue[4]) = Count(t, queued) /\ Count(t, Queue[5]) = Count(t, dispatched)
      /\ \A l \in {1, 2, 3} : Count(t, Queue[l]) = Count(t, lane[l])
  BY QueueIs DEF Lanes
<1>. HIDE DEF h
<1>. QED BY <1>1, <1>2, <1>3, <1>4, <1>5

\* Each task is in one place, and the counters stay within their limits.
ScalarsOK ==
    /\ pc \in {"loop", "drain", "dispatch", "notify"}
    /\ drained \in 0 .. DrainBudget /\ nrScheduled \in 0 .. Cardinality(Tasks)
    /\ inFlight \subseteq Tasks

FallbackInv == LoopInv /\ EachOnce(Queue, inFlight) /\ ScalarsOK /\ quiet \in BOOLEAN

LEMMA ScalarsStep ==
    ASSUME LoopInv, EachOnce(Queue, inFlight), ScalarsOK, [Next]_vars
    PROVE  ScalarsOK'
<1>. USE DEF ScalarsOK
<1>1. CASE StartSchedule
  BY <1>1, BoundAssumption DEF StartSchedule
<1>2. CASE DrainOne
  BY <1>2, BoundAssumption DEF DrainOne
<1>3. CASE DrainEnd
  BY <1>3 DEF DrainEnd
<1>4. CASE DispatchSent
  BY <1>4 DEF DispatchSent
<1>5. CASE DispatchFull
  BY <1>5 DEF DispatchFull
<1>6. CASE DispatchEnd
  BY <1>6 DEF DispatchEnd
<1>7. CASE Notify
  <2>1. nrScheduled' \in 0 .. Cardinality(Tasks)
    BY <1>7, LanesBounded DEF Notify
  <2>. QED BY <1>7, <2>1 DEF Notify
<1>8. CASE BpfDrain
  BY <1>8 DEF BpfDrain
<1>9. CASE FallQuiet \/ Idle \/ UNCHANGED vars
  BY <1>9 DEF FallQuiet, Idle, vars
<1>10. CASE \E t \in Tasks : HandOver(t)
  BY <1>10 DEF HandOver
<1>. QED BY <1>1, <1>2, <1>3, <1>4, <1>5, <1>6, <1>7, <1>8, <1>9, <1>10 DEF Next, Schedule

LEMMA QuietStep == ASSUME quiet \in BOOLEAN, [Next]_vars PROVE quiet' \in BOOLEAN
<1>1. quiet' = quiet \/ quiet' = TRUE
  BY DEF Next, Schedule, StartSchedule, DrainOne, DrainEnd, DispatchSent, DispatchFull,
         DispatchEnd, Notify, BpfDrain, FallQuiet, Idle, HandOver, vars
<1>. QED BY <1>1, Zenon

\* The rings and lanes hold each task in flight once, in every reachable state.
THEOREM FallbackInvHolds == Spec => []FallbackInv
<1>1. ASSUME Init PROVE LoopInv /\ ScalarsOK /\ EachOnce(Queue, inFlight)
  <2>1. LoopInv
    BY <1>1, BoundAssumption DEF Init, LoopInv, QueuesOK, DeferredSlotFree, Lanes
  <2>2. ScalarsOK
    BY <1>1, TasksAssumption, FS_CardinalityType, BoundAssumption DEF Init, ScalarsOK
  <2>3. \A k \in Places : DOMAIN Queue[k] = {}
    BY <1>1 DEF Init, Queue, Places, Lanes
  <2>. QED BY <1>1, <2>1, <2>2, <2>3 DEF Init, EachOnce, Distinct, Holds
<1>2. Init => quiet \in BOOLEAN
  BY DEF Init
<1>3. ASSUME LoopInv, LoopInv', EachOnce(Queue, inFlight), ScalarsOK, [Next]_vars
      PROVE  EachOnce(Queue, inFlight)' /\ ScalarsOK'
  <2>1. EachOnce(Queue, inFlight)'
    BY <1>3, OnceStep DEF EachOnce, Distinct, Holds
  <2>. QED BY <1>3, <2>1, ScalarsStep
<1>4. Init => FallbackInv
  BY <1>1, <1>2 DEF FallbackInv
<1>5. ASSUME FallbackInv, LoopInv', [Next]_vars PROVE FallbackInv'
  <2>1. EachOnce(Queue, inFlight)' /\ ScalarsOK'
    BY <1>3, <1>5 DEF FallbackInv
  <2>2. (quiet \in BOOLEAN)'
    BY <1>5, QuietStep DEF FallbackInv
  <2>. QED BY <1>5, <2>1, <2>2 DEF FallbackInv
<1>. QED BY <1>4, <1>5, LoopInvHolds, PTL DEF Spec

\* "the scheduler never drops runnable work": a task handed to user space is in
\* exactly one of the rings and lanes until BPF dispatches it.
THEOREM NoTaskLost == Spec => []TasksConserved
<1>1. FallbackInv => TasksConserved
  BY OnceConserved DEF FallbackInv
<1>. QED BY <1>1, FallbackInvHolds, PTL

\* schedule() stays within its drain budget and announces no more tasks than there
\* are.
THEOREM TypeCorrect == Spec => []TypeOK
<1>1. FallbackInv => TypeOK
  BY DEF FallbackInv, LoopInv, QueuesOK, DeferredSlotFree, ScalarsOK, TypeOK
<1>. QED BY <1>1, FallbackInvHolds, PTL

-----------------------------------------------------------------------------
(* The task policy of the same loop: TaskPolicy for the same tasks. *)

CONSTANTS Weight, KernelWorkers, ServerMode, SliceUs, SliceUsMin, Pressures, Bursts, Sleeps,
          Waits, ExecCap, Floor, MaxRt
VARIABLES st, vt, fresh, lastSlice, exec, slept, last, current, rtEvents

Policy == INSTANCE TaskPolicy

\* What the bound on the credit needs of the types.
PolicyType ==
    /\ st \in [Tasks -> {"asleep", "queued", "running"}]
    /\ vt \in [Tasks -> Int] /\ slept \in [Tasks -> Int]
    /\ last \in [Tasks -> [burst : Nat, gap : Int]]
    /\ current \in Nat

LEMMA ClampFacts ==
    ASSUME NEW n \in Int, NEW lo \in Int, NEW hi \in Int, lo <= hi
    PROVE  Policy!Clamp(n, lo, hi) \in Int /\ Policy!Clamp(n, lo, hi) >= lo
BY DEF Policy!Clamp, Policy!Larger, Policy!Smaller

LEMMA WeightType ==
    ASSUME Policy!ConstantsOK, NEW t \in Tasks
    PROVE  Weight[t] \in Nat \ {0}
BY DEF Policy!ConstantsOK

LEMMA ProfileFacts ==
    ASSUME Policy!ConstantsOK
    PROVE  /\ Policy!BaseSlice \in Nat /\ Policy!SliceNsMin \in Nat
           /\ Policy!SliceNsMin <= Policy!ClampMax /\ Policy!ClampMax \in Nat
<1>1. Policy!DefaultSlice \in Nat /\ Policy!DefaultSliceMin \in Nat
  BY DEF Policy!DefaultSlice, Policy!DefaultSliceMin
<1>2. Policy!SliceNsMin \in Nat
  BY <1>1 DEF Policy!ConstantsOK, Policy!SliceNsMin
<1>3. Policy!BaseSlice \in Nat
  BY <1>1, <1>2 DEF Policy!ConstantsOK, Policy!BaseSlice, Policy!Larger
<1>4. Policy!SliceNsMin <= Policy!ClampMax /\ Policy!ClampMax \in Nat
  BY <1>2, <1>3 DEF Policy!ClampMax, Policy!Larger
<1>. QED BY <1>2, <1>3, <1>4

LEMMA SleepBonusType ==
    ASSUME Policy!ConstantsOK, NEW gap \in Int
    PROVE  Policy!SleepBonus(gap) \in Int
<1>. DEFINE lo == Policy!SliceNsMin \div 2
            hi == Policy!Larger(Policy!BaseSlice, Policy!SliceNsMin)
<1>1. gap \div 4 \in Int /\ lo \in Int /\ hi \in Int
  BY ProfileFacts DEF Policy!Larger
<1>2. Policy!Clamp(gap \div 4, lo, hi) \in Int
  BY <1>1 DEF Policy!Clamp, Policy!Larger, Policy!Smaller
<1>. QED BY <1>2 DEF Policy!SleepBonus

\* The wake credit of a slice is at most the slice.
LEMMA CreditFacts ==
    ASSUME Policy!ConstantsOK, NEW slice \in Nat, NEW gap \in Int
    PROVE  /\ Policy!DeadlineCredit(slice, gap) \in Int
           /\ Policy!DeadlineCredit(slice, gap) <= slice
           /\ Policy!DeadlineCredit(slice, gap) <= Policy!WakeDeadlineCredit
<1>1. Policy!SleepBonus(gap) \in Int /\ Policy!SliceNsMin \div 2 \in Int /\ slice \div 2 \in Int
      /\ slice \div 2 <= slice
  BY SleepBonusType, ProfileFacts
<1>2. Policy!WakeCredit(slice, gap) \in Int /\ Policy!WakeCredit(slice, gap) <= slice
  BY <1>1 DEF Policy!WakeCredit, Policy!Larger, Policy!Smaller, Policy!WakeDeadlineCredit
<1>. QED BY <1>1, <1>2 DEF Policy!DeadlineCredit, Policy!Larger, Policy!Smaller, Policy!WakeDeadlineCredit

LEMMA PolicyProduct == ASSUME NEW m \in Nat, NEW n \in Nat PROVE m * n \in Nat
OBVIOUS

LEMMA SliceType ==
    ASSUME Policy!ConstantsOK, NEW t \in Tasks, NEW label, NEW boosted, NEW gap \in Int,
           NEW ai \in Nat
    PROVE  Policy!Slice(t, label, boosted, gap, ai) \in Nat
<1>. DEFINE bonus == IF boosted THEN Policy!SleepBonus(gap) \div 2 ELSE 0
            fair == (ai * Weight[t]) \div 100 + bonus
            bounded == Policy!Clamp(fair, Policy!SliceNsMin, Policy!ClampMax)
<1>1. bonus \in Int
  BY SleepBonusType
<1>2. ai * Weight[t] \in Nat
  BY PolicyProduct, WeightType
<1>3. fair \in Int
  BY <1>1, <1>2
<1>. HIDE DEF fair
<1>4. bounded \in Int /\ bounded >= Policy!SliceNsMin
  <2>1. /\ Policy!SliceNsMin \in Int /\ Policy!ClampMax \in Int
        /\ Policy!SliceNsMin <= Policy!ClampMax
    BY ProfileFacts
  <2>. QED BY <1>3, <2>1, ClampFacts
<1>5. bounded \in Nat
  BY <1>4, ProfileFacts
<1>. HIDE DEF bounded
<1>6. Policy!Smaller(Policy!Larger(bounded, Policy!BaseSlice), Policy!ClampMax) \in Nat
  BY <1>5, ProfileFacts DEF Policy!Smaller, Policy!Larger
<1>. QED BY <1>5, <1>6 DEF Policy!Slice, fair, bounded

\* Scaling by the inverse of a weight shortens nothing unless the weight is above
\* the default.
LEMMA InverseFacts ==
    ASSUME Policy!ConstantsOK, NEW t \in Tasks, NEW n \in Nat
    PROVE  /\ Policy!ByWeightInverse(t, n) \in Nat
           /\ Weight[t] <= 100 => Policy!ByWeightInverse(t, n) >= n
<1>. DEFINE w == Weight[t]
            q == (n * 100) \div w
<1>1. w \in Nat \ {0} /\ Policy!Larger(w, 1) = w
  BY WeightType DEF Policy!Larger
<1>2. Policy!ByWeightInverse(t, n) = q
  BY <1>1 DEF Policy!ByWeightInverse
<1>. HIDE DEF w
<1>3. q \in Nat
  BY <1>1
<1>4. ASSUME w <= 100 PROVE q >= n
  <2>1. n * w <= n * 100
    BY <1>1, <1>4
  <2>2. (n * w) \div w = n
    BY <1>1
  <2>. QED BY <1>1, <1>3, <2>1, <2>2
<1>. QED BY <1>2, <1>3, <1>4 DEF w

\* How far behind the front a queued task may be: a base slice, and for a task of
\* more than the default weight its wake credit too.
Bounded(t) ==
    /\ Weight[t] <= 100 => vt'[t] >= - Policy!BaseSlice
    /\ Weight[t] <= 9500 => vt'[t] >= - (Policy!BaseSlice + Policy!WakeDeadlineCredit)

\* What derive_task_policy and dispatch_task make of a task: the others keep their
\* state, and t is not put further behind the front than its credit allows.
LEMMA DeriveFacts ==
    ASSUME Policy!ConstantsOK, PolicyType, NEW t \in Tasks, NEW v \in Int, NEW burst \in Nat,
           NEW ex, NEW gap \in Int, Policy!Derive(t, v, burst, ex, gap)
    PROVE  /\ st' = [st EXCEPT ![t] = "queued"]
           /\ vt' \in [Tasks -> Int]
           /\ t \notin KernelWorkers => Bounded(t)
<1>. DEFINE prev == IF lastSlice[t] > 0 THEN lastSlice[t] ELSE Policy!Larger(Policy!BaseSlice, 4)
            label == Policy!Label(t, burst, prev, ex)
            boosted == Policy!WakeBoosted(label, burst, prev, ex, gap)
            slice == Policy!Slice(t, label, boosted, gap, current)
            vtime == Policy!TaskVtime(t, v, burst)
            credit == IF boosted THEN Policy!DeadlineCredit(slice, gap) ELSE 0
            key == vtime + Policy!ByWeightInverse(t, slice) - credit
            front == Policy!Larger(vtime, 0)
            dispat == IF label = "RealTime" THEN - Floor ELSE Policy!Larger(key - front, - Floor)
<1>1. /\ st' = [st EXCEPT ![t] = "queued"]
      /\ vt' = [u \in Tasks |-> IF u = t THEN dispat ELSE Policy!Larger(vt[u] - front, - Floor)]
  BY DEF Policy!Derive
<1>. HIDE DEF prev, label, boosted
<1>2. slice \in Nat
  BY SliceType DEF PolicyType
<1>. HIDE DEF slice
<1>3. credit \in Int /\ credit <= slice /\ credit <= Policy!WakeDeadlineCredit
  BY <1>2, CreditFacts DEF Policy!WakeDeadlineCredit
<1>4. vtime \in Int /\ vtime >= - Policy!BaseSlice
  <2>1. Policy!ByWeightInverse(t, burst) \in Nat
    BY InverseFacts
  <2>. QED BY <2>1, ProfileFacts DEF Policy!TaskVtime, Policy!Larger
<1>5. /\ Policy!ByWeightInverse(t, slice) \in Nat
      /\ Weight[t] <= 100 => Policy!ByWeightInverse(t, slice) >= slice
  BY <1>2, InverseFacts
<1>. HIDE DEF credit, vtime
<1>6. front \in Int /\ key \in Int /\ Floor \in Int
  BY <1>3, <1>4, <1>5 DEF Policy!Larger, Policy!ConstantsOK
<1>7. /\ Weight[t] <= 100 => key - front >= - Policy!BaseSlice
      /\ key - front >= - (Policy!BaseSlice + Policy!WakeDeadlineCredit)
  BY <1>2, <1>3, <1>4, <1>5, ProfileFacts DEF Policy!Larger, Policy!WakeDeadlineCredit
<1>. HIDE DEF key, front
<1>8. dispat \in Int /\ (label # "RealTime" => dispat >= key - front)
  BY <1>6 DEF Policy!Larger
<1>9. t \notin KernelWorkers /\ Weight[t] <= 9500 => label # "RealTime"
  BY WeightType DEF label, Policy!Label
<1>10. \A u \in Tasks : Policy!Larger(vt[u] - front, - Floor) \in Int
  BY <1>6 DEF Policy!Larger, PolicyType
<1>. HIDE DEF dispat
<1>11. vt' \in [Tasks -> Int] /\ vt'[t] = dispat
  BY <1>1, <1>8, <1>10
<1>12. Policy!BaseSlice \in Int /\ key - front \in Int /\ Weight[t] \in Int
  BY <1>6, ProfileFacts, WeightType
<1>. QED BY <1>1, <1>7, <1>8, <1>9, <1>11, <1>12 DEF Bounded, Policy!WakeDeadlineCredit

LEMMA UpdatedSliceType ==
    ASSUME Policy!ConstantsOK, NEW n \in Nat
    PROVE  Policy!UpdatedSlice(n) \in Nat /\ Policy!InitialSlice \in Nat
<1>1. \A m \in Int : Policy!Auto(m) \in Nat
  BY DEF Policy!Auto, Policy!Clamp, Policy!Larger, Policy!Smaller, Policy!AutoSliceMin,
         Policy!AutoSliceMax
<1>2. Policy!Larger(n, 1) \in Nat \ {0}
  BY DEF Policy!Larger
<1>3. Policy!TargetedLatency \div Policy!Larger(n, 1) \in Int
  BY <1>2 DEF Policy!TargetedLatency
<1>4. Policy!Smaller(Policy!Auto(Policy!TargetedLatency \div Policy!Larger(n, 1)), Policy!BaseSlice) \in Int
  BY <1>1, <1>3, ProfileFacts DEF Policy!Smaller
<1>. QED BY <1>1, <1>4, ProfileFacts DEF Policy!UpdatedSlice, Policy!InitialSlice

Joins(t) == st[t] # "queued" /\ st'[t] = "queued" => Bounded(t)

LEMMA WakeBounded ==
    ASSUME Policy!ConstantsOK, PolicyType, NEW u \in Tasks, Policy!Wake(u)
    PROVE  PolicyType' /\ \A t \in Tasks \ KernelWorkers : Joins(t)
<1>1. last[u].burst \in Nat /\ last[u].gap \in Int /\ vt[u] \in Int
  BY DEF PolicyType
<1>2. /\ st' = [st EXCEPT ![u] = "queued"] /\ vt' \in [Tasks -> Int]
      /\ u \notin KernelWorkers => Bounded(u)
  BY <1>1, DeriveFacts DEF Policy!Wake
<1>3. slept' \in [Tasks -> Int]
  BY DEF Policy!Wake, PolicyType, Policy!ConstantsOK, Policy!Unknown
<1>4. last' \in [Tasks -> [burst : Nat, gap : Int]] /\ current' = current
  BY DEF Policy!Wake, PolicyType, Policy!NeverRan
<1>5. st' \in [Tasks -> {"asleep", "queued", "running"}]
  BY <1>2 DEF PolicyType
<1>. QED BY <1>2, <1>3, <1>4, <1>5 DEF PolicyType, Joins

LEMMA StopBounded ==
    ASSUME Policy!ConstantsOK, PolicyType, NEW u \in Tasks, Policy!Stop(u)
    PROVE  PolicyType' /\ \A t \in Tasks \ KernelWorkers : Joins(t)
<1>. DEFINE v(b) == vt[u] + Policy!ByWeightInverse(u, b)
            ex(b) == Policy!Smaller(exec[u] + b, ExecCap)
<1>1. PICK b \in Bursts, w \in Waits :
         \/ /\ Policy!Derive(u, v(b), b, ex(b), Policy!Gap(u, w))
            /\ slept' = [slept EXCEPT ![u] = 0]
            /\ UNCHANGED <<last, current>>
         \/ /\ st' = [st EXCEPT ![u] = "asleep"]
            /\ vt' = [vt EXCEPT ![u] = v(b)]
            /\ last' = [last EXCEPT ![u] = [burst |-> b, gap |-> Policy!Gap(u, w)]]
            /\ slept' = [slept EXCEPT ![u] = Policy!Unknown]
            /\ UNCHANGED current
  BY DEF Policy!Stop
<1>2. b \in Nat /\ w \in Nat
  BY DEF Policy!ConstantsOK
<1>3. v(b) \in Int
  BY <1>2, InverseFacts DEF PolicyType
<1>4. Policy!Gap(u, w) \in Int
  BY <1>2 DEF Policy!Gap, PolicyType, Policy!Unknown
<1>. HIDE DEF v, ex
<1>5. CASE /\ Policy!Derive(u, v(b), b, ex(b), Policy!Gap(u, w))
           /\ slept' = [slept EXCEPT ![u] = 0]
           /\ UNCHANGED <<last, current>>
  <2>1. /\ st' = [st EXCEPT ![u] = "queued"] /\ vt' \in [Tasks -> Int]
        /\ u \notin KernelWorkers => Bounded(u)
    BY <1>2, <1>3, <1>4, <1>5, DeriveFacts
  <2>2. slept' \in [Tasks -> Int] /\ st' \in [Tasks -> {"asleep", "queued", "running"}]
    BY <1>5, <2>1 DEF PolicyType
  <2>. QED BY <1>5, <2>1, <2>2 DEF PolicyType, Joins
<1>6. CASE /\ st' = [st EXCEPT ![u] = "asleep"]
           /\ vt' = [vt EXCEPT ![u] = v(b)]
           /\ last' = [last EXCEPT ![u] = [burst |-> b, gap |-> Policy!Gap(u, w)]]
           /\ slept' = [slept EXCEPT ![u] = Policy!Unknown]
           /\ UNCHANGED current
  <2>1. PolicyType'
    BY <1>2, <1>3, <1>4, <1>6 DEF PolicyType, Policy!Unknown
  <2>2. \A t \in Tasks : st'[t] = "queued" => st[t] = "queued"
    BY <1>6 DEF PolicyType
  <2>. QED BY <2>1, <2>2 DEF Joins
<1>. QED BY <1>1, <1>5, <1>6

LEMMA PolicyStep ==
    ASSUME Policy!ConstantsOK, PolicyType, Policy!Next
    PROVE  PolicyType' /\ \A t \in Tasks \ KernelWorkers : Joins(t)
<1>1. CASE Policy!TickSliceController
  <2>1. current' \in Nat
    BY <1>1, UpdatedSliceType DEF Policy!TickSliceController, Policy!ConstantsOK
  <2>. QED BY <1>1, <2>1 DEF Policy!TickSliceController, PolicyType, Joins
<1>2. ASSUME NEW u \in Tasks, Policy!Run(u)
      PROVE  PolicyType' /\ \A t \in Tasks \ KernelWorkers : Joins(t)
  BY <1>2 DEF Policy!Run, PolicyType, Joins
<1>. QED BY <1>1, <1>2, WakeBounded, StopBounded DEF Policy!Next

\* Every step respects the bound.
LEMMA JoinsBounded ==
    ASSUME Policy!ConstantsOK
    PROVE  Policy!Spec => [][\A t \in Tasks \ KernelWorkers : Joins(t)]_Policy!vars
<1>1. Policy!Init => PolicyType
  <2>1. Policy!InitialSlice \in Nat
    BY UpdatedSliceType
  <2>. QED BY <2>1 DEF Policy!Init, PolicyType, Policy!NeverRan
<1>2. ASSUME PolicyType, [Policy!Next]_Policy!vars
      PROVE  PolicyType' /\ [\A t \in Tasks \ KernelWorkers : Joins(t)]_Policy!vars
  <2>1. CASE Policy!Next
    BY <1>2, <2>1, PolicyStep
  <2>2. CASE UNCHANGED Policy!vars
    BY <1>2, <2>2 DEF Policy!vars, PolicyType
  <2>. QED BY <1>2, <2>1, <2>2
<1>. QED BY <1>1, <1>2, PTL DEF Policy!Spec

\* However the fallback mixes lag credit and wake credit, no user task of at most
\* the default weight is queued further than one base slice behind vruntime_now,
\* for every profile, slice setting and length of runs, sleeps and waits.
THEOREM CreditBoundedHolds ==
    ASSUME Policy!ConstantsOK, \A t \in Tasks \ KernelWorkers : Weight[t] <= 100
    PROVE  Policy!Spec => Policy!CreditBounded
<1>1. [\A t \in Tasks \ KernelWorkers : Joins(t)]_Policy!vars
        => [\A t \in Tasks \ KernelWorkers :
              st[t] # "queued" /\ st'[t] = "queued" => vt'[t] >= - Policy!BaseSlice]_Policy!vars
  BY DEF Joins, Bounded
<1>. QED BY <1>1, JoinsBounded, PTL DEF Policy!CreditBounded

\* A user task of any weight below the RealTime label's is queued at most a base
\* slice and WAKE_DEADLINE_CREDIT_NS behind vruntime_now.
THEOREM CreditBoundedAnyWeight ==
    ASSUME Policy!ConstantsOK, \A t \in Tasks \ KernelWorkers : Weight[t] <= 9500
    PROVE  Policy!Spec =>
             [][\A t \in Tasks \ KernelWorkers :
                  st[t] # "queued" /\ st'[t] = "queued" =>
                    vt'[t] >= - (Policy!BaseSlice + Policy!WakeDeadlineCredit)]_Policy!vars
<1>1. [\A t \in Tasks \ KernelWorkers : Joins(t)]_Policy!vars
        => [\A t \in Tasks \ KernelWorkers :
              st[t] # "queued" /\ st'[t] = "queued" =>
                vt'[t] >= - (Policy!BaseSlice + Policy!WakeDeadlineCredit)]_Policy!vars
  BY DEF Joins, Bounded
<1>. QED BY <1>1, JoinsBounded, PTL
=============================================================================
