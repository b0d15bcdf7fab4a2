--------------------------- MODULE TaskQueue_proofs ---------------------------
(***************************************************************************)
(* TLAPS proofs about TaskQueue, for every capacity and every value type.  *)
(***************************************************************************)
EXTENDS TaskQueue, TLAPS

\* The ring index advances by one and wraps at the capacity.
LEMMA SuccWraps ==
    ASSUME NEW i \in Slots
    PROVE  Succ(i) = IF i + 1 = Capacity THEN 0 ELSE i + 1
BY CapacityAssumption DEF Slots, Succ

\* The empty queue satisfies the invariant.
LEMMA InitInv == Init => IndInv
BY CapacityAssumption
   DEF Init, IndInv, TypeOK, Slots, SlotsInitialised, SlotAt, DeferredOnlyWhenFull

\* A push into the ring fills the slot after the youngest value.
LEMMA PushPrimaryInv ==
    ASSUME IndInv, NEW v \in Values, PushPrimary(v)
    PROVE  IndInv'
<1>1. tail' = IF tail + 1 = Capacity THEN 0 ELSE tail + 1
  BY SuccWraps DEF IndInv, TypeOK, PushPrimary
<1>2. TypeOK'
  BY <1>1, CapacityAssumption DEF IndInv, TypeOK, PushPrimary, Slots, IsFull
<1>3. DeferredOnlyWhenFull'
  BY DEF IndInv, DeferredOnlyWhenFull, PushPrimary, IsFull
<1>4. SlotsInitialised'
  <2>1. /\ len' < Capacity => tail' = SlotAt(len)'
        /\ len' = Capacity => tail' = head'
    BY <1>1, CapacityAssumption
       DEF IndInv, TypeOK, SlotsInitialised, PushPrimary, IsFull, Slots, SlotAt
  <2>2. ASSUME NEW i \in Slots
        PROVE  buf'[i] # Uninit <=> \E k \in 0 .. len' - 1 : i = SlotAt(k)'
    <3>1. CASE i = tail
      <4>1. buf'[i] # Uninit
        BY <3>1, ValuesAssumption DEF IndInv, TypeOK, PushPrimary
      <4>2. PICK n \in 0 .. Capacity - 1 : n = len
        BY CapacityAssumption DEF IndInv, TypeOK, PushPrimary, IsFull
      <4>3. n \in 0 .. len' - 1
        BY <4>2 DEF IndInv, TypeOK, PushPrimary
      <4>4. len < Capacity
        BY <4>2, CapacityAssumption
      <4>5. i = SlotAt(n)'
        BY <3>1, <4>2, <4>4 DEF IndInv, SlotsInitialised, PushPrimary, SlotAt
      <4>. QED BY <4>1, <4>3, <4>5
    <3>2. CASE i # tail
      <4>1. buf'[i] = buf[i]
        BY <3>2 DEF IndInv, TypeOK, PushPrimary
      <4>2. \A k \in 0 .. len' - 1 : i = SlotAt(k)' => k \in 0 .. len - 1
        BY <3>2, CapacityAssumption
           DEF IndInv, TypeOK, SlotsInitialised, PushPrimary, IsFull, SlotAt
      <4>. QED
        BY <4>1, <4>2 DEF IndInv, TypeOK, SlotsInitialised, PushPrimary, SlotAt
    <3>. QED BY <3>1, <3>2
  <2>. QED BY <2>1, <2>2 DEF SlotsInitialised
<1>. QED BY <1>2, <1>3, <1>4 DEF IndInv

\* A push into the deferred slot does not touch the ring.
LEMMA PushDeferredInv ==
    ASSUME IndInv, NEW v \in Values, PushDeferred(v) \/ PushRejected(v)
    PROVE  IndInv'
BY DEF IndInv, TypeOK, SlotsInitialised, DeferredOnlyWhenFull, SlotAt, IsFull,
       PushDeferred, PushRejected, ring

\* Every slot is at some distance from any other.
LEMMA SlotReached ==
    ASSUME NEW h \in Slots, NEW i \in Slots
    PROVE  \E k \in Slots : i = IF h + k < Capacity THEN h + k ELSE h + k - Capacity
<1>1. CASE i >= h
  <2>1. i - h \in Slots /\ h + (i - h) = i /\ i < Capacity
    BY <1>1, CapacityAssumption DEF Slots
  <2>. QED BY <2>1
<1>2. CASE i < h
  <2>. DEFINE k == i - h + Capacity
  <2>1. k \in Slots /\ ~(h + k < Capacity) /\ i = h + k - Capacity
    BY <1>2, CapacityAssumption DEF Slots
  <2>. HIDE DEF k
  <2>. QED BY <2>1
<1>. QED BY <1>1, <1>2 DEF Slots

\* A pop releases the slot of the oldest value; a deferred value moves into the
\* slot at tail, which is the one just released.
LEMMA PopPrimaryInv ==
    ASSUME IndInv, PopPrimary
    PROVE  IndInv'
<1>1. head' = IF head + 1 = Capacity THEN 0 ELSE head + 1
  BY SuccWraps DEF IndInv, TypeOK, PopPrimary
<1>2. CASE deferred = Uninit
  <2>1. /\ buf' = [buf EXCEPT ![head] = Uninit] /\ len' = len - 1
        /\ tail' = tail /\ deferred' = Uninit
    BY <1>2 DEF PopPrimary
  <2>2. TypeOK' /\ DeferredOnlyWhenFull'
    BY <1>1, <2>1, CapacityAssumption
       DEF IndInv, TypeOK, DeferredOnlyWhenFull, PopPrimary, Slots
  <2>3. /\ len' < Capacity => tail' = SlotAt(len)'
        /\ len' = Capacity => tail' = head'
    BY <1>1, <2>1, CapacityAssumption
       DEF IndInv, TypeOK, SlotsInitialised, PopPrimary, Slots, SlotAt
  <2>4. ASSUME NEW i \in Slots
        PROVE  buf'[i] # Uninit <=> \E k \in 0 .. len' - 1 : i = SlotAt(k)'
    <3>1. CASE i = head
      <4>1. buf'[i] = Uninit
        BY <2>1, <3>1 DEF IndInv, TypeOK
      <4>2. \A k \in 0 .. len' - 1 : i # SlotAt(k)'
        BY <1>1, <2>1, <3>1, CapacityAssumption
           DEF IndInv, TypeOK, PopPrimary, Slots, SlotAt
      <4>. QED BY <4>1, <4>2
    <3>2. CASE i # head
      <4>1. buf'[i] = buf[i]
        BY <2>1, <3>2 DEF IndInv, TypeOK
      <4>2. ASSUME NEW k \in 0 .. len - 1, i = SlotAt(k)
            PROVE  k - 1 \in 0 .. len' - 1 /\ i = SlotAt(k - 1)'
        BY <1>1, <2>1, <3>2, <4>2, CapacityAssumption
           DEF IndInv, TypeOK, PopPrimary, Slots, SlotAt
      <4>3. ASSUME NEW k \in 0 .. len' - 1, i = SlotAt(k)'
            PROVE  k + 1 \in 0 .. len - 1 /\ i = SlotAt(k + 1)
        BY <1>1, <2>1, <3>2, <4>3, CapacityAssumption
           DEF IndInv, TypeOK, PopPrimary, Slots, SlotAt
      <4>. QED BY <4>1, <4>2, <4>3 DEF IndInv, SlotsInitialised
    <3>. QED BY <3>1, <3>2
  <2>. QED BY <2>2, <2>3, <2>4 DEF IndInv, SlotsInitialised
<1>3. CASE deferred # Uninit
  <2>1. len = Capacity /\ tail = head
    BY <1>3 DEF IndInv, SlotsInitialised, DeferredOnlyWhenFull, IsFull
  <2>2. /\ buf' = [buf EXCEPT ![head] = deferred] /\ len' = len
        /\ tail' = head' /\ deferred' = Uninit
    BY <1>3, <2>1 DEF IndInv, TypeOK, PopPrimary
  <2>3. TypeOK' /\ DeferredOnlyWhenFull'
    BY <1>1, <2>2, CapacityAssumption
       DEF IndInv, TypeOK, DeferredOnlyWhenFull, PopPrimary, Slots
  <2>4. ASSUME NEW i \in Slots
        PROVE  buf'[i] # Uninit /\ \E k \in 0 .. len' - 1 : i = SlotAt(k)'
    <3>1. buf[i] # Uninit
      <4>1. PICK k \in Slots : i = SlotAt(k)
        BY SlotReached DEF IndInv, TypeOK, SlotAt
      <4>. QED BY <2>1, <4>1 DEF IndInv, SlotsInitialised, Slots
    <3>2. buf'[i] # Uninit
      BY <1>3, <2>2, <3>1 DEF IndInv, TypeOK
    <3>3. PICK k \in Slots : i = IF head' + k < Capacity THEN head' + k
                                   ELSE head' + k - Capacity
      BY <2>3, SlotReached DEF TypeOK
    <3>. QED BY <2>1, <2>2, <3>2, <3>3 DEF Slots, SlotAt
  <2>5. SlotsInitialised'
    BY <2>1, <2>2, <2>4, CapacityAssumption DEF SlotsInitialised
  <2>. QED BY <2>3, <2>5 DEF IndInv
<1>. QED BY <1>2, <1>3

\* A pop from an empty ring finds the deferred slot empty as well.
LEMMA PopDeferredInv ==
    ASSUME IndInv, PopDeferred
    PROVE  IndInv'
BY DEF IndInv, TypeOK, SlotsInitialised, DeferredOnlyWhenFull, SlotAt, IsFull,
       PopDeferred, ring

\* Every operation keeps the invariant.
THEOREM IndInvHolds == Spec => []IndInv
<1>1. Init => IndInv
  BY InitInv
<1>2. IndInv /\ [Next]_vars => IndInv'
  <2>1. ASSUME IndInv, Next PROVE IndInv'
    BY <2>1, PushPrimaryInv, PushDeferredInv, PopPrimaryInv, PopDeferredInv DEF Next
  <2>2. ASSUME IndInv, UNCHANGED vars PROVE IndInv'
    BY <2>2 DEF vars, IndInv, TypeOK, SlotsInitialised, DeferredOnlyWhenFull,
                SlotAt, IsFull
  <2>. QED BY <2>1, <2>2
<1>. QED BY <1>1, <1>2, PTL DEF Spec

\* For every capacity, the unsafe reads and writes of TaskRing touch only slots
\* in the right state.
THEOREM RingSound == Spec => []SlotsInitialised
<1>1. IndInv => SlotsInitialised
  BY DEF IndInv
<1>. QED BY <1>1, IndInvHolds, PTL

\* For every capacity, the deferred slot is taken only while the ring is full, so that
\* a deferred value is always the youngest one.
THEOREM DeferredYoungest == Spec => []DeferredOnlyWhenFull
<1>1. IndInv => DeferredOnlyWhenFull
  BY DEF IndInv
<1>. QED BY <1>1, IndInvHolds, PTL

-----------------------------------------------------------------------------
(* TaskQueue implements BoundedFifo. *)

\* The values in the ring, oldest first.
RingSeq == [k \in 1 .. len |-> buf[SlotAt(k - 1)]]

\* What the queue holds.
ContentsFacts ==
    /\ len \in Nat
    /\ RingSeq \in Seq(Values) /\ Len(RingSeq) = len
    /\ \A k \in 1 .. len : RingSeq[k] = buf[SlotAt(k - 1)]
    /\ deferred = Uninit => Contents = RingSeq
    /\ deferred # Uninit => deferred \in Values /\ Contents = Append(RingSeq, deferred)

\* The ring holds values only, and the queue is the ring and the deferred value.
LEMMA ContentsLemma == IndInv => ContentsFacts
<1>. SUFFICES ASSUME IndInv PROVE ContentsFacts
  OBVIOUS
<1>1. ASSUME NEW k \in 1 .. len PROVE buf[SlotAt(k - 1)] \in Values
  <2>1. SlotAt(k - 1) \in Slots /\ k - 1 \in 0 .. len - 1
    BY CapacityAssumption DEF IndInv, TypeOK, Slots, SlotAt
  <2>. QED BY <2>1 DEF IndInv, TypeOK, SlotsInitialised
<1>2. len \in Nat
  BY CapacityAssumption DEF IndInv, TypeOK
<1>3. /\ RingSeq \in Seq(Values) /\ Len(RingSeq) = len
      /\ \A k \in 1 .. len : RingSeq[k] = buf[SlotAt(k - 1)]
  BY <1>1, <1>2 DEF RingSeq
<1>4. Contents = RingSeq \o (IF deferred = Uninit THEN << >> ELSE <<deferred>>)
  BY DEF Contents, RingSeq
<1>5. CASE deferred = Uninit
  BY <1>2, <1>3, <1>4, <1>5 DEF ContentsFacts
<1>6. CASE deferred # Uninit
  <2>1. deferred \in Values
    BY <1>6 DEF IndInv, TypeOK
  <2>. QED BY <1>2, <1>3, <1>4, <1>6, <2>1 DEF ContentsFacts
<1>. QED BY <1>5, <1>6

\* The same in the next state.
LEMMA ContentsLemmaNext == IndInv' => ContentsFacts'
BY ContentsLemma, PTL

\* Sequences of the same length with the same elements are equal.
LEMMA SeqEqual ==
    ASSUME NEW s \in Seq(Values), NEW u \in Seq(Values), Len(s) = Len(u),
           \A k \in 1 .. Len(s) : s[k] = u[k]
    PROVE  s = u
OBVIOUS

\* A push into the ring appends.
LEMMA PushPrimaryAppends ==
    ASSUME IndInv, IndInv', NEW v \in Values, PushPrimary(v)
    PROVE  /\ Contents \in Seq(Values) /\ Len(Contents) <= Capacity
           /\ Contents' = Append(Contents, v)
<1>1. deferred = Uninit /\ deferred' = Uninit
  BY DEF IndInv, DeferredOnlyWhenFull, PushPrimary
<1>2. Contents = RingSeq /\ Contents' = RingSeq'
  BY <1>1, ContentsLemma, ContentsLemmaNext DEF ContentsFacts
<1>3. /\ RingSeq \in Seq(Values) /\ Len(RingSeq) = len
      /\ RingSeq' \in Seq(Values) /\ Len(RingSeq') = len + 1
      /\ len \in 0 .. Capacity - 1
  BY ContentsLemma, ContentsLemmaNext, CapacityAssumption
     DEF ContentsFacts, PushPrimary, IndInv, TypeOK, IsFull
<1>4. /\ Append(RingSeq, v) \in Seq(Values) /\ Len(Append(RingSeq, v)) = len + 1
      /\ \A k \in 1 .. len : Append(RingSeq, v)[k] = RingSeq[k]
      /\ Append(RingSeq, v)[len + 1] = v
  BY <1>3
<1>5. ASSUME NEW k \in 1 .. len + 1
      PROVE  RingSeq'[k] = Append(RingSeq, v)[k]
  <2>1. RingSeq'[k] = buf'[SlotAt(k - 1)]
    BY ContentsLemmaNext DEF ContentsFacts, PushPrimary, SlotAt
  <2>2. CASE k = len + 1
    <3>1. SlotAt(k - 1) = tail
      BY <1>3, <2>2, CapacityAssumption DEF IndInv, SlotsInitialised, SlotAt
    <3>. QED BY <1>4, <2>1, <2>2, <3>1 DEF IndInv, TypeOK, PushPrimary
  <2>3. CASE k \in 1 .. len
    <3>1. SlotAt(k - 1) # tail
      BY <1>3, <2>3, CapacityAssumption DEF IndInv, TypeOK, SlotsInitialised, Slots, SlotAt
    <3>2. SlotAt(k - 1) \in Slots
      BY <1>3, <2>3, CapacityAssumption DEF IndInv, TypeOK, Slots, SlotAt
    <3>3. buf'[SlotAt(k - 1)] = buf[SlotAt(k - 1)]
      BY <3>1, <3>2 DEF IndInv, TypeOK, PushPrimary
    <3>. QED BY <1>4, <2>1, <2>3, <3>3, ContentsLemma DEF ContentsFacts
  <2>. QED BY <1>3, <2>2, <2>3
<1>6. RingSeq' = Append(RingSeq, v)
  BY <1>3, <1>4, <1>5, SeqEqual
<1>7. len <= Capacity
  BY <1>3, CapacityAssumption
<1>. QED BY <1>2, <1>3, <1>6, <1>7

\* A deferred push appends too.
LEMMA PushDeferredAppends ==
    ASSUME IndInv, IndInv', NEW v \in Values, PushDeferred(v)
    PROVE  /\ Contents \in Seq(Values) /\ Len(Contents) <= Capacity
           /\ Contents' = Append(Contents, v)
<1>1. deferred = Uninit /\ deferred' = v /\ deferred' # Uninit
  BY ValuesAssumption DEF PushDeferred
<1>2. Contents = RingSeq /\ Contents' = Append(RingSeq', v)
  BY <1>1, ContentsLemma, ContentsLemmaNext DEF ContentsFacts
<1>3. RingSeq' = RingSeq
  BY DEF RingSeq, SlotAt, PushDeferred, ring
<1>4. RingSeq \in Seq(Values) /\ Len(RingSeq) = Capacity
  BY ContentsLemma DEF ContentsFacts, PushDeferred, IsFull
<1>. QED BY <1>2, <1>3, <1>4, CapacityAssumption

\* A rejected push leaves a queue that holds Capacity + 1 values.
LEMMA PushRejectedFull ==
    ASSUME IndInv, NEW v \in Values, PushRejected(v)
    PROVE  Contents' = Contents /\ Len(Contents) = Capacity + 1
<1>1. Contents' = Contents
  BY DEF Contents, SlotAt, PushRejected
<1>2. Contents = Append(RingSeq, deferred) /\ RingSeq \in Seq(Values)
      /\ Len(RingSeq) = Capacity /\ deferred \in Values
  BY ContentsLemma DEF ContentsFacts, PushRejected, IsFull
<1>. QED BY <1>1, <1>2

\* A pop returns the oldest value and keeps the rest in order.
LEMMA PopPrimaryTakesHead ==
    ASSUME IndInv, IndInv', PopPrimary
    PROVE  /\ Contents \in Seq(Values) /\ Contents # << >>
           /\ Contents' = Tail(Contents) /\ buf[head] = Head(Contents)
<1>1. head' = IF head + 1 = Capacity THEN 0 ELSE head + 1
  BY SuccWraps DEF IndInv, TypeOK, PopPrimary
<1>2. /\ len \in 1 .. Capacity /\ RingSeq \in Seq(Values) /\ Len(RingSeq) = len
      /\ \A k \in 1 .. len : RingSeq[k] = buf[SlotAt(k - 1)]
  BY ContentsLemma, CapacityAssumption DEF ContentsFacts, PopPrimary, IndInv, TypeOK
<1>3. RingSeq[1] = buf[head]
  <2>1. SlotAt(1 - 1) = head
    BY CapacityAssumption DEF IndInv, TypeOK, Slots, SlotAt
  <2>. QED BY <1>2, <2>1
<1>4. /\ deferred' = Uninit /\ Contents' = RingSeq'
      /\ RingSeq' \in Seq(Values) /\ Len(RingSeq') = len'
      /\ \A k \in 1 .. len' : RingSeq'[k] = buf'[SlotAt(k - 1)']
  <2>1. deferred' = Uninit
    BY DEF PopPrimary
  <2>. QED BY <2>1, ContentsLemmaNext DEF ContentsFacts
<1>5. ASSUME NEW k \in 1 .. len - 1
      PROVE  SlotAt(k - 1)' = SlotAt(k) /\ SlotAt(k) # head /\ SlotAt(k) \in Slots
  BY <1>1, <1>2, CapacityAssumption DEF IndInv, TypeOK, Slots, SlotAt
<1>6. CASE deferred = Uninit
  <2>1. Contents = RingSeq
    BY <1>6, ContentsLemma DEF ContentsFacts
  <2>2. buf' = [buf EXCEPT ![head] = Uninit] /\ len' = len - 1
    BY <1>6 DEF PopPrimary
  <2>3. /\ Tail(RingSeq) \in Seq(Values) /\ Len(Tail(RingSeq)) = len - 1
        /\ \A k \in 1 .. len - 1 : Tail(RingSeq)[k] = RingSeq[k + 1]
    BY <1>2
  <2>4. ASSUME NEW k \in 1 .. len - 1 PROVE RingSeq'[k] = Tail(RingSeq)[k]
    <3>1. RingSeq'[k] = buf'[SlotAt(k)]
      BY <1>4, <1>5, <2>2
    <3>2. buf'[SlotAt(k)] = buf[SlotAt(k)]
      BY <1>5, <2>2 DEF IndInv, TypeOK
    <3>3. RingSeq[k + 1] = buf[SlotAt(k)]
      BY <1>2
    <3>. QED BY <2>3, <3>1, <3>2, <3>3
  <2>5. RingSeq' = Tail(RingSeq)
    BY <1>4, <2>2, <2>3, <2>4, SeqEqual
  <2>. QED BY <1>2, <1>3, <1>4, <2>1, <2>5
<1>7. CASE deferred # Uninit
  <2>1. Contents = Append(RingSeq, deferred) /\ deferred \in Values
    BY <1>7, ContentsLemma DEF ContentsFacts
  <2>2. len = Capacity /\ tail = head
    BY <1>7 DEF IndInv, SlotsInitialised, DeferredOnlyWhenFull, IsFull
  <2>3. buf' = [buf EXCEPT ![head] = deferred] /\ len' = len
    BY <1>7, <2>2 DEF IndInv, TypeOK, PopPrimary
  <2>. DEFINE rest == Tail(Append(RingSeq, deferred))
  <2>4. /\ rest \in Seq(Values) /\ Len(rest) = len
        /\ \A k \in 1 .. len - 1 : rest[k] = RingSeq[k + 1]
        /\ rest[len] = deferred
    BY <1>2, <2>1
  <2>5. ASSUME NEW k \in 1 .. len PROVE RingSeq'[k] = rest[k]
    <3>1. CASE k \in 1 .. len - 1
      <4>1. RingSeq'[k] = buf'[SlotAt(k)]
        BY <1>4, <1>5, <2>3, <3>1
      <4>2. buf'[SlotAt(k)] = buf[SlotAt(k)]
        BY <1>5, <2>3, <3>1 DEF IndInv, TypeOK
      <4>3. RingSeq[k + 1] = buf[SlotAt(k)]
        BY <1>2, <3>1
      <4>. QED BY <2>4, <3>1, <4>1, <4>2, <4>3
    <3>2. CASE k = len
      <4>1. SlotAt(k - 1)' = head
        BY <1>1, <2>2, <3>2, CapacityAssumption DEF IndInv, TypeOK, Slots, SlotAt
      <4>. QED BY <1>4, <2>3, <2>4, <3>2, <4>1 DEF IndInv, TypeOK
    <3>. QED BY <1>2, <3>1, <3>2
  <2>. HIDE DEF rest
  <2>6. RingSeq' = rest
    BY <1>4, <2>3, <2>4, <2>5, SeqEqual
  <2>7. Contents' = Tail(Contents)
    BY <1>4, <2>1, <2>6 DEF rest
  <2>8. Contents \in Seq(Values) /\ Contents # << >> /\ Head(Contents) = RingSeq[1]
    BY <1>2, <2>1
  <2>. QED BY <1>3, <2>7, <2>8
<1>. QED BY <1>6, <1>7

\* A pop from an empty ring is a pop from an empty queue.
LEMMA PopDeferredEmpty ==
    ASSUME IndInv, PopDeferred
    PROVE  Contents = << >> /\ Contents' = << >> /\ ret' = <<"none">>
<1>1. deferred = Uninit
  BY CapacityAssumption DEF IndInv, DeferredOnlyWhenFull, IsFull, PopDeferred
<1>2. Contents = RingSeq /\ RingSeq \in Seq(Values) /\ Len(RingSeq) = 0
  BY <1>1, ContentsLemma DEF ContentsFacts, PopDeferred
<1>3. Contents' = Contents
  BY <1>1 DEF Contents, SlotAt, PopDeferred, ring
<1>. QED BY <1>1, <1>2, <1>3 DEF PopDeferred

\* For every capacity and every sequence of operations, TaskQueue<T> behaves as a
\* FIFO queue of one more than the ring's capacity.
THEOREM Refinement == Spec => ImplementsFifo
<1>1. Init => Fifo!Init
  BY CapacityAssumption DEF Init, Fifo!Init, Contents
<1>2. IndInv /\ IndInv' /\ [Next]_vars => [Fifo!Next]_<<Contents, ret>>
  <2>. SUFFICES ASSUME IndInv, IndInv', [Next]_vars
                PROVE  [Fifo!Next]_<<Contents, ret>>
    OBVIOUS
  <2>1. ASSUME NEW v \in Values, PushPrimary(v) \/ PushDeferred(v)
        PROVE  Fifo!Push(v)
    <3>1. /\ Contents \in Seq(Values) /\ Len(Contents) <= Capacity
          /\ Contents' = Append(Contents, v)
      BY <2>1, PushPrimaryAppends, PushDeferredAppends
    <3>2. ret' = <<"ok">>
      BY <2>1 DEF PushPrimary, PushDeferred
    <3>. QED BY <3>1, <3>2, CapacityAssumption DEF Fifo!Push
  <2>2. ASSUME NEW v \in Values, PushRejected(v)
        PROVE  Fifo!Reject(v)
    BY <2>2, PushRejectedFull DEF Fifo!Reject, PushRejected
  <2>3. ASSUME PopPrimary PROVE Fifo!Pop
    BY <2>3, PopPrimaryTakesHead DEF Fifo!Pop, PopPrimary
  <2>4. ASSUME PopDeferred PROVE Fifo!PopEmpty
    BY <2>4, PopDeferredEmpty DEF Fifo!PopEmpty
  <2>5. CASE UNCHANGED vars
    BY <2>5 DEF vars, Contents, SlotAt
  <2>. QED BY <2>1, <2>2, <2>3, <2>4, <2>5 DEF Next, Fifo!Next
<1>. QED BY <1>1, <1>2, IndInvHolds, PTL DEF Spec, ImplementsFifo, Fifo!Spec

=============================================================================
