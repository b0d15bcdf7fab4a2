------------------------------ MODULE TaskQueue ------------------------------
(***************************************************************************)
(* task_queue.rs: TaskQueue<T>, a ring of MaybeUninit slots (TaskRing) with *)
(* one deferred slot that absorbs a single saturation event.  A slot whose  *)
(* value has been moved out is Uninit again: reading it, or overwriting one *)
(* that is not Uninit, would duplicate or leak a task.                      *)
(***************************************************************************)
EXTENDS Integers, Sequences

CONSTANTS
    Values,     \* the values of type T
    Capacity,   \* capacity of the primary ring
    Uninit      \* a MaybeUninit slot without a value, and deferred = None

ASSUME CapacityAssumption == Capacity \in Nat \ {0}
ASSUME ValuesAssumption == Uninit \notin Values

VARIABLES
    buf, head, tail, len,   \* TaskRing
    deferred,               \* Option<T>: Uninit is None
    ret                     \* what the last operation returned

ring == <<buf, head, tail, len>>
vars == <<buf, head, tail, len, deferred, ret>>

Slots == 0 .. Capacity - 1

TypeOK ==
    /\ buf \in [Slots -> Values \cup {Uninit}]
    /\ head \in Slots /\ tail \in Slots
    /\ len \in 0 .. Capacity
    /\ deferred \in Values \cup {Uninit}

\* with_capacity
Init ==
    /\ buf = [i \in Slots |-> Uninit]
    /\ head = 0 /\ tail = 0 /\ len = 0
    /\ deferred = Uninit
    /\ ret = <<"init">>

\* Mutant: an off-by-one in the wraparound.
SuccShort(i) == IF i + 2 < Capacity THEN i + 1 ELSE 0

Succ(i) == (i + 1) % Capacity

\* TaskRing::is_full
IsFull == len = Capacity

\* TaskQueue::push_back into the primary ring (TaskRing::push_back).
PushPrimary(v) ==
    /\ ~IsFull
    /\ buf' = [buf EXCEPT ![tail] = v]
    /\ tail' = Succ(tail)
    /\ len' = len + 1
    /\ ret' = <<"ok">>
    /\ UNCHANGED <<head, deferred>>

\* Mutant: a full queue replaces the deferred value.
PushReplaced(v) ==
    /\ IsFull
    /\ deferred' = v
    /\ ret' = <<"ok">>
    /\ UNCHANGED ring

\* The ring is full: the value goes to the deferred slot.
PushDeferred(v) ==
    /\ IsFull /\ deferred = Uninit
    /\ deferred' = v
    /\ ret' = <<"ok">>
    /\ UNCHANGED ring

\* The deferred slot is taken too: the value is handed back.
PushRejected(v) ==
    /\ IsFull /\ deferred # Uninit
    /\ ret' = <<"err", v>>
    /\ UNCHANGED <<buf, head, tail, len, deferred>>

\* Mutant: the deferred slot is not refilled after a pop.
PopNoRefill ==
    /\ len > 0
    /\ ret' = <<"some", buf[head]>>
    /\ head' = Succ(head)
    /\ buf' = [buf EXCEPT ![head] = Uninit]
    /\ len' = len - 1
    /\ UNCHANGED <<tail, deferred>>

\* TaskQueue::pop_front: TaskRing::pop_front, then refill_from_deferred, which
\* finds room in the ring because a slot has just been released.
PopPrimary ==
    /\ len > 0
    /\ ret' = <<"some", buf[head]>>
    /\ head' = Succ(head)
    /\ IF deferred = Uninit
         THEN /\ buf' = [buf EXCEPT ![head] = Uninit]
              /\ len' = len - 1
              /\ UNCHANGED <<tail, deferred>>
         ELSE /\ buf' = [[buf EXCEPT ![head] = Uninit] EXCEPT ![tail] = deferred]
              /\ tail' = Succ(tail)
              /\ deferred' = Uninit
              /\ UNCHANGED len

\* pop_front with an empty ring: deferred.take().
PopDeferred ==
    /\ len = 0
    /\ ret' = IF deferred = Uninit THEN <<"none">> ELSE <<"some", deferred>>
    /\ deferred' = Uninit
    /\ UNCHANGED ring

Next ==
    \/ \E v \in Values : PushPrimary(v) \/ PushDeferred(v) \/ PushRejected(v)
    \/ PopPrimary \/ PopDeferred

Spec == Init /\ [][Next]_vars

-----------------------------------------------------------------------------
\* The slot that holds the k-th oldest value, counting from 0.
SlotAt(k) == IF head + k < Capacity THEN head + k ELSE head + k - Capacity

\* The slots that hold a value are exactly the len slots from head on, ending
\* before tail: no operation reads a slot without a value or overwrites one that
\* has a value, although the code checks neither (unsafe assume_init_read, write).
SlotsInitialised ==
    /\ \A i \in Slots : buf[i] # Uninit <=> \E k \in 0 .. len - 1 : i = SlotAt(k)
    /\ len < Capacity => tail = SlotAt(len)
    /\ len = Capacity => tail = head

\* The deferred slot is used only while the ring is full, so that the value in it
\* is always the youngest one and refill_from_deferred keeps the order.
DeferredOnlyWhenFull == deferred # Uninit => IsFull

IndInv == TypeOK /\ SlotsInitialised /\ DeferredOnlyWhenFull

-----------------------------------------------------------------------------
\* The queue as a sequence: the ring from head to tail, then the deferred value.
Contents ==
    [k \in 1 .. len |-> buf[SlotAt(k - 1)]]
        \o (IF deferred = Uninit THEN << >> ELSE <<deferred>>)

Fifo == INSTANCE BoundedFifo WITH Bound <- Capacity + 1, q <- Contents

\* TaskQueue<T> is a FIFO queue of capacity() = ring capacity + 1: across
\* wraparound and deferral no value is lost, duplicated or reordered.
ImplementsFifo == Fifo!Spec
=============================================================================
