----------------------------- MODULE BoundedFifo -----------------------------
(***************************************************************************)
(* What TaskQueue<T> (task_queue.rs) promises: a first-in first-out queue  *)
(* that accepts a value while it holds fewer than Bound and hands every    *)
(* value it rejects back to the caller.                                    *)
(***************************************************************************)
EXTENDS Naturals, Sequences

CONSTANTS Values, Bound

VARIABLES q,    \* the queued values, oldest first
          ret   \* what the last operation returned

Init == q = << >> /\ ret = <<"init">>

Push(v) ==
    /\ Len(q) < Bound
    /\ q' = Append(q, v)
    /\ ret' = <<"ok">>

Reject(v) ==
    /\ Len(q) = Bound
    /\ ret' = <<"err", v>>
    /\ UNCHANGED q

Pop ==
    /\ q # << >>
    /\ q' = Tail(q)
    /\ ret' = <<"some", Head(q)>>

PopEmpty ==
    /\ q = << >>
    /\ ret' = <<"none">>
    /\ UNCHANGED q

Next == (\E v \in Values : Push(v) \/ Reject(v)) \/ Pop \/ PopEmpty

Spec == Init /\ [][Next]_<<q, ret>>
=============================================================================
