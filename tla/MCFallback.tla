----------------------------- MODULE MCFallback -----------------------------
(* Four tasks, lanes with a ring of one slot and room for two samples in     *)
(* "dispatched": lanes defer and reservations fail within a few steps.       *)
EXTENDS Fallback
=============================================================================
