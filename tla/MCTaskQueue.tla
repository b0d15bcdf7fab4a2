---------------------------- MODULE MCTaskQueue ----------------------------
(* A ring of three slots and three values: every wraparound position, with and *)
(* without a deferred value.                                                   *)
EXTENDS TaskQueue
=============================================================================
