---------------------------- MODULE MCAccounting ----------------------------
(* Three lives of one PID: a task, its successor and one that meets what      *)
(* either left behind.  Every run burns its whole slice, the observation that *)
(* lowers a score most.                                                       *)
EXTENDS Accounting
=============================================================================
