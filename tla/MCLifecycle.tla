---------------------------- MODULE MCLifecycle ----------------------------
(* One service; a panic is answered by exec(), which may succeed or fail.   *)
EXTENDS Lifecycle
=============================================================================
