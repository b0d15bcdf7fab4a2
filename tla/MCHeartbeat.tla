---------------------------- MODULE MCHeartbeat ----------------------------
(* The guard of four heartbeats; ages are told apart up to the heartbeat    *)
(* after the one at which it fires.                                         *)
EXTENDS Heartbeat
=============================================================================
