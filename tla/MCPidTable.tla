----------------------------- MODULE MCPidTable -----------------------------
(* Four PIDs for a table of three slots; three of them collide in the last   *)
(* slot, so that probes wrap around, overlap and fill the table.             *)
EXTENDS Watchlist

MCPids == 1 .. 4
MCHash == <<2, 2, 0, 2>>
=============================================================================
