---------------------------- MODULE MCHeartbeat ----------------------------
(* TLC instance of Heartbeat: two clients whose heartbeats just come in    *)
(* time, and a check out of step with them.                                *)
EXTENDS Heartbeat
===========================================================================
