------------------------------ MODULE MCDaemon ------------------------------
(* Daemon for TLC: a ping monitor with two targets, a speed test that may  *)
(* hang, the summary reporter and the pong server.                         *)
EXTENDS Daemon

MCLoopsOf ==
    [r \in Monitors |-> IF r = "ping_monitor" THEN {"t1", "t2"} ELSE {r}]

=============================================================================
