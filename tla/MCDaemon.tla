------------------------------ MODULE MCDaemon ------------------------------
(* Two clients of one bot, a queue of one frame, one rotation.              *)
EXTENDS Daemon

CONSTANTS c1, c2, f1
=============================================================================
