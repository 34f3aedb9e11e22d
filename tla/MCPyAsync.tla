------------------------------ MODULE MCPyAsync ------------------------------
(* A small instance of PyAsync: two tasks of the application beside the    *)
(* receive task and the heartbeat.                                         *)
EXTENDS PyAsync

CONSTANTS a1, a2

MCApps == {a1, a2}
=============================================================================
