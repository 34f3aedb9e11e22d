-------------------------- MODULE MCEngineLifecycle --------------------------
(* Small instances of EngineLifecycle: one or two goroutines that call     *)
(* Connect and Close, and enough connections for a session to die, be      *)
(* replaced by the reconnect loop and die again.                           *)
EXTENDS EngineLifecycle, TLC

CONSTANTS app, admin

MCUsers == {app}
MCTwoUsers == {app, admin}
=============================================================================
