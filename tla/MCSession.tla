------------------------------ MODULE MCSession ------------------------------
(* Small instance of Session: a sender and the handlers of the readLoop    *)
(* share a channel of one slot, and two goroutines call Stop.              *)
EXTENDS Session, TLC

CONSTANTS s1, d1, d2

MCSenders  == {s1}
MCStoppers == {d1, d2}
=============================================================================
