----------------------------- MODULE MCOutbound -----------------------------
(* A small instance of Outbound: one sender beside the readLoop.           *)
EXTENDS Outbound, TLC

CONSTANT s1

MCOne == {s1}
=============================================================================
