---------------------------- MODULE MCSeqManager ----------------------------
(* Small instance of SeqManager: the scheduler's and the Logon handler's   *)
(* reset to 1, the SequenceReset handler's n - 1 for an unparsable n.      *)
EXTENDS SeqManager, TLC

CONSTANTS c1, c2

MCCallers   == {c1, c2}
MCSetValues == {-1, 1}
Symmetry    == Permutations(MCCallers)
=============================================================================
