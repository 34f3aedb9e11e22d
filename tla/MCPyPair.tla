------------------------------ MODULE MCPyPair ------------------------------
(* Small instances of PyPair.                                              *)
EXTENDS PyPair
=============================================================================
