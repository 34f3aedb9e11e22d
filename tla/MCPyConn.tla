------------------------------ MODULE MCPyConn ------------------------------
(***************************************************************************)
(* Small instances of PyConn.                                              *)
(***************************************************************************)
EXTENDS PyConn

MCModes == {"initiator", "acceptor"}
=============================================================================
