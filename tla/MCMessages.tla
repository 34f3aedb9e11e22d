----------------------------- MODULE MCMessages -----------------------------
(***************************************************************************)
(* Small instances of the two message libraries.  They share no state: a   *)
(* behaviour is one of Wire (Go) or one of PyLibrary (Python).             *)
(***************************************************************************)
EXTENDS MCWire, MCPyLibrary

VARIABLE library

MCInit ==
    /\ library \in {"Go", "Python"}
    /\ Init /\ (library = "Python" => sent = <<Stamped(Heartbeat)>>)
    /\ LibraryInit /\ (library = "Go" => uses = "tags")

MCNext ==
    /\ UNCHANGED library
    /\ \/ library = "Go" /\ Next /\ UNCHANGED libraryVars
       \/ library = "Python" /\ LibraryNext /\ UNCHANGED vars

MCSpec == MCInit /\ [][MCNext]_<<library, vars, libraryVars>>
=============================================================================
