------------------------------ MODULE MCPyPeer ------------------------------
(* A small instance of PyPeer: every kind of message and of flaw.          *)
EXTENDS PyPeer

MCConfigs == {<<"initiator", FALSE>>, <<"initiator", TRUE>>, <<"acceptor", FALSE>>}

Num(type, n) == [fixmsg(type) EXCEPT !.seq = n]

MCInputs ==
    {Num("App", n) : n \in {Bad, 1, 2, 3}}
        \cup {[Num("App", 1) EXCEPT !.poss = TRUE], Num("Logout", 2), Num("Reject", 2),
              Num("Logon", 1), [Num("Logon", 1) EXCEPT !.reset = TRUE],
              [Num("Logon", 1) EXCEPT !.ours = FALSE],
              Num("TestRequest", 2), [Num("TestRequest", 1) EXCEPT !.id = 1],
              Num("Heartbeat", 1), [Num("Heartbeat", 2) EXCEPT !.id = 1],
              [Num("SequenceReset", 9) EXCEPT !.fill = TRUE, !.new = 3],
              [Num("SequenceReset", 1) EXCEPT !.new = 3],
              [Num("SequenceReset", 2) EXCEPT !.new = 2],
              [Num("ResendRequest", 2) EXCEPT !.begin = 1, !.end = 0],
              [Num("ResendRequest", 1) EXCEPT !.begin = 2, !.end = 1],
              Num("OtherAdmin", 2), Num("OtherApp", 1)}

MCFollowers == {Num("App", 2)}

(* A Logon, new messages, and a duplicate of the first.                    *)
MCDuplicates ==
    {Num("Logon", 1), [Num("App", 1) EXCEPT !.poss = TRUE]} \cup {Num("App", n) : n \in 1 .. 3}
=============================================================================
