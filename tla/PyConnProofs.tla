---------------------------- MODULE PyConnProofs ----------------------------
(* Proofs about the connection tasks of a Python engine, for any number of  *)
(* connections, retries and calls.                                          *)
EXTENDS PyConn, TLAPS

(* What holds of an engine v wherever a task lets go of it.  The heartbeat   *)
(* of a session that ended is about to be stopped, unless it was started for *)
(* a session whose Logon could not be sent; and it waits for a writer only   *)
(* with the network stopped. *)
Sane(v) ==
    /\ v \in System
    /\ mode = "initiator" /\ HbRunning(v) /\ v.st = "DISCONNECTED" => v.stop \/ unsent
    /\ v.hb = "net" => mode = "initiator" /\ v.stop /\ ~v.running
    /\ v.server => mode = "acceptor"

(* An initiator has no clients, an acceptor never dials. *)
Places ==
    IF mode = "initiator"
      THEN /\ pc[Main] \in {"idle", "opening", "sleeping", "reading", "net", "fin", "lastnet"}
           /\ \A k \in Conns : pc[k] = "idle"
           /\ \A t \in {App, Hb} : pc[t] \in {"idle", "net", "fin"}
      ELSE /\ pc[Main] \in {"idle", "serving"}
           /\ \A k \in Conns : pc[k] \in {"idle", "reading", "fin", "closing", "done"}
           /\ \A t \in {App, Hb} : pc[t] \in {"idle", "fin"}

(* An attempt to connect starts with no heartbeat left over. *)
Fresh == pc[Main] \in {"opening", "sleeping"} => ~unsent

IInv == TypeOK /\ Sane(w) /\ Places /\ Fresh

(* Where an engine has a connection it is the one reader and writer name. *)
Held(v) == v.open = {} \/ (v.open = {v.writer} /\ v.reader = v.writer /\ v.running)

-----------------------------------------------------------------------------
(* The tasks are different from one another. *)
LEMMA Names ==
    /\ Main \in Tasks /\ App \in Tasks /\ Hb \in Tasks /\ Conns \subseteq Tasks
    /\ Tasks = {Main, App, Hb} \cup Conns
    /\ Main \notin Conns /\ App \notin Conns /\ Hb \notin Conns
    /\ Main # App /\ Main # Hb /\ App # Hb
    /\ NoConn \notin Conns
BY PyConnAssumption DEF PyConnAssumption, Main, App, Hb, Conns, Tasks, NoConn

(* The states an event leads to. *)
LEMMA EventFacts ==
    ASSUME NEW s \in States, NEW e
    PROVE  /\ OnEvent(s, e) \in States
           /\ e \in Drops => OnEvent(s, e) = "DISCONNECTED"
           /\ OnEvent(s, e) = "ACTIVE" =>
                \/ s = "ACTIVE"
                \/ s = "LOGON_IN_PROGRESS" /\ e = "logon_successful"
                \/ s = "AWAITING_LOGON" /\ e = "logon_received_valid"
           /\ s = "ACTIVE" /\ e = "logout_initiated" => OnEvent(s, e) = "LOGOUT_IN_PROGRESS"
BY DEF OnEvent, States, Drops, Disconnected, Connecting, LogonInProgress, AwaitingLogon, Active,
   LogoutInProgress, Reconnecting

-----------------------------------------------------------------------------
(* What the parts of disconnect and the events do to an engine.             *)

(* y is v after an event: the same connection in another state. *)
SameLink(v, y) ==
    /\ y.reader = v.reader /\ y.writer = v.writer /\ y.open = v.open
    /\ y.running = v.running /\ y.server = v.server

LEMMA FireFacts ==
    ASSUME NEW v \in System, NEW e
    PROVE  /\ Fire(v, e) \in System
           /\ SameLink(v, Fire(v, e))
           /\ Fire(v, e).st = OnEvent(v.st, e)
           /\ Fire(v, e).hb = v.hb
           /\ v.stop => Fire(v, e).stop
           /\ Fire(v, e).st = "DISCONNECTED" /\ HbRunning(v) => Fire(v, e).stop \/ v.st = "DISCONNECTED"
<1> DEFINE s == OnEvent(v.st, e)
<1>1. v.st \in States /\ s \in States
  BY EventFacts DEF System
<1> HIDE DEF s
<1>2. CASE s = v.st
  BY <1>1, <1>2 DEF Fire, s, SameLink
<1>3. CASE s # v.st /\ s = "ACTIVE"
  <2>1. Fire(v, e) = [v EXCEPT !.st = s, !.attempts = 0]
    BY <1>3 DEF Fire, s
  <2>2. 0 \in 0 .. MaxRetries
    BY PyConnAssumption DEF PyConnAssumption
  <2> QED BY <1>1, <1>3, <2>1, <2>2 DEF System, SameLink, s
<1>4. CASE s # v.st /\ s = "DISCONNECTED"
  <2>1. Fire(v, e) = [v EXCEPT !.st = s, !.stop = v.stop \/ HbRunning(v)]
    BY <1>4 DEF Fire, s
  <2>2. v.stop \/ HbRunning(v) \in BOOLEAN
    BY DEF HbRunning, System
  <2> QED BY <1>1, <1>4, <2>1, <2>2 DEF System, SameLink, s
<1>5. CASE s # v.st /\ s # "ACTIVE" /\ s # "DISCONNECTED"
  <2>1. Fire(v, e) = [v EXCEPT !.st = s]
    BY <1>5 DEF Fire, s
  <2> QED BY <1>1, <1>5, <2>1 DEF System, SameLink, s
<1> QED BY <1>2, <1>3, <1>4, <1>5

LEMMA FireSane ==
    ASSUME NEW v, Sane(v), NEW e
    PROVE  Sane(Fire(v, e))
BY FireFacts DEF Sane, SameLink, HbRunning

LEMMA LeaveFacts ==
    ASSUME NEW v, Sane(v), NEW graceful \in BOOLEAN
    PROVE  /\ Sane(Leave(v, graceful))
           /\ SameLink(v, Leave(v, graceful))
           /\ Leave(v, graceful).st # "ACTIVE"
<1>1. v \in System /\ v.st \in States
  BY DEF Sane, System
<1>2. CASE graceful /\ v.st = "ACTIVE"
  <2>1. Leave(v, graceful) = Fire(v, "logout_initiated")
    BY <1>2 DEF Leave
  <2>2. OnEvent(v.st, "logout_initiated") = "LOGOUT_IN_PROGRESS"
    BY <1>1, <1>2, EventFacts
  <2>3. /\ SameLink(v, Fire(v, "logout_initiated"))
        /\ Fire(v, "logout_initiated").st = OnEvent(v.st, "logout_initiated")
    BY <1>1, FireFacts
  <2> QED BY <2>1, <2>2, <2>3, FireSane
<1>3. CASE ~(graceful /\ v.st = "ACTIVE")
  <2>1. Leave(v, graceful) = Fire(v, "disconnect")
    BY <1>3 DEF Leave
  <2>2. "disconnect" \in Drops
    BY DEF Drops
  <2> QED BY <1>1, <2>1, <2>2, FireSane, FireFacts, EventFacts
<1> QED BY <1>2, <1>3

LEMMA FinishFacts ==
    ASSUME NEW v, Sane(v)
    PROVE  Sane(Finish(v)) /\ SameLink(v, Finish(v)) /\ Finish(v).st = "DISCONNECTED"
<1> DEFINE y == [v EXCEPT !.attempts = 0]
<1>1. Sane(y) /\ SameLink(v, y) /\ y \in System /\ y.st \in States
  BY PyConnAssumption DEF PyConnAssumption, Sane, System, SameLink, HbRunning
<1>2. Finish(v) = Fire(y, "force_disconnect") /\ "force_disconnect" \in Drops
  BY DEF Finish, Drops
<1> HIDE DEF y
<1> QED BY <1>1, <1>2, FireSane, FireFacts, EventFacts DEF SameLink

(* The network after the first part of its disconnect, and after all of it. *)
LEMMA NetStopFacts ==
    ASSUME NEW v, Sane(v)
    PROVE  /\ Sane(NetStop(v))
           /\ NetStop(v).st = v.st /\ NetStop(v).hb = v.hb /\ ~NetStop(v).running
           /\ NetStop(v).stop = v.stop
           /\ NetStop(v).reader = v.reader /\ NetStop(v).writer = v.writer
           /\ NetStop(v).open = IF mode = "acceptor" THEN v.open ELSE v.open \ {v.writer}
           /\ mode = "acceptor" => ~NetStop(v).server
<1>1. CASE mode = "acceptor"
  <2>1. NetStop(v) = [v EXCEPT !.running = FALSE, !.server = FALSE]
    BY <1>1 DEF NetStop
  <2> QED BY <1>1, <2>1 DEF Sane, System, HbRunning
<1>2. CASE mode # "acceptor"
  <2>1. NetStop(v) = [v EXCEPT !.running = FALSE, !.open = v.open \ {v.writer}]
    BY <1>2 DEF NetStop, Sane, System
  <2> QED BY <1>2, <2>1 DEF Sane, System, HbRunning
<1> QED BY <1>1, <1>2

LEMMA NetForgetFacts ==
    ASSUME NEW v, Sane(v)
    PROVE  /\ Sane(NetForget(v))
           /\ NetForget(v).st = v.st /\ NetForget(v).running = v.running
           /\ NetForget(v).hb = v.hb /\ NetForget(v).stop = v.stop
           /\ NetForget(v).open = v.open /\ NetForget(v).server = v.server
           /\ mode = "acceptor" => NetForget(v) = v
<1>1. CASE mode = "acceptor"
  BY <1>1 DEF NetForget
<1>2. CASE mode # "acceptor"
  <2>1. NetForget(v) = [v EXCEPT !.writer = NoConn, !.reader = NoConn]
    BY <1>2 DEF NetForget
  <2> QED BY <1>2, <2>1 DEF Sane, System, HbRunning
<1> QED BY <1>1, <1>2

LEMMA HbStopFacts ==
    ASSUME NEW v, Sane(v)
    PROVE  /\ Sane(HbStop(v))
           /\ HbStop(v).st = v.st /\ HbStop(v).running = v.running
           /\ HbStop(v).reader = v.reader
           /\ HbStop(v).open = v.open /\ HbStop(v).server = v.server
           /\ HbStop(v).hb = "off"
           /\ HbStop(v).writer # v.writer => mode = "initiator" /\ ~v.running
<1>1. CASE v.hb = "run"
  <2>1. HbStop(v) = [v EXCEPT !.hb = "off"]
    BY <1>1 DEF HbStop
  <2> QED BY <1>1, <2>1 DEF Sane, System, HbRunning
<1>2. CASE v.hb = "net"
  <2>1. HbStop(v) = [v EXCEPT !.hb = "off", !.writer = NoConn]
    BY <1>2 DEF HbStop
  <2> QED BY <1>2, <2>1 DEF Sane, System, HbRunning
<1>3. CASE v.hb \notin {"run", "net"}
  <2>1. HbStop(v) = v
    BY <1>3 DEF HbStop
  <2> QED BY <1>3, <2>1 DEF Sane, System
<1> QED BY <1>1, <1>2, <1>3

LEMMA HbStartFacts ==
    ASSUME NEW v, Sane(v), v.st # "DISCONNECTED" \/ mode # "initiator"
    PROVE  Sane(HbStart(v)) /\ SameLink(v, HbStart(v)) /\ HbStart(v).st = v.st
<1>1. CASE HbRunning(v)
  BY <1>1 DEF HbStart, SameLink
<1>2. CASE ~HbRunning(v)
  <2>1. HbStart(v) = [v EXCEPT !.hb = "run"]
    BY <1>2 DEF HbStart
  <2> QED BY <1>2, <2>1 DEF Sane, System, HbRunning, SameLink
<1> QED BY <1>1, <1>2

(* A send over a lost connection. *)
LEMMA SendLostFacts ==
    ASSUME NEW v, Sane(v)
    PROVE  /\ Sane(SendLost(v))
           /\ SendLost(v).st = "DISCONNECTED" /\ ~SendLost(v).running
           /\ SendLost(v).open = v.open \ {v.writer}
           /\ mode = "acceptor" => SendLost(v).writer = v.writer /\ SendLost(v).reader = v.reader
<1> DEFINE x == [v EXCEPT !.open = v.open \ {v.writer}]
           y == NetForget(NetStop(x))
<1>1. /\ Sane(x) /\ x.open = v.open \ {v.writer}
      /\ x.writer = v.writer /\ x.reader = v.reader
  BY DEF Sane, System, HbRunning
<1>2. SendLost(v) = Fire(y, "disconnect")
  BY DEF SendLost, Sane, System
<1> HIDE DEF x
<1>3. /\ Sane(NetStop(x)) /\ ~NetStop(x).running /\ NetStop(x).open = v.open \ {v.writer}
      /\ NetStop(x).writer = v.writer /\ NetStop(x).reader = v.reader
  BY <1>1, NetStopFacts
<1>4. /\ Sane(y) /\ ~y.running /\ y.open = v.open \ {v.writer}
      /\ mode = "acceptor" => y.writer = v.writer /\ y.reader = v.reader
  BY <1>3, NetForgetFacts
<1>5. y \in System /\ y.st \in States /\ "disconnect" \in Drops
  BY <1>4 DEF Sane, System, Drops
<1> HIDE DEF y
<1> QED BY <1>2, <1>4, <1>5, FireSane, FireFacts, EventFacts DEF SameLink

(* v comes from the engine: on the same connection, or on one that a send   *)
(* found lost. *)
After(v) ==
    \/ SameLink(w, v)
    \/ /\ v.open = w.open \ {w.writer} /\ ~v.running /\ v.st # "ACTIVE"
       /\ mode = "acceptor" => v.writer = w.writer /\ v.reader = w.reader

LEMMA SendsFacts ==
    ASSUME NEW v, Sane(v), SameLink(w, v), NEW sent \in BOOLEAN
    PROVE  /\ Sane(Sends(v, sent)) /\ After(Sends(v, sent))
           /\ Sends(v, sent).st = v.st \/ Sends(v, sent).st = "DISCONNECTED"
<1>1. CASE sent
  BY <1>1 DEF Sends, After
<1>2. CASE ~sent
  <2>1. Sends(v, sent) = SendLost(v)
    BY <1>2 DEF Sends
  <2> QED BY <2>1, SendLostFacts DEF After, SameLink
<1> QED BY <1>1, <1>2

-----------------------------------------------------------------------------
(* Where a task goes next.                                                  *)
Stages == {"idle", "opening", "sleeping", "serving", "reading",
           "net", "fin", "lastnet", "closing", "done"}

(* The tasks that receive: start, or the handlers of the clients. *)
Receives(t) == IF mode = "initiator" THEN t = Main ELSE t \in Conns

Stops(t) ==
    IF Receives(t)
      THEN IF mode = "initiator" THEN {"idle", "reading", "net", "fin", "lastnet"}
           ELSE {"reading", "fin", "closing", "done"}
      ELSE IF mode = "initiator" THEN {"idle", "net", "fin"} ELSE {"idle", "fin"}

(* Task t took a step and nobody else did. *)
Took(t) ==
    /\ Sane(w')
    /\ pc' \in [Tasks -> Stages] /\ at' \in [Tasks -> {NoConn} \cup Conns]
    /\ pc'[t] \in Stops(t)
    /\ \A o \in Tasks \ {t} : pc'[o] = pc[o] /\ at'[o] = at[o]

(* What an initiator has after it, when it went on with v: nothing open, or *)
(* the connection it waits on. *)
Attends(v) ==
    Held(v) =>
        /\ Held(w')
        /\ w'.open # {} => pc'[Main] = "reading" /\ at'[Main] = w'.writer
        /\ w' = v \/ ~w'.running

(* What the handler of a client does to the connections: it goes on and     *)
(* leaves them alone, or it closes its own with the network down. *)
Serves(t, v) ==
    /\ w'.writer = v.writer /\ w'.reader = v.reader
    /\ \/ pc'[t] \in {"reading", "fin"} /\ w'.open = v.open
       \/ /\ pc'[t] \in {"closing", "done"} /\ w'.open = v.open \ {t} /\ ~w'.running
          /\ pc'[t] = "done" => w'.st # "ACTIVE"
    /\ pc'[t] = "reading" => at'[t] = v.reader

Outcome(t, v) ==
    /\ Took(t)
    /\ ~v.running => ~w'.running
    /\ w'.st = v.st \/ w'.st # "ACTIVE"
    /\ mode = "initiator" => Attends(v)
    /\ mode = "acceptor" => Serves(t, v)

LEMMA GoesFacts ==
    ASSUME TypeOK, NEW t \in Tasks, NEW y, NEW p \in Stages, Goes(t, y, p)
    PROVE  /\ w' = y /\ pc'[t] = p /\ pc' \in [Tasks -> Stages]
           /\ \A o \in Tasks \ {t} : pc'[o] = pc[o]
BY DEF TypeOK, Goes, Stages

LEMMA EndsFacts ==
    ASSUME TypeOK, NEW t \in Tasks, Receives(t), NEW v, Sane(v), ~v.running, Ends(t, v)
    PROVE  Outcome(t, v)
<1> USE Names
<1>1. at' = at /\ at \in [Tasks -> {NoConn} \cup Conns]
  BY DEF Ends, TypeOK
<1>2. CASE t = Main
  <2>1. Goes(t, v, "idle") /\ mode = "initiator"
    BY <1>2 DEF Ends, Receives
  <2>2. w' = v /\ pc'[t] = "idle" /\ pc' \in [Tasks -> Stages]
        /\ \A o \in Tasks \ {t} : pc'[o] = pc[o]
    BY <2>1, GoesFacts DEF Stages
  <2> QED BY <1>1, <2>1, <2>2 DEF Outcome, Took, Stops, Receives, Attends, Held
<1>3. CASE t # Main /\ t \in v.open
  <2> DEFINE y == [v EXCEPT !.open = v.open \ {t}]
  <2>1. Goes(t, y, "closing")
    BY <1>3 DEF Ends, Sane, System
  <2>2. w' = y /\ pc'[t] = "closing" /\ pc' \in [Tasks -> Stages]
        /\ \A o \in Tasks \ {t} : pc'[o] = pc[o]
    BY <2>1, GoesFacts DEF Stages
  <2>3. Sane(y) /\ y.open = v.open \ {t} /\ y.writer = v.writer /\ y.reader = v.reader
        /\ y.running = v.running /\ y.st = v.st
    BY DEF Sane, System, HbRunning
  <2>4. mode # "initiator" /\ t \in Conns
    BY <1>3 DEF Receives
  <2> HIDE DEF y
  <2> QED BY <1>1, <2>2, <2>3, <2>4 DEF Outcome, Took, Stops, Receives, Serves
<1>4. CASE t # Main /\ t \notin v.open
  <2> DEFINE x == Fire(v, "disconnect")
             y == [x EXCEPT !.open = x.open \ {t}]
  <2>1. Sane(x) /\ SameLink(v, x) /\ x.st # "ACTIVE"
    <3>1. v \in System /\ v.st \in States /\ "disconnect" \in Drops
      BY DEF Sane, System, Drops
    <3> QED BY <3>1, FireSane, FireFacts, EventFacts
  <2>2. Returned(t, x)
    BY <1>4 DEF Ends
  <2> HIDE DEF x
  <2>3. Goes(t, y, "done")
    BY <2>1, <2>2 DEF Returned, Sane, System
  <2>4. /\ Sane(y) /\ y.open = v.open \ {t} /\ y.running = v.running /\ y.st # "ACTIVE"
        /\ y.writer = v.writer /\ y.reader = v.reader
    BY <2>1 DEF Sane, System, HbRunning, SameLink
  <2> HIDE DEF y
  <2>5. w' = y /\ pc'[t] = "done" /\ pc' \in [Tasks -> Stages]
        /\ \A o \in Tasks \ {t} : pc'[o] = pc[o]
    BY <2>3, GoesFacts DEF Stages
  <2>6. mode # "initiator" /\ t \in Conns
    BY <1>4 DEF Receives
  <2> QED BY <1>1, <2>4, <2>5, <2>6 DEF Outcome, Took, Stops, Receives, Serves
<1> QED BY <1>2, <1>3, <1>4

(* The parts of a step that only stop or forget the network. *)
LEMMA BreaksFacts ==
    ASSUME TypeOK, NEW t \in Tasks, Receives(t), NEW v, Sane(v), Breaks(t, v)
    PROVE  Outcome(t, v)
<1> USE Names
<1>1. CASE ~v.running
  BY <1>1, EndsFacts DEF Breaks
<1>2. CASE v.running /\ NetWaits(v)
  <2>1. mode = "initiator" /\ v.writer \in v.open
    BY <1>2 DEF NetWaits
  <2>2. Goes(t, NetStop(v), "lastnet") /\ UNCHANGED at
    BY <1>2 DEF Breaks
  <2>3. w' = NetStop(v) /\ pc'[t] = "lastnet" /\ pc' \in [Tasks -> Stages]
        /\ \A o \in Tasks \ {t} : pc'[o] = pc[o]
    BY <2>2, GoesFacts DEF Stages
  <2>4. Sane(w') /\ ~w'.running /\ w'.open = v.open \ {v.writer} /\ w'.st = v.st
    BY <2>1, <2>3, NetStopFacts
  <2>5. at' = at /\ at \in [Tasks -> {NoConn} \cup Conns]
    BY <2>2 DEF TypeOK
  <2>6. Attends(v)
    BY <2>1, <2>4 DEF Attends, Held
  <2> QED BY <2>1, <2>3, <2>4, <2>5, <2>6 DEF Outcome, Took, Stops
<1>3. CASE v.running /\ ~NetWaits(v)
  <2> DEFINE y == NetForget(NetStop(v))
  <2>1. Ends(t, y)
    BY <1>3 DEF Breaks
  <2>2. Sane(NetStop(v)) /\ ~NetStop(v).running
    BY NetStopFacts
  <2>3. Sane(y) /\ ~y.running
    BY <2>2, NetForgetFacts
  <2>4. /\ mode = "initiator" => y.open = v.open \ {v.writer}
        /\ y.st = v.st
        /\ mode = "acceptor" => y.open = v.open /\ y.writer = v.writer /\ y.reader = v.reader
    BY <2>2, NetStopFacts, NetForgetFacts
  <2> HIDE DEF y
  <2>5. Outcome(t, y)
    BY <2>1, <2>3, EndsFacts
  <2>6. mode = "initiator" => Attends(v)
    <3> SUFFICES ASSUME mode = "initiator", Held(v) PROVE Attends(v)
      BY DEF Attends
    <3>1. v.open = {}
      BY <1>3 DEF NetWaits, Held
    <3>2. Held(y) /\ ~y.running
      BY <2>3, <2>4, <3>1 DEF Held
    <3> QED BY <2>5, <3>2 DEF Outcome, Attends
  <2>7. mode = "acceptor" => Serves(t, v)
    BY <2>4, <2>5 DEF Outcome, Serves
  <2> QED BY <2>3, <2>4, <2>5, <2>6, <2>7 DEF Outcome
<1> QED BY <1>1, <1>2, <1>3

LEMMA LoopsFacts ==
    ASSUME TypeOK, NEW t \in Tasks, Receives(t), NEW v, Sane(v), Loops(t, v)
    PROVE  Outcome(t, v)
<1> USE Names
<1> DEFINE taken == v.reader = NoConn
                      \/ \E o \in Tasks \ {t} : pc[o] = "reading" /\ at[o] = v.reader
<1>1. CASE ~v.running
  BY <1>1, EndsFacts DEF Loops
<1>2. CASE v.running /\ taken
  BY <1>2, BreaksFacts DEF Loops
<1>3. CASE v.running /\ ~taken
  <2>1. Goes(t, v, "reading") /\ at' = [at EXCEPT ![t] = v.reader]
    BY <1>3 DEF Loops
  <2>2. w' = v /\ pc'[t] = "reading" /\ pc' \in [Tasks -> Stages]
        /\ \A o \in Tasks \ {t} : pc'[o] = pc[o]
    BY <2>1, GoesFacts DEF Stages
  <2>3. v.reader \in {NoConn} \cup Conns /\ at \in [Tasks -> {NoConn} \cup Conns]
    BY DEF Sane, System, TypeOK
  <2>4. /\ at' \in [Tasks -> {NoConn} \cup Conns] /\ at'[t] = v.reader
        /\ \A o \in Tasks \ {t} : at'[o] = at[o]
    BY <2>1, <2>3
  <2>5. Took(t)
    BY <2>2, <2>4 DEF Took, Stops
  <2>6. mode = "initiator" => Attends(v)
    BY <2>2, <2>4 DEF Receives, Attends, Held
  <2>7. mode = "acceptor" => Serves(t, v)
    BY <2>2, <2>4 DEF Serves
  <2> QED BY <2>2, <2>5, <2>6, <2>7 DEF Outcome
<1> QED BY <1>1, <1>2, <1>3

(* A call of disconnect stops the network and ends the session. *)
Left(t, v) ==
    /\ Took(t)
    /\ ~w'.running /\ w'.st # "ACTIVE"
    /\ mode = "initiator" /\ Held(v) => w'.open = {}
    /\ mode = "acceptor" =>
         /\ t \in Conns => Serves(t, v)
         /\ t \notin Conns => w'.open = v.open /\ w'.writer = v.writer /\ w'.reader = v.reader

LEMMA CallsFacts ==
    ASSUME TypeOK, NEW t \in Tasks, Receives(t) \/ t \in {App, Hb}, NEW v, Sane(v),
           NEW graceful \in BOOLEAN, Calls(t, v, graceful)
    PROVE  Left(t, v)
<1> USE Names
<1> DEFINE left == Leave(v, graceful)
<1>1. CASE Over(v)
  <2>1. v.st = "DISCONNECTED" /\ ~v.running /\ Returns(t, v)
    BY <1>1 DEF Over, Calls
  <2>2. CASE t \in {App, Hb}
    <3>1. Goes(t, v, "idle") /\ at' = at /\ at \in [Tasks -> {NoConn} \cup Conns]
      BY <2>1, <2>2 DEF Returns, TypeOK
    <3>2. w' = v /\ pc'[t] = "idle" /\ pc' \in [Tasks -> Stages]
          /\ \A o \in Tasks \ {t} : pc'[o] = pc[o]
      BY <3>1, GoesFacts DEF Stages
    <3>3. t # Main /\ t \notin Conns
      BY <2>2
    <3> QED BY <2>1, <3>1, <3>2, <3>3 DEF Left, Took, Stops, Receives, Held
  <2>3. CASE t \notin {App, Hb}
    <3>1. Receives(t) /\ Loops(t, v)
      BY <2>1, <2>3 DEF Returns
    <3>2. Outcome(t, v)
      BY <3>1, LoopsFacts
    <3>3. t \in Conns \/ mode # "acceptor"
      BY <3>1 DEF Receives
    <3> QED BY <2>1, <3>2, <3>3 DEF Outcome, Left, Attends, Held
  <2> QED BY <2>2, <2>3
<1>2. Sane(left) /\ SameLink(v, left) /\ left.st # "ACTIVE"
  BY LeaveFacts
<1> HIDE DEF left
<1>3. CASE ~Over(v) /\ NetWaits(left)
  <2>1. Goes(t, NetStop(left), "net") /\ UNCHANGED at
    BY <1>3 DEF Calls, left
  <2>2. mode = "initiator" /\ at \in [Tasks -> {NoConn} \cup Conns]
    BY <1>3 DEF NetWaits, TypeOK
  <2>3. w' = NetStop(left) /\ pc'[t] = "net" /\ pc' \in [Tasks -> Stages]
        /\ \A o \in Tasks \ {t} : pc'[o] = pc[o]
    BY <2>1, GoesFacts DEF Stages
  <2>4. Sane(w') /\ ~w'.running /\ w'.open = left.open \ {left.writer} /\ w'.st = left.st
    BY <1>2, <2>2, <2>3, NetStopFacts
  <2> QED BY <1>2, <2>1, <2>2, <2>3, <2>4 DEF Left, Took, Stops, Held, SameLink
<1>4. CASE ~Over(v) /\ ~NetWaits(left)
  <2> DEFINE stopped == NetStop(left)
             y == HbStop(NetForget(stopped))
  <2>1. Goes(t, y, "fin") /\ UNCHANGED at
    BY <1>4 DEF Calls, left
  <2>2. at \in [Tasks -> {NoConn} \cup Conns]
    BY DEF TypeOK
  <2>3. w' = y /\ pc'[t] = "fin" /\ pc' \in [Tasks -> Stages]
        /\ \A o \in Tasks \ {t} : pc'[o] = pc[o]
    BY <2>1, GoesFacts DEF Stages
  <2>4. /\ Sane(stopped) /\ ~stopped.running /\ stopped.st = left.st
        /\ stopped.reader = left.reader /\ stopped.writer = left.writer
        /\ stopped.open = IF mode = "acceptor" THEN left.open ELSE left.open \ {left.writer}
    BY <1>2, NetStopFacts
  <2> HIDE DEF stopped
  <2>5. /\ Sane(NetForget(stopped)) /\ ~NetForget(stopped).running
        /\ NetForget(stopped).st = left.st /\ NetForget(stopped).open = stopped.open
        /\ mode = "acceptor" => NetForget(stopped) = stopped
    BY <2>4, NetForgetFacts
  <2>6. /\ Sane(y) /\ ~y.running /\ y.st = left.st /\ y.open = stopped.open
        /\ mode = "acceptor" => y.writer = left.writer /\ y.reader = left.reader
    BY <2>4, <2>5, HbStopFacts
  <2> HIDE DEF y
  <2>7. Took(t)
    BY <2>1, <2>2, <2>3, <2>6 DEF Took, Stops
  <2>8. mode = "initiator" /\ Held(v) => w'.open = {}
    BY <1>2, <1>4, <2>3, <2>4, <2>6 DEF NetWaits, Held, SameLink
  <2>9. mode = "acceptor" =>
          /\ Serves(t, v)
          /\ w'.open = v.open /\ w'.writer = v.writer /\ w'.reader = v.reader
    BY <1>2, <2>3, <2>4, <2>6 DEF Serves, SameLink
  <2> QED BY <1>2, <2>3, <2>6, <2>7, <2>8, <2>9 DEF Left
<1> QED BY <1>1, <1>3, <1>4

-----------------------------------------------------------------------------
(* The invariant of an initiator: until a disconnect crosses a connection    *)
(* that is being opened, start waits on the one connection that is open, and *)
(* an ACTIVE session was logged on over it. *)
InitiatorInv ==
    mode = "initiator" /\ ~crossed =>
        /\ Held(w)
        /\ w.open # {} => pc[Main] = "reading" /\ at[Main] = w.writer
        /\ w.st = "ACTIVE" /\ w.running => w.writer = owner /\ owner \in w.open

(* The invariant of an acceptor: only clients whose handler receives are      *)
(* open; until a second one comes beside it, reader and writer are its own;   *)
(* and the client an ACTIVE session was logged on over is open, until its     *)
(* handler closes it with the network down. *)
Served(k) == pc[k] \in {"reading", "fin"}
Gone(k)   == pc[k] \in {"idle", "done"}

AcceptorInv ==
    mode = "acceptor" =>
        /\ \A k \in Conns : k \in w.open => Served(k)
        /\ \A k \in Conns : k > made => pc[k] = "idle"
        /\ ~overlap => \A k \in Conns : ~Gone(k) =>
              k = w.writer /\ k = w.reader /\ (pc[k] = "reading" => at[k] = k)
        /\ Sound /\ w.st = "ACTIVE" =>
              /\ owner \in Conns
              /\ owner \in w.open \/ (pc[owner] = "closing" /\ ~w.running)

CInv == IInv /\ InitiatorInv /\ AcceptorInv

LEMMA Mode == ASSUME TypeOK PROVE mode \in {"initiator", "acceptor"}
BY PyConnAssumption DEF PyConnAssumption, TypeOK

(* The variables beside the engine and its tasks. *)
Others ==
    /\ peer \subseteq Conns
    /\ made \in 0 .. MaxConns /\ starts \in 0 .. MaxStarts /\ calls \in 0 .. MaxCalls
    /\ owner \in {NoConn} \cup Conns
    /\ overlap \in BOOLEAN /\ crossed \in BOOLEAN /\ unsent \in BOOLEAN

LEMMA SaneStays == ASSUME Sane(w'), UNCHANGED <<mode, unsent>> PROVE Sane(w)'
BY DEF Sane, HbRunning, System, Conns

(* A step that moves no task, or start alone. *)
LEMMA MainKeeps ==
    ASSUME IInv, Sane(w)', UNCHANGED <<mode, at>>, Others', Fresh',
           pc' = pc \/ (\E p \in Stages :
              /\ pc' = [pc EXCEPT ![Main] = p]
              /\ p \in IF mode = "initiator"
                        THEN {"idle", "opening", "sleeping", "reading", "net", "fin", "lastnet"}
                        ELSE {"idle", "serving"})
    PROVE  IInv'
<1> USE Names
<1>1. TypeOK'
  BY DEF IInv, TypeOK, Sane, Others, Stages
<1>3. Places'
  <2>1. CASE pc' = pc
    BY <2>1 DEF IInv, Places
  <2>2. CASE pc' # pc
    BY <2>2 DEF IInv, TypeOK, Places
  <2> QED BY <2>1, <2>2
<1> QED BY <1>1, <1>3 DEF IInv

(* Whatever else happens, a step of another task keeps the places. *)
LEMMA TookKeeps ==
    ASSUME IInv, NEW t \in Tasks, Receives(t) \/ t \in {App, Hb}, Took(t),
           UNCHANGED <<mode, unsent>>, Others'
    PROVE  IInv'
<1>1. TypeOK'
  <2>1. w' \in System /\ pc' \in [Tasks -> Stages] /\ at' \in [Tasks -> {NoConn} \cup Conns]
    BY DEF Took, Sane
  <2>2. mode' \in Modes
    BY DEF IInv, TypeOK
  <2> QED BY <2>1, <2>2 DEF TypeOK, Stages, Others
<1>2. Sane(w)'
  BY SaneStays DEF Took
<1>3. Places'
  <2>1. mode = "initiator" \/ mode = "acceptor"
    BY Mode DEF IInv
  <2>2. /\ pc'[t] \in Stops(t)
        /\ \A o \in Tasks \ {t} : pc'[o] = pc[o]
    BY DEF Took
  <2> USE Names
  <2>3. CASE mode = "initiator"
    <3>1. pc'[Main] \in {"idle", "opening", "sleeping", "reading", "net", "fin", "lastnet"}
      <4>1. CASE t = Main
        BY <2>2, <2>3, <4>1 DEF Stops, Receives
      <4>2. CASE t # Main
        BY <2>2, <2>3, <4>2 DEF IInv, Places
      <4> QED BY <4>1, <4>2
    <3>2. ASSUME NEW k \in Conns PROVE pc'[k] = "idle"
      BY <2>2, <2>3 DEF IInv, Places, Receives
    <3>3. ASSUME NEW o \in {App, Hb} PROVE pc'[o] \in {"idle", "net", "fin"}
      <4>1. CASE t = o
        BY <2>2, <2>3, <4>1 DEF Stops, Receives
      <4>2. CASE t # o
        BY <2>2, <2>3, <4>2 DEF IInv, Places
      <4> QED BY <4>1, <4>2
    <3> QED BY <2>3, <3>1, <3>2, <3>3 DEF Places
  <2>4. CASE mode = "acceptor"
    <3>1. pc'[Main] \in {"idle", "serving"}
      BY <2>2, <2>4 DEF IInv, Places, Receives
    <3>2. ASSUME NEW k \in Conns PROVE pc'[k] \in {"idle", "reading", "fin", "closing", "done"}
      <4>1. CASE t = k
        BY <2>2, <2>4, <4>1 DEF Stops, Receives
      <4>2. CASE t # k
        BY <2>2, <2>4, <4>2 DEF IInv, Places
      <4> QED BY <4>1, <4>2
    <3>3. ASSUME NEW o \in {App, Hb} PROVE pc'[o] \in {"idle", "fin"}
      <4>1. CASE t = o
        BY <2>2, <2>4, <4>1 DEF Stops, Receives
      <4>2. CASE t # o
        BY <2>2, <2>4, <4>2 DEF IInv, Places
      <4> QED BY <4>1, <4>2
    <3> QED BY <2>4, <3>1, <3>2, <3>3 DEF Places
  <2> QED BY <2>1, <2>3, <2>4
<1>4. Fresh'
  <2>1. pc'[t] \in Stops(t) /\ \A o \in Tasks \ {t} : pc'[o] = pc[o]
    BY DEF Took
  <2>2. Stops(t) \cap {"opening", "sleeping"} = {}
    BY DEF Stops
  <2> QED BY <2>1, <2>2, Names DEF IInv, Fresh
<1> QED BY <1>1, <1>2, <1>3, <1>4 DEF IInv

(* A step of a client's handler, seen by the other clients. *)
LEMMA HandlerKeeps ==
    ASSUME IInv, AcceptorInv, mode = "acceptor", UNCHANGED <<mode, made, overlap>>,
           crossed => crossed',
           NEW t \in Conns, Served(t), NEW v, Took(t), Serves(t, v), After(v),
           w'.running => v.running,
           w'.st = "ACTIVE" => v.st = "ACTIVE",
           v.st = "ACTIVE" /\ Sound' =>
              \/ owner' = t /\ t \in v.open
              \/ w.st = "ACTIVE" /\ owner' = owner
    PROVE  AcceptorInv'
<1>1. /\ w'.writer = w.writer /\ w'.reader = w.reader
      /\ v.open \subseteq w.open
      /\ v.st = "ACTIVE" => v.open = w.open /\ v.running = w.running
  BY DEF Serves, After, SameLink
<1>2. /\ \/ pc'[t] \in {"reading", "fin"} /\ w'.open = v.open
         \/ /\ pc'[t] \in {"closing", "done"} /\ w'.open = v.open \ {t} /\ ~w'.running
            /\ pc'[t] = "done" => w'.st # "ACTIVE"
      /\ pc'[t] = "reading" => at'[t] = w.reader
  BY <1>1 DEF Serves
<1>3. \A o \in Conns \ {t} : pc'[o] = pc[o] /\ at'[o] = at[o]
  BY Names DEF Took
<1>4. \A k \in Conns : k \in w'.open => Served(k)'
  BY <1>1, <1>2, <1>3 DEF AcceptorInv, Served
<1>5. \A k \in Conns : k > made' => pc'[k] = "idle"
  BY <1>3 DEF AcceptorInv, Served
<1>6. ~overlap' => \A k \in Conns : ~Gone(k)' =>
         k = w'.writer /\ k = w'.reader /\ (pc'[k] = "reading" => at'[k] = k)
  BY <1>1, <1>2, <1>3 DEF AcceptorInv, Gone, Served
<1>7. Sound' /\ w'.st = "ACTIVE" =>
         /\ owner' \in Conns
         /\ owner' \in w'.open \/ (pc'[owner'] = "closing" /\ ~w'.running)
  <2> SUFFICES ASSUME Sound', w'.st = "ACTIVE"
               PROVE  /\ owner' \in Conns
                      /\ owner' \in w'.open \/ (pc'[owner'] = "closing" /\ ~w'.running)
    OBVIOUS
  <2>1. CASE owner' = t /\ t \in v.open
    BY <1>2, <2>1
  <2>2. CASE w.st = "ACTIVE" /\ owner' = owner
    <3>1. Sound /\ v.open = w.open /\ v.running = w.running
      BY <1>1 DEF Sound
    <3>2. /\ owner \in Conns
          /\ owner \in w.open \/ (pc[owner] = "closing" /\ ~w.running)
      BY <2>2, <3>1 DEF AcceptorInv
    <3>3. CASE owner = t
      BY <1>2, <2>2, <3>1, <3>2, <3>3 DEF Served
    <3>4. CASE owner # t
      BY <1>2, <1>3, <2>2, <3>1, <3>2, <3>4
    <3> QED BY <3>3, <3>4
  <2> QED BY <2>1, <2>2
<1> QED BY <1>4, <1>5, <1>6, <1>7 DEF AcceptorInv

(* A step that no client's handler takes. *)
LEMMA NoHandlerKeeps ==
    ASSUME IInv, AcceptorInv, mode = "acceptor", UNCHANGED <<mode, made, overlap, owner>>,
           crossed => crossed',
           \A k \in Conns : pc'[k] = pc[k] /\ at'[k] = at[k],
           w'.open \subseteq w.open, w'.writer = w.writer, w'.reader = w.reader,
           w'.st = "ACTIVE" /\ Sound' =>
              /\ w.st = "ACTIVE" /\ w'.open = w.open
              /\ w'.running => w.running \/ ~Closing
    PROVE  AcceptorInv'
<1>1. Sound' => Sound
  BY DEF Sound
<1>2. \A k \in Conns : (Served(k)' <=> Served(k)) /\ (Gone(k)' <=> Gone(k))
  BY DEF Served, Gone
<1>3. Sound' /\ w'.st = "ACTIVE" =>
         /\ owner' \in Conns
         /\ owner' \in w'.open \/ (pc'[owner'] = "closing" /\ ~w'.running)
  BY <1>1, Names DEF AcceptorInv, Closing
<1>4. \A k \in Conns : k \in w'.open => Served(k)'
  BY <1>2 DEF AcceptorInv
<1>5. \A k \in Conns : k > made' => pc'[k] = "idle"
  BY DEF AcceptorInv
<1>6. ~overlap' => \A k \in Conns : ~Gone(k)' =>
         k = w'.writer /\ k = w'.reader /\ (pc'[k] = "reading" => at'[k] = k)
  BY <1>2 DEF AcceptorInv
<1> QED BY <1>3, <1>4, <1>5, <1>6 DEF AcceptorInv

(* Steps of an initiator: it goes on with v, or it has left v. *)
LEMMA AttendsKeeps ==
    ASSUME UNCHANGED mode, NEW v, mode = "initiator" => Attends(v),
           mode = "initiator" /\ ~crossed' =>
             /\ Held(v)
             /\ v.st = "ACTIVE" /\ v.running => v.writer = owner' /\ owner' \in v.open
    PROVE  InitiatorInv'
BY DEF InitiatorInv, Attends, Held

LEMMA EmptyKeeps ==
    ASSUME UNCHANGED mode,
           mode = "initiator" /\ ~crossed' => w'.open = {} /\ ~(w'.st = "ACTIVE" /\ w'.running)
    PROVE  InitiatorInv'
BY DEF InitiatorInv, Held

-----------------------------------------------------------------------------
(* The invariant, action by action.                                         *)
LEMMA InitHolds == Init => CInv
<1> SUFFICES ASSUME Init PROVE CInv
  OBVIOUS
<1> USE Names
<1>1. "DISCONNECTED" \in States /\ 0 \in 0 .. MaxRetries
  BY PyConnAssumption DEF PyConnAssumption, States, Disconnected
<1>2. w \in System /\ w.open = {} /\ ~w.running /\ w.hb = "off" /\ w.st = "DISCONNECTED"
      /\ ~w.server
  BY <1>1 DEF Init, System
<1>3. IInv
  <2>1. TypeOK
    <3>1. 0 \in 0 .. MaxConns /\ 0 \in 0 .. MaxStarts /\ 0 \in 0 .. MaxCalls
      BY PyConnAssumption DEF PyConnAssumption
    <3> QED BY <1>2, <3>1 DEF Init, TypeOK
  <2>2. Sane(w)
    BY <1>2 DEF Sane, HbRunning
  <2>3. Places
    BY DEF Init, Places
  <2>4. Fresh
    BY DEF Init, Fresh
  <2> QED BY <2>1, <2>2, <2>3, <2>4 DEF IInv
<1>4. InitiatorInv
  BY <1>2 DEF InitiatorInv, Held
<1>5. AcceptorInv
  BY <1>2 DEF Init, AcceptorInv, Served, Gone
<1> QED BY <1>3, <1>4, <1>5 DEF CInv

LEMMA WriterClosedKeeps == ASSUME CInv, NEW t \in Tasks, WriterClosed(t) PROVE CInv'
<1> USE Names
<1>1. TypeOK /\ Sane(w) /\ Places /\ IInv /\ InitiatorInv
  BY DEF CInv, IInv
<1>2. mode = "initiator" /\ t \in {Main, App, Hb} /\ UNCHANGED <<mode, unsent>>
  BY <1>1 DEF Places, WriterClosed
<1> DEFINE v == HbStop(NetForget(w))
<1>3. w' = v /\ pc'[t] = "fin" /\ pc' \in [Tasks -> Stages]
      /\ \A o \in Tasks \ {t} : pc'[o] = pc[o]
  BY <1>1, GoesFacts DEF WriterClosed, Stages
<1>4. Sane(v) /\ v.open = w.open /\ v.st = w.st /\ v.running = w.running
  BY <1>1, NetForgetFacts, HbStopFacts
<1> HIDE DEF v
<1>5. at' = at /\ at \in [Tasks -> {NoConn} \cup Conns] /\ Others'
  BY <1>1 DEF WriterClosed, TypeOK, Others, bounds, Crosses
<1>6. IInv'
  BY <1>1, <1>2, <1>3, <1>4, <1>5, TookKeeps DEF Took, Stops, Receives
<1>7. ~crossed' => ~crossed /\ w.writer \notin w.open
  BY DEF WriterClosed, Crosses
<1>8. InitiatorInv'
  BY <1>1, <1>2, <1>3, <1>4, <1>7, EmptyKeeps DEF InitiatorInv, Held
<1> QED BY <1>2, <1>6, <1>8 DEF CInv, AcceptorInv

LEMMA LastClosedKeeps == ASSUME CInv, NEW t \in Tasks, LastClosed(t) PROVE CInv'
<1> USE Names
<1>1. TypeOK /\ Sane(w) /\ Places /\ IInv /\ InitiatorInv
  BY DEF CInv, IInv
<1>2. mode = "initiator" /\ t = Main /\ UNCHANGED <<mode, at, unsent>>
  BY <1>1 DEF Places, LastClosed, Ends
<1>3. w' = NetForget(w) /\ pc' = [pc EXCEPT ![Main] = "idle"]
  BY <1>2 DEF LastClosed, Ends, Goes
<1>4. Sane(w') /\ w'.open = w.open /\ w'.st = w.st /\ w'.running = w.running
  BY <1>1, <1>3, NetForgetFacts
<1>5. Others'
  BY <1>1 DEF LastClosed, TypeOK, Others, bounds, Crosses
<1>6. IInv'
  <2>1. "idle" \in Stages /\ UNCHANGED <<mode, at>>
    BY <1>2 DEF Stages
  <2>2. Sane(w)'
    BY <1>2, <1>4, SaneStays
  <2>3. Fresh'
    BY <1>1, <1>3 DEF Fresh, TypeOK
  <2> QED BY <1>1, <1>2, <1>3, <1>5, <2>1, <2>2, <2>3, MainKeeps
<1>7. ~crossed' => ~crossed /\ w.writer \notin w.open
  BY DEF LastClosed, Crosses
<1>8. InitiatorInv'
  BY <1>1, <1>2, <1>4, <1>7, EmptyKeeps DEF InitiatorInv, Held
<1> QED BY <1>2, <1>6, <1>8 DEF CInv, AcceptorInv

LEMMA ClientClosedKeeps == ASSUME CInv, NEW t \in Tasks, ClientClosed(t) PROVE CInv'
<1> USE Names
<1>1. TypeOK /\ Sane(w) /\ Places /\ IInv /\ AcceptorInv
  BY DEF CInv, IInv
<1>2. mode = "acceptor" /\ t \in Conns
      /\ UNCHANGED <<mode, at, made, overlap, crossed, owner, unsent>>
  BY <1>1, Mode DEF Places, ClientClosed, bounds, history
<1> DEFINE x == Fire(w, "disconnect")
           v == [x EXCEPT !.open = x.open \ {t}]
<1>3. Sane(x) /\ SameLink(w, x) /\ x.st = "DISCONNECTED"
  <2>1. w \in System /\ w.st \in States /\ "disconnect" \in Drops
    BY <1>1 DEF Sane, System, Drops
  <2> QED BY <1>1, <2>1, FireSane, FireFacts, EventFacts
<1>4. Returned(t, x) /\ pc[t] = "closing"
  BY DEF ClientClosed
<1> HIDE DEF x
<1>5. Goes(t, v, "done")
  BY <1>3, <1>4 DEF Returned, Sane, System
<1>6. /\ Sane(v) /\ v.st = "DISCONNECTED" /\ v.open = w.open \ {t}
      /\ v.writer = w.writer /\ v.reader = w.reader
  BY <1>3 DEF Sane, System, HbRunning, SameLink
<1> HIDE DEF v
<1>7. w' = v /\ pc'[t] = "done" /\ pc' \in [Tasks -> Stages]
      /\ \A o \in Tasks \ {t} : pc'[o] = pc[o]
  BY <1>1, <1>5, GoesFacts DEF Stages
<1>8. at \in [Tasks -> {NoConn} \cup Conns] /\ Others'
  BY <1>1 DEF ClientClosed, TypeOK, Others, bounds, history
<1>9. IInv'
  BY <1>1, <1>2, <1>6, <1>7, <1>8, TookKeeps DEF Took, Stops, Receives
<1>10. AcceptorInv'
  <2>1. \A k \in Conns : k \in w'.open => Served(k)'
    BY <1>1, <1>2, <1>6, <1>7 DEF AcceptorInv, Served
  <2>2. \A k \in Conns : k > made' => pc'[k] = "idle"
    BY <1>1, <1>2, <1>4, <1>7 DEF AcceptorInv
  <2>3. ~overlap' => \A k \in Conns : ~Gone(k)' =>
           k = w'.writer /\ k = w'.reader /\ (pc'[k] = "reading" => at'[k] = k)
    BY <1>1, <1>2, <1>6, <1>7 DEF AcceptorInv, Gone
  <2> QED BY <1>6, <1>7, <2>1, <2>2, <2>3 DEF AcceptorInv
<1> QED BY <1>2, <1>9, <1>10 DEF CInv, InitiatorInv

LEMMA FinishesKeeps == ASSUME CInv, NEW t \in Tasks, Finishes(t) PROVE CInv'
<1> USE Names
<1>1. TypeOK /\ Sane(w) /\ Places /\ IInv /\ InitiatorInv /\ AcceptorInv
  BY DEF CInv, IInv
<1>2. mode \in {"initiator", "acceptor"}
      /\ UNCHANGED <<mode, made, overlap, owner, unsent>> /\ pc[t] = "fin"
  BY <1>1, Mode DEF Finishes, bounds
<1> DEFINE v == Finish(w)
<1>3. Sane(v) /\ SameLink(w, v) /\ v.st = "DISCONNECTED"
  BY <1>1, FinishFacts
<1>4. Returns(t, v) /\ (crossed => crossed')
      /\ (~crossed' => ~crossed /\ w.writer \notin w.open)
  BY DEF Finishes, Crosses
<1> HIDE DEF v
<1>5. Others'
  BY <1>1 DEF Finishes, TypeOK, Others, bounds, Crosses
<1>6. mode = "initiator" /\ ~crossed' => w.open = {} /\ Held(v)
  BY <1>1, <1>3, <1>4 DEF InitiatorInv, Held, SameLink
<1>7. CASE t \in {App, Hb}
  <2>1. Goes(t, v, "idle") /\ at' = at /\ at \in [Tasks -> {NoConn} \cup Conns]
    BY <1>1, <1>4, <1>7 DEF Returns, TypeOK
  <2>2. w' = v /\ pc'[t] = "idle" /\ pc' \in [Tasks -> Stages]
        /\ \A o \in Tasks \ {t} : pc'[o] = pc[o]
    BY <1>1, <2>1, GoesFacts DEF Stages
  <2>3. IInv'
    BY <1>1, <1>2, <1>3, <1>5, <1>7, <2>1, <2>2, TookKeeps DEF Took, Stops, Receives
  <2>4. InitiatorInv'
    BY <1>2, <1>3, <1>6, <2>2, EmptyKeeps DEF SameLink
  <2>5. ASSUME mode = "acceptor" PROVE AcceptorInv'
    <3>1. \A k \in Conns : pc'[k] = pc[k] /\ at'[k] = at[k]
      BY <1>7, <2>1, <2>2
    <3> QED BY <1>1, <1>2, <1>3, <1>4, <2>2, <2>5, <3>1, NoHandlerKeeps DEF SameLink
  <2> QED BY <1>2, <2>3, <2>4, <2>5 DEF CInv, AcceptorInv
<1>8. CASE t \notin {App, Hb}
  <2>1. Receives(t)
    BY <1>1, <1>2, <1>8 DEF Places, Receives
  <2>2. Outcome(t, v)
    BY <1>1, <1>3, <1>4, <1>8, <2>1, LoopsFacts DEF Returns
  <2>3. IInv'
    BY <1>1, <1>2, <1>5, <2>1, <2>2, TookKeeps DEF Outcome
  <2>4. InitiatorInv'
    BY <1>2, <1>3, <1>6, <2>2, AttendsKeeps DEF Outcome
  <2>5. ASSUME mode = "acceptor" PROVE AcceptorInv'
    <3>1. t \in Conns /\ Served(t) /\ After(v)
      BY <1>1, <1>2, <1>3, <2>1, <2>5 DEF Receives, Served, After
    <3>2. Took(t) /\ Serves(t, v) /\ (w'.running => v.running) /\ w'.st # "ACTIVE"
      BY <1>3, <2>2, <2>5 DEF Outcome
    <3> QED BY <1>1, <1>2, <1>3, <1>4, <2>5, <3>1, <3>2, HandlerKeeps
  <2> QED BY <1>2, <2>3, <2>4, <2>5 DEF CInv, AcceptorInv
<1> QED BY <1>7, <1>8

(* What start does first. *)
LEMMA BeginsFacts ==
    ASSUME TypeOK, Sane(w), Begins, mode = "initiator" => ~w.running
    PROVE  /\ Sane(w')
           /\ w'.open = w.open /\ w'.writer = w.writer /\ w'.reader = w.reader
           /\ w'.st = "ACTIVE" => w.st = "ACTIVE"
           /\ mode = "initiator" => ~w'.running /\ pc' = [pc EXCEPT ![Main] = "opening"]
           /\ mode = "acceptor" => pc' = [pc EXCEPT ![Main] = "serving"]
<1>1. CASE mode = "acceptor"
  <2> DEFINE y == [w EXCEPT !.server = TRUE, !.running = TRUE]
  <2>1. w' = y /\ pc' = [pc EXCEPT ![Main] = "serving"]
    BY <1>1 DEF Begins, Goes
  <2>2. Sane(y) /\ y.open = w.open /\ y.writer = w.writer /\ y.reader = w.reader /\ y.st = w.st
    BY <1>1 DEF Sane, System, HbRunning
  <2> HIDE DEF y
  <2> QED BY <1>1, <2>1, <2>2
<1>2. CASE mode # "acceptor"
  <2>1. mode = "initiator"
    BY <1>2, Mode
  <2>2. w' = Fire(w, "initiator_connect_attempt") /\ pc' = [pc EXCEPT ![Main] = "opening"]
    BY <1>2 DEF Begins, Goes
  <2>3. w \in System /\ w.st \in States
    BY DEF Sane, System
  <2>4. Sane(w') /\ SameLink(w, w') /\ w'.st = OnEvent(w.st, "initiator_connect_attempt")
    BY <2>2, <2>3, FireSane, FireFacts
  <2>5. w'.st = "ACTIVE" => w.st = "ACTIVE"
    BY <2>3, <2>4, EventFacts
  <2> QED BY <2>1, <2>2, <2>4, <2>5 DEF SameLink
<1> QED BY <1>1, <1>2

LEMMA StartKeeps == ASSUME CInv, Start PROVE CInv'
<1> USE Names
<1>1. TypeOK /\ Sane(w) /\ Places /\ IInv /\ InitiatorInv /\ AcceptorInv
  BY DEF CInv, IInv
<1>2. UNCHANGED <<mode, at, made, overlap, owner>> /\ pc[Main] = "idle" /\ ~w.running
  BY DEF Start
<1>3. /\ Sane(w')
      /\ w'.open = w.open /\ w'.writer = w.writer /\ w'.reader = w.reader
      /\ w'.st = "ACTIVE" => w.st = "ACTIVE"
      /\ mode = "initiator" => ~w'.running /\ pc' = [pc EXCEPT ![Main] = "opening"]
      /\ mode = "acceptor" => pc' = [pc EXCEPT ![Main] = "serving"]
  BY <1>1, <1>2, BeginsFacts DEF Start
<1>4. crossed' = (crossed \/ Closing)
  BY DEF Start
<1>5. Others'
  <2>1. starts' \in 0 .. MaxStarts
    BY <1>1, PyConnAssumption DEF PyConnAssumption, Start, TypeOK
  <2> QED BY <1>1, <2>1 DEF Start, TypeOK, Others
<1>6. IInv'
  <2>1. Fresh'
    BY DEF Start, Fresh
  <2>2. Sane(w)'
    <3>1. mode = "initiator" => w'.st # "DISCONNECTED"
      <4> SUFFICES ASSUME mode = "initiator" PROVE w'.st # "DISCONNECTED"
        OBVIOUS
      <4>1. w \in System /\ w.st \in States /\ w' = Fire(w, "initiator_connect_attempt")
        BY <1>1 DEF Start, Begins, Goes, Sane, System
      <4>2. OnEvent(w.st, "initiator_connect_attempt") # "DISCONNECTED"
        BY <4>1 DEF States, OnEvent, Drops, Disconnected, Connecting, LogonInProgress,
                    AwaitingLogon, Active, LogoutInProgress, Reconnecting
      <4> QED BY <4>1, <4>2, FireFacts
    <3> QED BY <1>2, <1>3, <3>1 DEF Sane, HbRunning, System, Conns
  <2> QED BY <1>1, <1>2, <1>3, <1>5, <2>1, <2>2, Mode, MainKeeps DEF Stages
<1>7. InitiatorInv'
  BY <1>1, <1>2, <1>3, <1>4, EmptyKeeps DEF InitiatorInv
<1>8. ASSUME mode = "acceptor" PROVE AcceptorInv'
  <2>1. \A k \in Conns : pc'[k] = pc[k] /\ at'[k] = at[k]
    BY <1>1, <1>2, <1>3, <1>8 DEF TypeOK
  <2>2. Sound' => ~Closing
    BY <1>4 DEF Sound
  <2> QED BY <1>1, <1>2, <1>3, <1>4, <1>8, <2>1, <2>2, NoHandlerKeeps
<1> QED BY <1>1, <1>2, <1>6, <1>7, <1>8, Mode DEF CInv, AcceptorInv

LEMMA WakesUpKeeps == ASSUME CInv, WakesUp PROVE CInv'
<1> USE Names
<1>1. TypeOK /\ Sane(w) /\ Places /\ IInv /\ InitiatorInv
  BY DEF CInv, IInv
<1>2. UNCHANGED <<mode, at, crossed, unsent>> /\ mode = "initiator"
      /\ pc[Main] = "sleeping" /\ ~w.running
  BY <1>1 DEF WakesUp, history, Places
<1>3. /\ Sane(w') /\ w'.open = w.open
      /\ ~w'.running /\ pc' = [pc EXCEPT ![Main] = "opening"]
  BY <1>1, <1>2, BeginsFacts DEF WakesUp
<1>4. Others'
  BY <1>1 DEF WakesUp, TypeOK, Others, bounds, history
<1>5. IInv'
  <2>1. Sane(w)' /\ Fresh'
    BY <1>1, <1>2, <1>3, SaneStays DEF IInv, Fresh
  <2> QED BY <1>1, <1>2, <1>3, <1>4, <2>1, MainKeeps DEF Stages
<1>6. InitiatorInv'
  BY <1>1, <1>2, <1>3, EmptyKeeps DEF InitiatorInv
<1> QED BY <1>2, <1>5, <1>6 DEF CInv, AcceptorInv

LEMMA ServerClosedKeeps == ASSUME CInv, ServerClosed PROVE CInv'
<1> USE Names
<1>1. TypeOK /\ Sane(w) /\ Places /\ IInv /\ AcceptorInv
  BY DEF CInv, IInv
<1>2. UNCHANGED <<mode, at, made, overlap, owner, crossed, unsent>> /\ mode = "acceptor"
  BY <1>1, Mode DEF ServerClosed, history, bounds, Places
<1> DEFINE y == [w EXCEPT !.running = FALSE]
<1>3. w' = y /\ pc' = [pc EXCEPT ![Main] = "idle"]
  BY DEF ServerClosed, Goes
<1>4. /\ Sane(y) /\ y.open = w.open /\ y.writer = w.writer /\ y.reader = w.reader
      /\ y.st = w.st /\ ~y.running
  BY <1>1 DEF Sane, System, HbRunning
<1> HIDE DEF y
<1>5. Others'
  BY <1>1 DEF ServerClosed, TypeOK, Others, bounds, history
<1>6. IInv'
  <2>1. Sane(w)' /\ Fresh'
    BY <1>1, <1>2, <1>3, <1>4, SaneStays DEF Fresh, TypeOK
  <2> QED BY <1>1, <1>2, <1>3, <1>5, <2>1, MainKeeps DEF Stages
<1>7. AcceptorInv'
  <2>1. \A k \in Conns : pc'[k] = pc[k] /\ at'[k] = at[k]
    BY <1>1, <1>2, <1>3 DEF TypeOK
  <2> QED BY <1>1, <1>2, <1>3, <1>4, <2>1, NoHandlerKeeps
<1> QED BY <1>2, <1>6, <1>7 DEF CInv, InitiatorInv

LEMMA OpenFailsKeeps == ASSUME CInv, OpenFails PROVE CInv'
<1> USE Names
<1>1. TypeOK /\ Sane(w) /\ Places /\ IInv /\ InitiatorInv
  BY DEF CInv, IInv
<1>2. UNCHANGED <<mode, at, crossed, unsent>> /\ mode = "initiator" /\ pc[Main] = "opening"
  BY <1>1 DEF OpenFails, history, Places
<1> DEFINE down == [w EXCEPT !.running = FALSE]
           v == Fire(down, "connection_failed")
<1>3. Sane(down) /\ down.open = w.open /\ ~down.running /\ down \in System
  BY <1>1 DEF Sane, System, HbRunning
<1> HIDE DEF down
<1>4. Sane(v) /\ v.open = w.open /\ ~v.running
  BY <1>3, FireSane, FireFacts DEF SameLink
<1>5. Retry(v)
  BY DEF OpenFails, down
<1> HIDE DEF v
<1>6. Sane(w') /\ w'.open = w.open /\ ~w'.running
      /\ \E p \in {"idle", "sleeping"} : pc' = [pc EXCEPT ![Main] = p]
  <2>0. v \in System
    BY <1>4 DEF Sane
  <2>1. CASE v.st # "ACTIVE" /\ v.attempts < MaxRetries
    <3> DEFINE y == [v EXCEPT !.attempts = v.attempts + 1]
    <3>0. ~(v.attempts >= MaxRetries) /\ y = [v EXCEPT !.attempts = @ + 1]
      BY <2>0, <2>1, PyConnAssumption DEF PyConnAssumption, System
    <3>1. w' = Fire(y, "initiate_reconnect") /\ pc' = [pc EXCEPT ![Main] = "sleeping"]
      <4> HIDE DEF y
      <4>1. Goes(Main, Fire(y, "initiate_reconnect"), "sleeping")
        BY <1>5, <2>1, <3>0 DEF Retry
      <4> QED BY <4>1 DEF Goes
    <3>2. v.attempts \in 0 .. MaxRetries /\ v.attempts + 1 \in 0 .. MaxRetries
      BY <2>0, <2>1, PyConnAssumption DEF PyConnAssumption, System
    <3>3. Sane(y) /\ y.open = w.open /\ ~y.running /\ y \in System
      BY <1>4, <3>2 DEF Sane, System, HbRunning
    <3> HIDE DEF y
    <3> QED BY <3>1, <3>3, FireSane, FireFacts DEF SameLink
  <2>2. CASE v.attempts >= MaxRetries
    <3>1. ~(v.attempts < MaxRetries)
      BY <2>0, <2>2, PyConnAssumption DEF PyConnAssumption, System
    <3>2. w' = Fire(v, "reconnect_failed_max_retries") /\ pc' = [pc EXCEPT ![Main] = "idle"]
      BY <1>5, <2>2, <3>1 DEF Retry, Goes
    <3> QED BY <1>4, <2>0, <3>2, FireSane, FireFacts DEF SameLink
  <2>3. CASE ~(v.st # "ACTIVE" /\ v.attempts < MaxRetries) /\ ~(v.attempts >= MaxRetries)
    <3>1. w' = v /\ pc' = [pc EXCEPT ![Main] = "idle"]
      BY <1>5, <2>3 DEF Retry, Goes
    <3> QED BY <1>4, <3>1
  <2> QED BY <2>1, <2>2, <2>3
<1>7. Others'
  BY <1>1 DEF OpenFails, TypeOK, Others, bounds, history
<1>8. IInv'
  <2>1. Sane(w)' /\ Fresh'
    BY <1>1, <1>2, <1>6, SaneStays DEF IInv, Fresh
  <2> QED BY <1>1, <1>2, <1>6, <1>7, <2>1, MainKeeps DEF Stages
<1>9. InitiatorInv'
  BY <1>1, <1>2, <1>6, EmptyKeeps DEF InitiatorInv
<1> QED BY <1>2, <1>8, <1>9 DEF CInv, AcceptorInv

(* The engine with a new connection. *)
Linked(v, k) ==
    [v EXCEPT !.reader = k, !.writer = k, !.open = v.open \cup {k}, !.running = TRUE]

LEMMA LinkedFacts ==
    ASSUME NEW v, Sane(v), NEW k \in Conns, v.hb # "net"
    PROVE  /\ Sane(Linked(v, k)) /\ Linked(v, k) \in System
           /\ Linked(v, k).st = v.st /\ Linked(v, k).running
           /\ Linked(v, k).reader = k /\ Linked(v, k).writer = k
           /\ Linked(v, k).open = v.open \cup {k}
BY DEF Linked, Sane, System, HbRunning

LEMMA OpenedKeeps == ASSUME CInv, NEW sent \in BOOLEAN, Opened(sent) PROVE CInv'
<1> USE Names
<1>1. TypeOK /\ Sane(w) /\ Places /\ Fresh /\ IInv /\ InitiatorInv
  BY DEF CInv, IInv
<1>2. UNCHANGED mode /\ mode = "initiator" /\ pc[Main] = "opening" /\ ~w.stop /\ ~unsent
  BY <1>1 DEF Opened, Places, Fresh
<1> DEFINE k == made + 1
           v == Fire(Linked(w, k), "connection_established")
<1>3. k \in Conns /\ made' = k /\ peer' = peer \cup {k} /\ LogsOn(v, sent)
      /\ (~crossed' => ~crossed) /\ crossed' \in BOOLEAN
      /\ unsent' = (v.st = "LOGON_IN_PROGRESS" /\ ~sent)
  <2>1. made \in 0 .. MaxConns /\ made < MaxConns /\ crossed \in BOOLEAN
    BY <1>1 DEF Opened, TypeOK
  <2>2. Linked(w, k) =
          [w EXCEPT !.reader = made + 1, !.writer = made + 1, !.open = @ \cup {made + 1},
                    !.running = TRUE]
    BY <1>1 DEF Linked, Sane, System
  <2>3. LogsOn(v, sent) /\ unsent' = (v.st = "LOGON_IN_PROGRESS" /\ ~sent)
    BY <2>2 DEF Opened
  <2>4. made' = k /\ peer' = peer \cup {k}
        /\ crossed' = (crossed \/ w.st = "DISCONNECTED" \/ Closing)
    BY DEF Opened
  <2>5. k \in Conns /\ Closing \in BOOLEAN
    BY <2>1, PyConnAssumption DEF PyConnAssumption, Conns, Closing
  <2> HIDE DEF k, v
  <2> QED BY <2>1, <2>3, <2>4, <2>5
<1> HIDE DEF k
<1>4. Sane(v) /\ SameLink(Linked(w, k), v) /\ v.open = w.open \cup {k} /\ v.running
      /\ v.reader = k /\ v.writer = k /\ v.st \in States /\ v \in System
  <2>1. w.hb # "net"
    BY <1>1, <1>2 DEF Sane
  <2>2. Sane(Linked(w, k)) /\ Linked(w, k) \in System
    BY <1>1, <1>3, <2>1, LinkedFacts
  <2>3. Sane(v) /\ SameLink(Linked(w, k), v)
    BY <2>2, FireSane, FireFacts
  <2> QED BY <1>1, <1>3, <2>1, <2>3, LinkedFacts DEF SameLink, Sane, System
<1> HIDE DEF v
<1>5. Others'
  <2>1. starts' = starts /\ calls' = calls /\ owner' = owner /\ overlap' = overlap
    BY DEF Opened
  <2> QED BY <1>1, <1>3, <2>1 DEF TypeOK, Others, Conns
<1>6. Receives(Main)
  BY <1>2 DEF Receives
<1>7. ~crossed' => Held(v)
  BY <1>1, <1>2, <1>3, <1>4 DEF InitiatorInv, Held
<1>8. ASSUME NEW y, Sane(y), SameLink(v, y), y.st # "ACTIVE", Loops(Main, y), unsent' = unsent
      PROVE  IInv' /\ InitiatorInv'
  <2>1. Outcome(Main, y)
    BY <1>1, <1>6, <1>8, LoopsFacts
  <2>2. IInv'
    BY <1>1, <1>2, <1>5, <1>6, <1>8, <2>1, TookKeeps DEF Outcome
  <2>3. ~crossed' => Held(y)
    BY <1>7, <1>8 DEF Held, SameLink
  <2> QED BY <1>2, <1>8, <2>1, <2>2, <2>3, AttendsKeeps DEF Outcome
<1>9. CASE v.st = "LOGON_IN_PROGRESS" /\ sent
  <2>1. Loops(Main, HbStart(v)) /\ unsent' = unsent
    <3>1. Sends(v, sent) = v
      BY <1>9 DEF Sends
    <3>2. Loops(Main, HbStart(v))
      BY <1>3, <1>9, <3>1 DEF LogsOn
    <3>3. unsent' = unsent
      BY <1>1, <1>2, <1>3, <1>9 DEF TypeOK
    <3> QED BY <3>2, <3>3
  <2>2. Sane(HbStart(v)) /\ SameLink(v, HbStart(v)) /\ HbStart(v).st # "ACTIVE"
    BY <1>4, <1>9, HbStartFacts
  <2>3. IInv' /\ InitiatorInv'
    BY <1>8, <2>1, <2>2
  <2> QED BY <1>2, <2>3 DEF CInv, AcceptorInv
<1>10. CASE v.st = "LOGON_IN_PROGRESS" /\ ~sent
  <2> DEFINE lost == SendLost(v)
             y == HbStart(lost)
  <2>1. Sane(lost) /\ ~lost.running /\ lost.open = v.open \ {v.writer}
        /\ lost.st = "DISCONNECTED"
    BY <1>4, SendLostFacts
  <2>2. Loops(Main, y) /\ unsent' = TRUE
    BY <1>3, <1>10 DEF LogsOn, Sends
  <2> HIDE DEF lost
  <2>3. /\ y \in System /\ ~y.running /\ y.open = v.open \ {v.writer}
        /\ y.st = "DISCONNECTED" /\ y.server = lost.server /\ y.stop = lost.stop
        /\ y.hb = "net" => lost.hb = "net"
    <3>1. CASE HbRunning(lost)
      BY <2>1, <3>1 DEF HbStart, Sane
    <3>2. CASE ~HbRunning(lost)
      <4>1. y = [lost EXCEPT !.hb = "run"]
        BY <3>2 DEF HbStart
      <4> QED BY <2>1, <3>2, <4>1 DEF Sane, System
    <3> QED BY <3>1, <3>2
  <2> HIDE DEF y
  <2>4. w' = y /\ pc' = [pc EXCEPT ![Main] = "idle"] /\ at' = at
    BY <2>2, <2>3 DEF Loops, Ends, Goes
  <2>5. Sane(w)'
    BY <1>2, <2>1, <2>2, <2>3, <2>4 DEF Sane, System, HbRunning, Conns
  <2>6. Fresh'
    BY <1>1, <2>4 DEF Fresh, TypeOK
  <2>7. IInv'
    BY <1>1, <1>2, <1>5, <2>4, <2>5, <2>6, MainKeeps DEF Stages
  <2>8. InitiatorInv'
    BY <1>2, <1>7, <2>3, <2>4, EmptyKeeps DEF Held
  <2> QED BY <1>2, <2>7, <2>8 DEF CInv, AcceptorInv
<1>11. CASE v.st = "DISCONNECTED"
  <2>1. Loops(Main, v) /\ unsent' = unsent
    BY <1>1, <1>2, <1>3, <1>11 DEF LogsOn, TypeOK
  <2>2. IInv' /\ InitiatorInv'
    BY <1>4, <1>8, <1>11, <2>1 DEF SameLink
  <2> QED BY <1>2, <2>2 DEF CInv, AcceptorInv
<1>12. CASE v.st \notin {"LOGON_IN_PROGRESS", "DISCONNECTED"}
  <2>1. Calls(Main, v, FALSE) /\ unsent' = unsent
    BY <1>1, <1>2, <1>3, <1>12 DEF LogsOn, TypeOK
  <2>2. Left(Main, v)
    BY <1>1, <1>4, <1>6, <2>1, CallsFacts
  <2>3. IInv'
    BY <1>1, <1>2, <1>5, <1>6, <2>1, <2>2, TookKeeps DEF Left
  <2>4. InitiatorInv'
    BY <1>2, <1>7, <2>2, EmptyKeeps DEF Left
  <2> QED BY <1>2, <2>3, <2>4 DEF CInv, AcceptorInv
<1> QED BY <1>9, <1>10, <1>11, <1>12

LEMMA ClientConnectsKeeps == ASSUME CInv, ClientConnects PROVE CInv'
<1> USE Names
<1>1. TypeOK /\ Sane(w) /\ Places /\ IInv /\ AcceptorInv
  BY DEF CInv, IInv
<1>2. UNCHANGED <<mode, owner, unsent>> /\ mode = "acceptor"
  BY <1>1 DEF ClientConnects, Sane
<1> DEFINE k == made + 1
           linked == Fire(Linked(w, k), "client_accepted_awaiting_logon")
           v == [linked EXCEPT !.attempts = 0]
<1>3. /\ k \in Conns /\ k > made /\ made' = k /\ peer' = peer \cup {k} /\ Loops(k, v)
      /\ crossed' \in BOOLEAN /\ (~crossed' => ~crossed)
      /\ overlap' \in BOOLEAN
      /\ ~overlap' => ~overlap /\ \A o \in Conns : Gone(o)
  <2>1. made \in 0 .. MaxConns /\ made < MaxConns /\ crossed \in BOOLEAN /\ overlap \in BOOLEAN
    BY <1>1 DEF ClientConnects, TypeOK
  <2>2. Linked(w, k) =
          [w EXCEPT !.reader = made + 1, !.writer = made + 1, !.open = @ \cup {made + 1},
                    !.running = TRUE]
    BY <1>1 DEF Linked, Sane, System
  <2>3. Loops(k, v)
    BY <2>2 DEF ClientConnects
  <2>4. overlap' = (overlap \/ \E o \in Conns : pc[o] \notin {"idle", "done"})
    BY DEF ClientConnects
  <2>5. ~overlap' => ~overlap /\ \A o \in Conns : Gone(o)
    BY <2>4 DEF Gone
  <2>6. crossed' = (crossed \/ Closing) /\ made' = k /\ peer' = peer \cup {k}
    BY DEF ClientConnects
  <2>7. k \in Conns /\ k > made
    BY <2>1, PyConnAssumption DEF PyConnAssumption, Conns
  <2>8. Closing \in BOOLEAN
    BY DEF Closing
  <2> HIDE DEF k, v
  <2> QED BY <2>1, <2>3, <2>4, <2>5, <2>6, <2>7, <2>8
<1> HIDE DEF k
<1>4. /\ Sane(v) /\ v.open = w.open \cup {k} /\ v.reader = k /\ v.writer = k
      /\ v.st = "ACTIVE" => w.st = "ACTIVE"
  <2>1. w.hb # "net"
    BY <1>1, <1>2 DEF Sane
  <2>2. Sane(Linked(w, k)) /\ Linked(w, k) \in System /\ Linked(w, k).st = w.st
        /\ w.st \in States
    BY <1>1, <1>3, <2>1, LinkedFacts DEF Sane, System
  <2>3. Sane(linked) /\ SameLink(Linked(w, k), linked)
        /\ linked.st = OnEvent(w.st, "client_accepted_awaiting_logon")
    BY <2>2, FireSane, FireFacts
  <2>4. linked.st = "ACTIVE" => w.st = "ACTIVE"
    BY <2>2, <2>3, EventFacts
  <2>5. linked.open = w.open \cup {k} /\ linked.reader = k /\ linked.writer = k
    BY <1>1, <1>3, <2>1, <2>3, LinkedFacts DEF SameLink
  <2>6. 0 \in 0 .. MaxRetries
    BY PyConnAssumption DEF PyConnAssumption
  <2> HIDE DEF linked
  <2> QED BY <2>3, <2>4, <2>5, <2>6 DEF Sane, System, HbRunning
<1> HIDE DEF v
<1>5. Others'
  BY <1>1, <1>3 DEF ClientConnects, TypeOK, Others, Conns
<1>6. Receives(k)
  BY <1>2, <1>3 DEF Receives
<1>7. Outcome(k, v)
  BY <1>1, <1>3, <1>4, <1>6, LoopsFacts
<1>8. IInv'
  BY <1>1, <1>2, <1>3, <1>5, <1>6, <1>7, TookKeeps DEF Outcome
<1>9. pc[k] = "idle" /\ k \notin w.open
  BY <1>1, <1>2, <1>3 DEF AcceptorInv, Served
<1>10. \A o \in Conns \ {k} : pc'[o] = pc[o] /\ at'[o] = at[o]
  BY <1>7 DEF Outcome, Took
<1>11. /\ w'.writer = k /\ w'.reader = k
       /\ \/ pc'[k] \in {"reading", "fin"} /\ w'.open = w.open \cup {k}
          \/ pc'[k] \in {"closing", "done"} /\ w'.open = w.open
       /\ pc'[k] = "reading" => at'[k] = k
  BY <1>2, <1>4, <1>7, <1>9 DEF Outcome, Serves
<1>12. AcceptorInv'
  <2>1. \A o \in Conns : o \in w'.open => Served(o)'
    BY <1>1, <1>2, <1>9, <1>10, <1>11 DEF AcceptorInv, Served
  <2>2. \A o \in Conns : o > made' => pc'[o] = "idle"
    <3> SUFFICES ASSUME NEW o \in Conns, o > made' PROVE pc'[o] = "idle"
      OBVIOUS
    <3>1. o # k /\ o > made
      BY <1>1, <1>3 DEF Conns, TypeOK, k
    <3> QED BY <1>1, <1>2, <1>10, <3>1 DEF AcceptorInv
  <2>3. ~overlap' => \A o \in Conns : ~Gone(o)' =>
           o = w'.writer /\ o = w'.reader /\ (pc'[o] = "reading" => at'[o] = o)
    BY <1>3, <1>10, <1>11 DEF Gone
  <2>4. ~(Sound' /\ w'.st = "ACTIVE")
    <3> SUFFICES ASSUME Sound', w'.st = "ACTIVE" PROVE FALSE
      OBVIOUS
    <3>1. Sound /\ \A o \in Conns : Gone(o)
      BY <1>3 DEF Sound
    <3>2. w.st = "ACTIVE"
      BY <1>4, <1>7 DEF Outcome
    <3> QED BY <1>1, <1>2, <3>1, <3>2 DEF AcceptorInv, Gone, Served
  <2> QED BY <2>1, <2>2, <2>3, <2>4 DEF AcceptorInv
<1> QED BY <1>2, <1>8, <1>12 DEF CInv, InitiatorInv

(* What a reader returns is received by the task that attends it. *)
LEMMA ReadsFacts ==
    ASSUME CInv, NEW t \in Tasks, pc[t] = "reading"
    PROVE  /\ Receives(t)
           /\ mode = "acceptor" => t \in Conns /\ Served(t) /\ (~overlap => at[t] = t)
           /\ mode = "initiator" /\ ~crossed /\ w.open # {} => at[t] = w.writer
<1> USE Names
<1>1. TypeOK /\ Places /\ InitiatorInv /\ AcceptorInv
  BY DEF CInv, IInv
<1>2. Receives(t)
  BY <1>1, Mode DEF Places, Receives
<1>3. ASSUME mode = "acceptor" PROVE t \in Conns /\ Served(t) /\ (~overlap => at[t] = t)
  BY <1>1, <1>2, <1>3 DEF Receives, AcceptorInv, Served, Gone
<1>4. ASSUME mode = "initiator" PROVE t = Main
  BY <1>2, <1>4 DEF Receives
<1> QED BY <1>1, <1>2, <1>3, <1>4 DEF InitiatorInv

(* An initiator whose send found the connection lost holds none. *)
LEMMA AfterHeld ==
    ASSUME NEW v, After(v), Held(w)
    PROVE  Held(v)
BY DEF After, SameLink, Held

(* A task that received goes on with v. *)
LEMMA ReceivedKeeps ==
    ASSUME CInv, NEW t \in Tasks, pc[t] = "reading",
           UNCHANGED <<mode, made, overlap, crossed, unsent>>,
           Others', NEW v, After(v), Outcome(t, v),
           v.st = "ACTIVE" =>
              \/ w.st = "ACTIVE" /\ owner' = owner
              \/ owner' = at[t] /\ at[t] \in w.open
    PROVE  CInv'
<1> USE Names
<1>1. TypeOK /\ Places /\ InitiatorInv /\ AcceptorInv /\ IInv
  BY DEF CInv, IInv
<1>2. Receives(t)
  BY ReadsFacts
<1>3. IInv'
  BY <1>1, <1>2, TookKeeps DEF Outcome
<1>4. InitiatorInv'
  <2>1. ASSUME mode = "initiator", ~crossed' PROVE Held(v)
    BY <1>1, <2>1, AfterHeld DEF InitiatorInv
  <2>2. ASSUME mode = "initiator", ~crossed', v.st = "ACTIVE", v.running
        PROVE  v.writer = owner' /\ owner' \in v.open
    <3>1. v.running = w.running /\ v.writer = w.writer /\ v.open = w.open
      BY <2>2 DEF After, SameLink
    <3>2. CASE w.st = "ACTIVE" /\ owner' = owner
      BY <1>1, <2>2, <3>1, <3>2 DEF InitiatorInv
    <3>3. CASE owner' = at[t] /\ at[t] \in w.open
      BY <2>2, <3>1, <3>3, ReadsFacts
    <3> QED BY <2>2, <3>2, <3>3
  <2> QED BY <2>1, <2>2, AttendsKeeps DEF Outcome
<1>5. ASSUME mode = "acceptor" PROVE AcceptorInv'
  <2>1. t \in Conns /\ Served(t) /\ (~overlap => at[t] = t)
    BY <1>5, ReadsFacts
  <2>2. Took(t) /\ Serves(t, v) /\ (w'.running => v.running)
        /\ (w'.st = "ACTIVE" => v.st = "ACTIVE")
    BY <1>5 DEF Outcome
  <2>3. v.st = "ACTIVE" /\ Sound' =>
          \/ owner' = t /\ t \in v.open
          \/ w.st = "ACTIVE" /\ owner' = owner
    <3>1. v.st = "ACTIVE" => v.open = w.open
      BY DEF After, SameLink
    <3> QED BY <2>1, <3>1 DEF Sound
  <2> QED BY <1>1, <1>5, <2>1, <2>2, <2>3, HandlerKeeps
<1> QED BY <1>1, <1>3, <1>4, <1>5, Mode DEF CInv, AcceptorInv

LEMMA ReadsLogonKeeps ==
    ASSUME CInv, NEW t \in Tasks, NEW sent \in BOOLEAN, ReadsLogon(t, sent)
    PROVE  CInv'
<1>1. TypeOK /\ Sane(w) /\ w \in System /\ w.st \in States
  BY DEF CInv, IInv, Sane, System
<1> DEFINE said == Sends(w, sent)
           in == Fire(said, "logon_received_valid")
           v == IF mode = "initiator" THEN Fire(w, "logon_successful") ELSE HbStart(in)
<1>2. Sane(v) /\ After(v)
  <2>1. CASE mode = "initiator"
    BY <1>1, <2>1, FireSane, FireFacts DEF After
  <2>2. CASE mode # "initiator"
    <3>1. /\ Sane(said) /\ After(said)
          /\ said.st = w.st \/ said.st = "DISCONNECTED"
      BY <1>1, SendsFacts DEF SameLink
    <3>2. said \in System /\ said.st \in States
      BY <3>1 DEF Sane, System
    <3> HIDE DEF said
    <3>3. Sane(in) /\ SameLink(said, in) /\ in.st = OnEvent(said.st, "logon_received_valid")
      BY <3>1, <3>2, FireSane, FireFacts
    <3>4. After(in)
      <4>1. CASE SameLink(w, said)
        BY <3>3, <4>1 DEF After, SameLink
      <4>2. CASE ~SameLink(w, said)
        <5>1. in.st # "ACTIVE"
          <6>1. said.st \in States /\ said.st # "ACTIVE"
            BY <3>1, <3>2, <4>2 DEF After
          <6>2. said.st # "AWAITING_LOGON"
            BY <3>1, <4>2, <1>1, SendLostFacts DEF said, Sends, After, SameLink
          <6> QED BY <3>3, <6>1, <6>2, EventFacts
        <5> QED BY <3>1, <3>3, <4>2, <5>1 DEF After, SameLink
      <4> QED BY <4>1, <4>2
    <3> HIDE DEF in
    <3>5. Sane(HbStart(in)) /\ SameLink(in, HbStart(in)) /\ HbStart(in).st = in.st
      BY <2>2, <3>3, HbStartFacts
    <3>6. v = HbStart(in)
      BY <2>2
    <3> QED BY <3>4, <3>5, <3>6 DEF After, SameLink
  <2> QED BY <2>1, <2>2
<1>3. /\ pc[t] = "reading" /\ at[t] \in w.open /\ Loops(t, v)
      /\ owner' = IF v.st = "ACTIVE" /\ w.st # "ACTIVE" THEN at[t] ELSE owner
      /\ UNCHANGED <<mode, peer, bounds, overlap, crossed, unsent>>
  BY DEF ReadsLogon, Reads
<1> HIDE DEF v
<1>4. Others'
  BY <1>1, <1>3 DEF TypeOK, Others, bounds
<1>5. Outcome(t, v)
  BY <1>1, <1>2, <1>3, ReadsFacts, LoopsFacts
<1>6. v.st = "ACTIVE" =>
        \/ w.st = "ACTIVE" /\ owner' = owner
        \/ owner' = at[t] /\ at[t] \in w.open
  BY <1>3
<1> QED BY <1>2, <1>3, <1>4, <1>5, <1>6, ReceivedKeeps DEF bounds

(* The Logout a handler answers with. *)
LEMMA SaysFacts ==
    ASSUME CInv, NEW sent \in BOOLEAN
    PROVE  /\ Sane(SaysLogout(sent)) /\ After(SaysLogout(sent))
           /\ SaysLogout(sent).st # "ACTIVE" /\ SaysLogout(sent) \in System
<1> DEFINE out == Fire(w, "logout_initiated")
<1>1. Sane(w) /\ w \in System /\ w.st \in States
  BY DEF CInv, IInv, Sane, System
<1>2. Sane(out) /\ SameLink(w, out) /\ out.st # "ACTIVE"
  BY <1>1, FireSane, FireFacts, EventFacts
<1>3. SaysLogout(sent) = Sends(out, sent)
  BY DEF SaysLogout
<1> HIDE DEF out
<1> QED BY <1>2, <1>3, SendsFacts DEF Sane

LEMMA ReadsLogoutKeeps ==
    ASSUME CInv, NEW t \in Tasks, NEW sent \in BOOLEAN, ReadsLogout(t, sent)
    PROVE  CInv'
<1>1. TypeOK /\ Sane(w) /\ w \in System /\ IInv /\ InitiatorInv /\ AcceptorInv
  BY DEF CInv, IInv, Sane
<1> DEFINE v == SaysLogout(sent)
<1>2. Sane(v) /\ After(v) /\ v.st # "ACTIVE"
  BY SaysFacts
<1>3. /\ pc[t] = "reading" /\ Calls(t, v, FALSE)
      /\ UNCHANGED <<mode, peer, made, starts, calls, owner, overlap, crossed, unsent>>
  BY DEF ReadsLogout, Reads, bounds, history
<1> HIDE DEF v
<1>4. Others'
  BY <1>1, <1>3 DEF TypeOK, Others
<1>5. Receives(t) /\ Left(t, v)
  BY <1>1, <1>2, <1>3, ReadsFacts, CallsFacts
<1>6. IInv'
  BY <1>1, <1>3, <1>4, <1>5, TookKeeps DEF Left
<1>7. InitiatorInv'
  <2>1. mode = "initiator" /\ ~crossed' => Held(v)
    BY <1>1, <1>2, <1>3, AfterHeld DEF InitiatorInv
  <2> QED BY <1>3, <1>5, <2>1, EmptyKeeps DEF Left
<1>8. ASSUME mode = "acceptor" PROVE AcceptorInv'
  <2>1. t \in Conns /\ Served(t)
    BY <1>3, <1>8, ReadsFacts
  <2>2. Took(t) /\ Serves(t, v) /\ ~w'.running /\ w'.st # "ACTIVE"
    BY <1>5, <1>8, <2>1 DEF Left
  <2> QED BY <1>1, <1>2, <1>3, <1>8, <2>1, <2>2, HandlerKeeps
<1> QED BY <1>1, <1>3, <1>6, <1>7, <1>8, Mode DEF CInv, AcceptorInv

LEMMA ReadsBadKeeps ==
    ASSUME CInv, NEW t \in Tasks, NEW numbered \in BOOLEAN, NEW sent \in BOOLEAN,
           ReadsBad(t, numbered, sent)
    PROVE  CInv'
<1>1. TypeOK /\ Sane(w) /\ w \in System /\ w.st \in States
  BY DEF CInv, IInv, Sane, System
<1> DEFINE out == SaysLogout(sent)
           v == IF numbered THEN out ELSE Fire(out, "disconnect")
<1>2. Sane(out) /\ After(out) /\ out.st # "ACTIVE"
  BY SaysFacts
<1>3. pc[t] = "reading" /\ Loops(t, v)
      /\ UNCHANGED <<mode, peer, made, starts, calls, owner, overlap, crossed, unsent>>
  BY DEF ReadsBad, Reads, bounds, history
<1>4. Sane(v) /\ After(v) /\ v.st # "ACTIVE"
  <2> HIDE DEF out
  <2>1. CASE numbered
    BY <1>2, <2>1
  <2>2. CASE ~numbered
    <3>1. out \in System /\ out.st \in States /\ "disconnect" \in Drops
      BY <1>2 DEF Sane, System, Drops
    <3>2. v = Fire(out, "disconnect")
      BY <2>2
    <3> HIDE DEF v
    <3>3. Sane(v) /\ SameLink(out, v) /\ v.st # "ACTIVE"
      BY <1>2, <3>1, <3>2, FireSane, FireFacts, EventFacts
    <3> QED BY <1>2, <3>3 DEF After, SameLink
  <2> QED BY <2>1, <2>2
<1> HIDE DEF v
<1>5. Others'
  BY <1>1, <1>3 DEF TypeOK, Others
<1>6. Outcome(t, v)
  BY <1>1, <1>3, <1>4, ReadsFacts, LoopsFacts
<1> QED BY <1>3, <1>4, <1>5, <1>6, ReceivedKeeps

LEMMA SendFailsKeeps == ASSUME CInv, SendFails PROVE CInv'
<1>1. TypeOK /\ Sane(w) /\ IInv /\ InitiatorInv /\ AcceptorInv
  BY DEF CInv, IInv
<1>2. /\ w' = SendLost(w)
      /\ UNCHANGED <<mode, pc, at, peer, made, starts, calls, owner, overlap, crossed, unsent>>
  BY DEF SendFails, bounds, history
<1>3. /\ Sane(w') /\ w'.st = "DISCONNECTED" /\ ~w'.running
      /\ w'.open = w.open \ {w.writer}
      /\ mode = "acceptor" => w'.writer = w.writer /\ w'.reader = w.reader
  BY <1>1, <1>2, SendLostFacts
<1>4. IInv'
  <2>1. Others' /\ Fresh' /\ Sane(w)'
    BY <1>1, <1>2, <1>3, SaneStays DEF TypeOK, Others, IInv, Fresh
  <2> QED BY <1>1, <1>2, <2>1, MainKeeps
<1>5. InitiatorInv'
  BY <1>1, <1>2, <1>3, EmptyKeeps DEF InitiatorInv, Held
<1>6. ASSUME mode = "acceptor" PROVE AcceptorInv'
  BY <1>1, <1>2, <1>3, <1>6, NoHandlerKeeps
<1> QED BY <1>1, <1>2, <1>4, <1>5, <1>6, Mode DEF CInv, AcceptorInv

LEMMA ReadsEndKeeps == ASSUME CInv, NEW t \in Tasks, ReadsEnd(t) PROVE CInv'
<1>1. TypeOK /\ Sane(w)
  BY DEF CInv, IInv
<1>2. pc[t] = "reading" /\ Breaks(t, w)
      /\ UNCHANGED <<mode, peer, made, starts, calls, owner, overlap, crossed, unsent>>
  BY DEF ReadsEnd, bounds, history
<1>3. Others'
  BY <1>1, <1>2 DEF TypeOK, Others
<1>4. Outcome(t, w)
  BY <1>1, <1>2, ReadsFacts, BreaksFacts
<1> QED BY <1>2, <1>3, <1>4, ReceivedKeeps DEF After, SameLink

LEMMA HbTimesOutKeeps == ASSUME CInv, HbTimesOut PROVE CInv'
<1> USE Names
<1>1. TypeOK /\ Sane(w) /\ w \in System /\ IInv /\ InitiatorInv /\ AcceptorInv
  BY DEF CInv, IInv, Sane
<1>2. UNCHANGED <<mode, at, peer, made, starts, calls, owner, overlap, crossed, unsent>>
  BY DEF HbTimesOut, bounds, history
<1>3. Others'
  BY <1>1, <1>2 DEF TypeOK, Others
<1> DEFINE left == Leave(w, FALSE)
           stopped == NetStop(left)
<1>4. Sane(left) /\ SameLink(w, left) /\ left.st # "ACTIVE" /\ left.stop
  <2>0. "disconnect" \in Drops /\ w.st \in States /\ HbRunning(w) /\ w.st = "ACTIVE"
    BY <1>1 DEF Drops, System, HbTimesOut, HbRunning
  <2>1. left = Fire(w, "disconnect")
    BY DEF Leave
  <2>2. OnEvent(w.st, "disconnect") = "DISCONNECTED"
    BY <2>0, EventFacts
  <2>3. left.stop
    <3>1. Fire(w, "disconnect").st = "DISCONNECTED"
      BY <1>1, <2>2, FireFacts
    <3>2. Fire(w, "disconnect").stop \/ w.st = "DISCONNECTED"
      BY <1>1, <2>0, <3>1, FireFacts
    <3> QED BY <2>0, <2>1, <3>2
  <2> QED BY <1>1, <2>3, LeaveFacts
<1>5. CASE NetWaits(left)
  <2>1. w' = [stopped EXCEPT !.hb = "net"] /\ pc' = pc
    BY <1>5 DEF HbTimesOut
  <2>2. mode = "initiator"
    BY <1>5 DEF NetWaits
  <2>3. Sane(stopped) /\ ~stopped.running /\ stopped.stop
        /\ stopped.st # "ACTIVE" /\ stopped.open = left.open \ {left.writer}
    BY <1>4, <2>2, NetStopFacts
  <2> HIDE DEF left, stopped
  <2>4. Sane(w') /\ w'.open = left.open \ {left.writer} /\ w'.st # "ACTIVE"
    BY <2>1, <2>2, <2>3 DEF Sane, System, HbRunning
  <2>5. IInv'
    <3>1. Sane(w)' /\ Fresh'
      BY <1>1, <1>2, <2>1, <2>4, SaneStays DEF IInv, Fresh
    <3> QED BY <1>1, <1>2, <1>3, <2>1, <3>1, MainKeeps
  <2>6. InitiatorInv'
    BY <1>1, <1>2, <1>4, <2>4, EmptyKeeps DEF InitiatorInv, Held, SameLink
  <2> QED BY <1>2, <2>2, <2>5, <2>6 DEF CInv, AcceptorInv
<1>6. CASE ~NetWaits(left)
  <2> DEFINE y == NetForget(stopped)
             z == [y EXCEPT !.hb = "off"]
  <2>1. Goes(Hb, z, "fin")
    BY <1>6 DEF HbTimesOut
  <2>2. /\ Sane(stopped) /\ stopped.st = left.st
        /\ stopped.reader = left.reader /\ stopped.writer = left.writer
        /\ stopped.open = IF mode = "acceptor" THEN left.open ELSE left.open \ {left.writer}
    BY <1>4, NetStopFacts
  <2> HIDE DEF stopped
  <2>3. /\ Sane(y) /\ y.st = left.st /\ y.open = stopped.open
        /\ mode = "acceptor" => y = stopped
    BY <2>2, NetForgetFacts
  <2> HIDE DEF y
  <2>4. /\ Sane(z) /\ z.st = left.st /\ z.open = stopped.open
        /\ mode = "acceptor" => z.writer = left.writer /\ z.reader = left.reader
    BY <2>2, <2>3 DEF Sane, System, HbRunning
  <2> HIDE DEF z
  <2>5. w' = z /\ pc'[Hb] = "fin" /\ pc' \in [Tasks -> Stages]
        /\ \A o \in Tasks \ {Hb} : pc'[o] = pc[o]
    BY <1>1, <2>1, GoesFacts DEF Stages
  <2>6. Took(Hb)
    BY <1>1, <1>2, <2>4, <2>5 DEF Took, Stops, Receives, TypeOK
  <2>7. IInv'
    BY <1>1, <1>2, <1>3, <2>6, TookKeeps
  <2>8. InitiatorInv'
    <3>1. mode = "initiator" /\ ~crossed' => left.open \ {left.writer} = {}
      BY <1>1, <1>2, <1>4, <1>6 DEF InitiatorInv, Held, SameLink
    <3>2. w'.open = {} \/ mode # "initiator" \/ crossed'
      BY <2>2, <2>4, <2>5, <3>1
    <3> QED BY <1>2, <1>4, <2>4, <2>5, <3>2, EmptyKeeps
  <2>9. ASSUME mode = "acceptor" PROVE AcceptorInv'
    <3>1. \A k \in Conns : pc'[k] = pc[k] /\ at'[k] = at[k]
      BY <1>2, <2>5
    <3>2. w'.open = w.open /\ w'.writer = w.writer /\ w'.reader = w.reader /\ w'.st # "ACTIVE"
      BY <1>4, <2>2, <2>4, <2>5, <2>9 DEF SameLink
    <3> QED BY <1>1, <1>2, <2>9, <3>1, <3>2, NoHandlerKeeps
  <2> QED BY <1>1, <1>2, <2>7, <2>8, <2>9, Mode DEF CInv, AcceptorInv
<1> QED BY <1>5, <1>6

LEMMA StopRunsKeeps == ASSUME CInv, StopRuns PROVE CInv'
<1> USE Names
<1>1. TypeOK /\ Sane(w) /\ IInv /\ InitiatorInv /\ AcceptorInv
  BY DEF CInv, IInv
<1>2. UNCHANGED <<mode, pc, at, peer, made, starts, calls, owner, overlap, crossed, unsent>>
  BY DEF StopRuns, bounds, history
<1>3. Others'
  BY <1>1, <1>2 DEF TypeOK, Others
<1> DEFINE v == HbStop(w)
<1>4. /\ Sane(v) /\ v.hb = "off"
      /\ v.st = w.st /\ v.running = w.running /\ v.open = w.open /\ v.reader = w.reader
      /\ v.writer # w.writer => mode = "initiator" /\ ~w.running
  BY <1>1, HbStopFacts
<1>5. w' = [v EXCEPT !.stop = FALSE]
  BY DEF StopRuns
<1> HIDE DEF v
<1>6. /\ Sane(w') /\ w'.st = w.st /\ w'.running = w.running /\ w'.open = w.open
      /\ w'.reader = w.reader /\ w'.writer = v.writer
  BY <1>4, <1>5 DEF Sane, System, HbRunning
<1>7. IInv'
  <2>1. Sane(w)' /\ Fresh'
    BY <1>1, <1>2, <1>6, SaneStays DEF IInv, Fresh
  <2> QED BY <1>1, <1>2, <1>3, <2>1, MainKeeps
<1>8. InitiatorInv'
  BY <1>1, <1>2, <1>4, <1>6 DEF InitiatorInv, Held
<1>9. ASSUME mode = "acceptor" PROVE AcceptorInv'
  <2>1. w'.writer = w.writer
    BY <1>4, <1>6, <1>9
  <2> QED BY <1>1, <1>2, <1>6, <1>9, <2>1, NoHandlerKeeps
<1> QED BY <1>1, <1>2, <1>7, <1>8, <1>9, Mode DEF CInv, AcceptorInv

LEMMA AppDisconnectsKeeps ==
    ASSUME CInv, NEW graceful \in BOOLEAN, AppDisconnects(graceful)
    PROVE  CInv'
<1> USE Names
<1>1. TypeOK /\ Sane(w) /\ IInv /\ InitiatorInv /\ AcceptorInv
  BY DEF CInv, IInv
<1>2. UNCHANGED <<mode, peer, made, starts, owner, overlap, crossed, unsent>> /\ Calls(App, w, graceful)
      /\ calls < MaxCalls /\ calls' = calls + 1
  BY DEF AppDisconnects, history
<1>3. Others'
  <2>1. calls' \in 0 .. MaxCalls
    BY <1>1, <1>2, PyConnAssumption DEF PyConnAssumption, TypeOK
  <2> QED BY <1>1, <1>2, <2>1 DEF TypeOK, Others
<1>4. Left(App, w)
  BY <1>1, <1>2, CallsFacts
<1>5. IInv'
  BY <1>1, <1>2, <1>3, <1>4, TookKeeps DEF Left
<1>6. InitiatorInv'
  BY <1>1, <1>2, <1>4, EmptyKeeps DEF Left, InitiatorInv
<1>7. ASSUME mode = "acceptor" PROVE AcceptorInv'
  <2>1. \A k \in Conns : pc'[k] = pc[k] /\ at'[k] = at[k]
    BY <1>4 DEF Left, Took
  <2>2. w'.open = w.open /\ w'.writer = w.writer /\ w'.reader = w.reader /\ w'.st # "ACTIVE"
    BY <1>4, <1>7 DEF Left
  <2> QED BY <1>1, <1>2, <1>7, <2>1, <2>2, NoHandlerKeeps
<1> QED BY <1>1, <1>2, <1>5, <1>6, <1>7, Mode DEF CInv, AcceptorInv

(* Nothing but the other ends changes. *)
LEMMA StaysKeeps ==
    ASSUME CInv, UNCHANGED <<mode, w, pc, at, bounds, history>>, peer' \subseteq Conns
    PROVE  CInv'
<1>1. TypeOK' /\ Sane(w)'
  BY DEF CInv, IInv, TypeOK, Sane, bounds, history, System, HbRunning, Conns, Tasks, Main, App, Hb
<1>2. IInv'
  BY <1>1 DEF CInv, IInv, Places, Fresh, history
<1>3. InitiatorInv' /\ AcceptorInv'
  BY DEF CInv, InitiatorInv, AcceptorInv, Held, Served, Gone, Sound, bounds, history
<1> QED BY <1>2, <1>3 DEF CInv

LEMMA Inductive == CInv /\ [Next]_vars => CInv'
<1> SUFFICES ASSUME CInv, [Next]_vars PROVE CInv'
  OBVIOUS
<1>0. peer \subseteq Conns
  BY DEF CInv, IInv, TypeOK
<1>1. ASSUME Engine PROVE CInv'
  BY <1>1, WakesUpKeeps, ServerClosedKeeps, OpenFailsKeeps, OpenedKeeps, StopRunsKeeps,
     WriterClosedKeeps, FinishesKeeps, LastClosedKeeps, ClientClosedKeeps, ReadsEndKeeps
  DEF Engine
<1>2. ASSUME Environment PROVE CInv'
  <2>1. ASSUME NEW k \in Conns, PeerCloses(k) PROVE CInv'
    BY <1>0, <2>1, StaysKeeps DEF PeerCloses
  <2> QED BY <1>2, <2>1, StartKeeps, ClientConnectsKeeps, HbTimesOutKeeps, ReadsLogonKeeps,
             ReadsLogoutKeeps, ReadsBadKeeps, SendFailsKeeps, AppDisconnectsKeeps
          DEF Environment
<1>3. CASE UNCHANGED vars
  BY <1>0, <1>3, StaysKeeps DEF vars, bounds, history
<1> QED BY <1>1, <1>2, <1>3 DEF Next

LEMMA Invariance == Spec => []CInv
<1> QED BY InitHolds, Inductive, PTL DEF Spec

-----------------------------------------------------------------------------
(* Whatever the tasks do between their waits (FixEngine.start, disconnect,   *)
(* receive_message), the engine and the places of its tasks have their types *)
(* and the retries stay within max_retries. *)
THEOREM ConnTypeCorrect == Spec => []TypeOK
<1>1. CInv => TypeOK
  BY DEF CInv, IInv
<1> QED BY <1>1, Invariance, PTL

(* set_transport and connect replace reader and writer without a look at the *)
(* session; still, until a second client comes beside the first, or a        *)
(* disconnect ends over a connection opened after it began, an ACTIVE        *)
(* session writes to the open connection it was logged on over.              *)
THEOREM SessionOnItsConnection == Spec => []SessionKeepsItsConnection
<1>1. CInv => SessionKeepsItsConnection
  <2> SUFFICES ASSUME CInv, Sound, w.st = "ACTIVE", w.running
               PROVE  w.writer = owner /\ owner \in w.open
    BY DEF SessionKeepsItsConnection
  <2>1. TypeOK /\ Places /\ InitiatorInv /\ AcceptorInv
    BY DEF CInv, IInv
  <2>2. CASE mode = "initiator"
    BY <2>1, <2>2 DEF InitiatorInv, Sound
  <2>3. CASE mode = "acceptor"
    <3>1. owner \in Conns /\ owner \in w.open
      BY <2>1, <2>3 DEF AcceptorInv
    <3>2. Served(owner) /\ ~Gone(owner)
      BY <2>1, <2>3, <3>1 DEF AcceptorInv, Served, Gone
    <3> QED BY <2>1, <2>3, <3>1, <3>2 DEF AcceptorInv, Sound
  <2> QED BY <2>1, <2>2, <2>3, Mode
<1> QED BY <1>1, Invariance, PTL

(* When every task of the engine has ended, none of the ways a connection    *)
(* ends (NetworkConnection.disconnect, the finally of                        *)
(* handle_incoming_connection) has left its writer open.                     *)
THEOREM EveryEndCloses == Spec => []NothingLeftOpen
<1>1. CInv => NothingLeftOpen
  <2> SUFFICES ASSUME CInv, ~crossed, Quiet PROVE w.open = {}
    BY DEF NothingLeftOpen
  <2>1. TypeOK /\ InitiatorInv /\ AcceptorInv /\ w.open \subseteq Conns
    BY DEF CInv, IInv, Sane, System
  <2>2. \A t \in Tasks : pc[t] \notin {"reading", "fin"}
    BY DEF Quiet
  <2>3. CASE mode = "initiator"
    BY <2>1, <2>2, <2>3, Names DEF InitiatorInv
  <2>4. CASE mode = "acceptor"
    BY <2>1, <2>2, <2>4, Names DEF AcceptorInv, Served
  <2> QED BY <2>1, <2>3, <2>4, Mode
<1> QED BY <1>1, Invariance, PTL

(* Whichever task ends an initiator's session - the application, the         *)
(* receiving loop, the heartbeat itself, a send that finds the connection    *)
(* lost - the heartbeat ends too once the stop that on_state_change          *)
(* scheduled has run; a DISCONNECTED initiator has one only if logon started *)
(* it behind a Logon that could not be sent, and until start runs again.     *)
THEOREM NoHeartbeatOfAnEndedSession == Spec => []HeartbeatStops
<1>1. CInv => HeartbeatStops
  BY DEF CInv, IInv, Sane, HeartbeatStops
<1> QED BY <1>1, Invariance, PTL
=============================================================================
