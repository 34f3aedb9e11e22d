------------------------------- MODULE PyConn -------------------------------
(***************************************************************************)
(* The tasks of one engine of the Python package around its connection:    *)
(* start, retry_connect, handle_incoming_connection, receive_message and   *)
(* disconnect (fixengine/engine.py), the network layer under them          *)
(* (network.py) and the start, stop and timeout of the heartbeat task      *)
(* (heartbeat.py).                                                         *)
(*                                                                         *)
(* A task runs until it awaits something that is not there: a connection   *)
(* being opened, a read, a writer that closes, a cancelled task, a sleep.  *)
(* Between two such points nothing else runs, so an action goes from one   *)
(* of them to the next.  What the tasks share is the record w; pc says     *)
(* where each task waits.  Messages are reduced to the Logon that makes    *)
(* the session ACTIVE, the Logout that ends it, and any other.  A send may *)
(* find its connection lost (sent is FALSE).                               *)
(***************************************************************************)
EXTENDS PyStateMachine, Naturals, FiniteSets

CONSTANTS
    Modes,      \* "initiator", "acceptor"
    MaxRetries, \* max_retries
    MaxConns,   \* bound: connections
    MaxStarts,  \* bound: calls of start
    MaxCalls    \* bound: calls of disconnect by the application

Conns == 1 .. MaxConns
Main == 0            \* start
App == MaxConns + 1  \* disconnect, called by the application
Hb == MaxConns + 2   \* disconnect, called by the heartbeat task
Tasks == {Main, App, Hb} \cup Conns

ASSUME PyConnAssumption ==
    /\ Modes \subseteq {"initiator", "acceptor"}
    /\ MaxRetries \in Nat /\ MaxConns \in Nat /\ MaxStarts \in Nat /\ MaxCalls \in Nat

VARIABLES
    mode,
    w,        \* the engine: see System
    pc,       \* where each task waits; a client's handler is its connection
    at,       \* the connection whose reader a task waits on
    peer,     \* connections the other end has not closed
    made, starts, calls,
    owner,    \* history: the connection whose Logon made the session ACTIVE
    overlap,  \* history: a client was accepted beside another one
    crossed,  \* history: a disconnect ended after another connection was opened,
              \* or while one was being opened
    unsent    \* history: the Logon of the last connection could not be sent, and
              \* start was not called since

vars == <<mode, w, pc, at, peer, made, starts, calls, owner, overlap, crossed, unsent>>
bounds == <<made, starts, calls>>
history == <<owner, overlap, crossed, unsent>>

NoConn == 0

(* The engine.  running, reader, writer, server are the network layer's;   *)
(* open, the connections whose writer was not closed.  hb is the heartbeat *)
(* task: "run", or "net" where its own disconnect waits for the writer.    *)
(* stop: a call of heartbeat.stop that on_state_change has scheduled.      *)
System ==
    [st : States, running : BOOLEAN, reader : {NoConn} \cup Conns,
     writer : {NoConn} \cup Conns, server : BOOLEAN, open : SUBSET Conns,
     hb : {"off", "run", "net"}, stop : BOOLEAN, attempts : 0 .. MaxRetries]

TypeOK ==
    /\ mode \in Modes
    /\ w \in System
    /\ pc \in [Tasks -> {"idle", "opening", "sleeping", "serving", "reading",
                         "net", "fin", "lastnet", "closing", "done"}]
    /\ at \in [Tasks -> {NoConn} \cup Conns]
    /\ peer \subseteq Conns
    /\ made \in 0 .. MaxConns /\ starts \in 0 .. MaxStarts /\ calls \in 0 .. MaxCalls
    /\ owner \in {NoConn} \cup Conns
    /\ overlap \in BOOLEAN /\ crossed \in BOOLEAN /\ unsent \in BOOLEAN

Init ==
    /\ mode \in Modes
    /\ w = [st |-> "DISCONNECTED", running |-> FALSE, reader |-> NoConn,
            writer |-> NoConn, server |-> FALSE, open |-> {}, hb |-> "off",
            stop |-> FALSE, attempts |-> 0]
    /\ pc = [t \in Tasks |-> "idle"]
    /\ at = [t \in Tasks |-> NoConn]
    /\ peer = {}
    /\ made = 0 /\ starts = 0 /\ calls = 0
    /\ owner = NoConn /\ overlap = FALSE /\ crossed = FALSE /\ unsent = FALSE

-----------------------------------------------------------------------------
(* on_state_change; Heartbeat.start and stop.                              *)
HbRunning(v) == v.hb \in {"run", "net"}

(* A slip: a session that ends leaves its heartbeat running.               *)
FireOnly(v, event) ==
    LET s == OnEvent(v.st, event) IN
    IF s # v.st /\ s = "ACTIVE" THEN [v EXCEPT !.st = s, !.attempts = 0]
    ELSE [v EXCEPT !.st = s]

Fire(v, event) ==
    LET s == OnEvent(v.st, event) IN
    CASE s = v.st -> v
      [] s # v.st /\ s = "ACTIVE" -> [v EXCEPT !.st = s, !.attempts = 0]
      [] s # v.st /\ s = "DISCONNECTED" -> [v EXCEPT !.st = s, !.stop = v.stop \/ HbRunning(v)]
      [] OTHER -> [v EXCEPT !.st = s]

HbStart(v) == IF HbRunning(v) THEN v ELSE [v EXCEPT !.hb = "run"]

(* The cancelled task may be in the network's disconnect, whose finally    *)
(* forgets the writer; the rest of its disconnect is not run.              *)
HbStop(v) ==
    CASE v.hb = "run" -> [v EXCEPT !.hb = "off"]
      [] v.hb = "net" -> [v EXCEPT !.hb = "off", !.writer = NoConn]
      [] OTHER -> v

(* A slip: an initiator's writer is not closed.                            *)
NetStopOnly(v) ==
    IF mode = "acceptor" THEN [v EXCEPT !.running = FALSE, !.server = FALSE]
    ELSE [v EXCEPT !.running = FALSE]

(* NetworkConnection.disconnect up to its wait for the writer, and behind  *)
(* it; the acceptor only closes its server.                                *)
NetStop(v) ==
    IF mode = "acceptor" THEN [v EXCEPT !.running = FALSE, !.server = FALSE]
    ELSE [v EXCEPT !.running = FALSE, !.open = @ \ {v.writer}]

NetWaits(v) == mode = "initiator" /\ v.writer \in v.open

NetForget(v) ==
    IF mode = "acceptor" THEN v ELSE [v EXCEPT !.writer = NoConn, !.reader = NoConn]

(* FixEngine.disconnect: the event, and what comes last.                   *)
Over(v) == v.st = "DISCONNECTED" /\ ~v.running

Leave(v, graceful) ==
    Fire(v, IF graceful /\ v.st = "ACTIVE" THEN "logout_initiated" ELSE "disconnect")

Finish(v) == Fire([v EXCEPT !.attempts = 0], "force_disconnect")

(* send_message on a connection that is lost: the writer is closing, so    *)
(* the network's disconnect has nothing to wait for; it raises, and        *)
(* send_message ends the session and returns as if it had sent (its own    *)
(* disconnect is over at once).                                            *)
Writes(v) == v.running /\ v.writer # NoConn /\ v.st # "DISCONNECTED"

SendLost(v) ==
    Fire(NetForget(NetStop([v EXCEPT !.open = @ \ {v.writer}])), "disconnect")

Sends(v, sent) == IF sent THEN v ELSE SendLost(v)

-----------------------------------------------------------------------------
(* Where a task goes: it waits at p with the engine as v.                  *)
Goes(t, v, p) == w' = v /\ pc' = [pc EXCEPT ![t] = p]

(* What a client's handler and the callback of the server that runs it     *)
(* have in their finally: the writer is closed if it is not closing yet.   *)
Returned(t, v) == Goes(t, [v EXCEPT !.open = @ \ {t}], "done")

(* The end of a connection's task: the handler of a client closes its      *)
(* writer and waits for it, start just returns.                            *)
Ends(t, v) ==
    /\ IF t = Main THEN Goes(t, v, "idle")
       ELSE IF t \in v.open THEN Goes(t, [v EXCEPT !.open = @ \ {t}], "closing")
       ELSE Returned(t, Fire(v, "disconnect"))
    /\ UNCHANGED at

(* The loop of receive broke off: it takes the network down, if running.   *)
Breaks(t, v) ==
    IF ~v.running THEN Ends(t, v)
    ELSE IF NetWaits(v) THEN Goes(t, NetStop(v), "lastnet") /\ UNCHANGED at
    ELSE Ends(t, NetForget(NetStop(v)))

(* The loop of receive: nobody else may wait on the same reader.           *)
Loops(t, v) ==
    IF ~v.running THEN Ends(t, v)
    ELSE IF v.reader = NoConn
           \/ \E o \in Tasks \ {t} : pc[o] = "reading" /\ at[o] = v.reader
      THEN Breaks(t, v)
    ELSE Goes(t, v, "reading") /\ at' = [at EXCEPT ![t] = v.reader]

(* A task calls disconnect; what it does when the call returns.  start and *)
(* a client's handler come back to the loop of receive.                    *)
Returns(t, v) ==
    IF t \in {App, Hb} THEN Goes(t, v, "idle") /\ UNCHANGED at ELSE Loops(t, v)

Calls(t, v, graceful) ==
    LET left == Leave(v, graceful) IN
    CASE Over(v) -> Returns(t, v)
      [] ~Over(v) /\ NetWaits(left) -> Goes(t, NetStop(left), "net") /\ UNCHANGED at
      [] OTHER -> Goes(t, HbStop(NetForget(NetStop(left))), "fin") /\ UNCHANGED at

(* What a disconnect does behind a wait may hit a connection that was      *)
(* opened meanwhile.                                                       *)
Closing == \E t \in Tasks : pc[t] \in {"net", "fin", "lastnet", "closing"}

Crosses == crossed' = (crossed \/ pc[Main] = "opening" \/ w.writer \in w.open)

WriterClosed(t) ==
    /\ pc[t] = "net"
    /\ Goes(t, HbStop(NetForget(w)), "fin")
    /\ Crosses
    /\ UNCHANGED <<mode, at, peer, bounds, owner, overlap, unsent>>

Finishes(t) ==
    /\ pc[t] = "fin"
    /\ Returns(t, Finish(w))
    /\ Crosses
    /\ UNCHANGED <<mode, peer, bounds, owner, overlap, unsent>>

(* The wait at the end of receive; that of a client's handler.             *)
LastClosed(t) ==
    /\ pc[t] = "lastnet"
    /\ Ends(t, NetForget(w))
    /\ Crosses
    /\ UNCHANGED <<mode, peer, bounds, owner, overlap, unsent>>

ClientClosed(t) ==
    /\ pc[t] = "closing"
    /\ Returned(t, Fire(w, "disconnect"))
    /\ UNCHANGED <<mode, at, peer, bounds, history>>

-----------------------------------------------------------------------------
(* start and retry_connect.  The acceptor listens until its server closes. *)
Begins ==
    LET tries == Fire(w, "initiator_connect_attempt") IN
    IF mode = "acceptor"
      THEN Goes(Main, [w EXCEPT !.server = TRUE, !.running = TRUE], "serving")
      ELSE Goes(Main, tries, "opening")

Start ==
    /\ pc[Main] = "idle" /\ ~w.running
    /\ starts < MaxStarts /\ starts' = starts + 1
    /\ Begins
    /\ crossed' = (crossed \/ Closing)
    /\ unsent' = FALSE
    /\ UNCHANGED <<mode, at, peer, made, calls, owner, overlap>>

WakesUp ==
    /\ pc[Main] = "sleeping" /\ ~w.running
    /\ Begins
    /\ UNCHANGED <<mode, at, peer, bounds, history>>

ServerClosed ==
    /\ pc[Main] = "serving" /\ ~w.server
    /\ Goes(Main, [w EXCEPT !.running = FALSE], "idle")
    /\ UNCHANGED <<mode, at, peer, bounds, history>>

(* A slip: the attempt is not counted.                                     *)
RetryUncounted(v) ==
    CASE v.st # "ACTIVE" /\ v.attempts < MaxRetries ->
           Goes(Main, Fire(v, "initiate_reconnect"), "sleeping")
      [] v.attempts >= MaxRetries -> Goes(Main, Fire(v, "reconnect_failed_max_retries"), "idle")
      [] OTHER -> Goes(Main, v, "idle")

Retry(v) ==
    CASE v.st # "ACTIVE" /\ v.attempts < MaxRetries ->
           Goes(Main, Fire([v EXCEPT !.attempts = @ + 1], "initiate_reconnect"), "sleeping")
      [] v.attempts >= MaxRetries -> Goes(Main, Fire(v, "reconnect_failed_max_retries"), "idle")
      [] OTHER -> Goes(Main, v, "idle")

OpenFails ==
    /\ pc[Main] = "opening"
    /\ Retry(Fire([w EXCEPT !.running = FALSE], "connection_failed"))
    /\ UNCHANGED <<mode, at, peer, bounds, history>>

(* A slip: whatever state is left, start just receives.                    *)
LogsOnOrReceives(v, sent) ==
    Loops(Main, IF v.st = "LOGON_IN_PROGRESS" THEN HbStart(Sends(v, sent)) ELSE v)

(* The connection is there.  logon sends a Logon and starts the heartbeat, *)
(* whatever became of the Logon; or the state that is left from an earlier *)
(* connection makes it disconnect; in DISCONNECTED, the state a disconnect *)
(* has put the engine in meanwhile, start just receives.  A scheduled stop *)
(* is ready at once, and runs before the connection is.                    *)
LogsOn(v, sent) ==
    CASE v.st = "LOGON_IN_PROGRESS" -> Loops(Main, HbStart(Sends(v, sent)))
      [] v.st = "DISCONNECTED"      -> Loops(Main, v)
      [] OTHER                      -> Calls(Main, v, FALSE)

Opened(sent) ==
    LET k == made + 1
        v == Fire([w EXCEPT !.reader = k, !.writer = k, !.open = @ \cup {k}, !.running = TRUE],
                  "connection_established")
    IN  /\ pc[Main] = "opening" /\ ~w.stop
        /\ made < MaxConns /\ made' = k
        /\ peer' = peer \cup {k}
        /\ LogsOn(v, sent)
        /\ unsent' = (v.st = "LOGON_IN_PROGRESS" /\ ~sent)
        /\ crossed' = (crossed \/ w.st = "DISCONNECTED" \/ Closing)
        /\ UNCHANGED <<mode, starts, calls, owner, overlap>>

(* handle_incoming_connection: the client's reader and writer take the     *)
(* place of whatever the engine had.                                       *)
ClientConnects ==
    LET k == made + 1
        v == [w EXCEPT !.reader = k, !.writer = k, !.open = @ \cup {k}, !.running = TRUE]
    IN  /\ w.server
        /\ made < MaxConns /\ made' = k
        /\ peer' = peer \cup {k}
        /\ Loops(k, [Fire(v, "client_accepted_awaiting_logon") EXCEPT !.attempts = 0])
        /\ overlap' = (overlap \/ \E o \in Conns : pc[o] \notin {"idle", "done"})
        /\ crossed' = (crossed \/ Closing)
        /\ UNCHANGED <<mode, starts, calls, owner, unsent>>

-----------------------------------------------------------------------------
(* What a reader returns.                                                  *)
Reads(t) == pc[t] = "reading" /\ at[t] \in peer \cap w.open

(* An acceptor answers the Logon, and then starts its heartbeat.           *)
ReadsLogon(t, sent) ==
    LET v == IF mode = "initiator" THEN Fire(w, "logon_successful")
             ELSE HbStart(Fire(Sends(w, sent), "logon_received_valid"))
    IN  /\ Reads(t) /\ (sent \/ (mode = "acceptor" /\ Writes(w)))
        /\ Loops(t, v)
        /\ owner' = IF v.st = "ACTIVE" /\ w.st # "ACTIVE" THEN at[t] ELSE owner
        /\ UNCHANGED <<mode, peer, bounds, overlap, crossed, unsent>>

(* A Logout goes out, unless one has gone out before.                      *)
SaysLogout(sent) == Sends(Fire(w, "logout_initiated"), sent)

MaySayLogout(sent) == sent \/ (Writes(w) /\ w.st # "LOGOUT_IN_PROGRESS")

(* A Logout is answered and the engine disconnects.                        *)
ReadsLogout(t, sent) ==
    /\ Reads(t) /\ MaySayLogout(sent)
    /\ Calls(t, SaysLogout(sent), FALSE)
    /\ UNCHANGED <<mode, peer, bounds, history>>

(* A message that is refused, for its low number or for want of one: a     *)
(* Logout goes out, and the engine may be DISCONNECTED with its network    *)
(* running.                                                                *)
ReadsBad(t, numbered, sent) ==
    LET out == SaysLogout(sent) IN
    /\ Reads(t) /\ MaySayLogout(sent)
    /\ Loops(t, IF numbered THEN out ELSE Fire(out, "disconnect"))
    /\ UNCHANGED <<mode, peer, bounds, history>>

(* The other sends: of the application, of the heartbeat, of the handlers  *)
(* that answer and return.  Who waits on the connection finds it closed.   *)
SendFails ==
    /\ Writes(w)
    /\ w' = SendLost(w)
    /\ UNCHANGED <<mode, pc, at, peer, bounds, history>>

(* The end of the stream, or a writer that was closed here.                *)
ReadsEnd(t) ==
    /\ pc[t] = "reading" /\ at[t] \notin peer \cap w.open
    /\ Breaks(t, w)
    /\ UNCHANGED <<mode, peer, bounds, history>>

-----------------------------------------------------------------------------
(* The heartbeat task times out.  While it waits for the writer, the stop  *)
(* that on_state_change scheduled cancels it; if it waits for nothing, it  *)
(* stops itself and goes on.                                               *)
HbTimesOut ==
    LET left == Leave(w, FALSE) IN
    /\ w.hb = "run" /\ w.st = "ACTIVE" /\ pc[Hb] = "idle"
    /\ IF NetWaits(left)
         THEN w' = [NetStop(left) EXCEPT !.hb = "net"] /\ UNCHANGED pc
         ELSE Goes(Hb, [NetForget(NetStop(left)) EXCEPT !.hb = "off"], "fin")
    /\ UNCHANGED <<mode, at, peer, bounds, history>>

StopRuns ==
    /\ w.stop
    /\ w' = [HbStop(w) EXCEPT !.stop = FALSE]
    /\ UNCHANGED <<mode, pc, at, peer, bounds, history>>

(* disconnect(graceful), called by the application.                        *)
AppDisconnects(graceful) ==
    /\ pc[App] = "idle"
    /\ calls < MaxCalls /\ calls' = calls + 1
    /\ Calls(App, w, graceful)
    /\ UNCHANGED <<mode, peer, made, starts, history>>

(* The other end closes.                                                   *)
PeerCloses(k) ==
    /\ k \in peer
    /\ peer' = peer \ {k}
    /\ UNCHANGED <<mode, w, pc, at, bounds, history>>

(* What the event loop runs by itself, once it is due.                     *)
Engine ==
    \/ WakesUp \/ ServerClosed \/ OpenFails \/ StopRuns
    \/ \E sent \in BOOLEAN : Opened(sent)
    \/ \E t \in Tasks : WriterClosed(t) \/ Finishes(t) \/ LastClosed(t)
                           \/ ClientClosed(t) \/ ReadsEnd(t)

Environment ==
    \/ Start \/ ClientConnects \/ HbTimesOut \/ SendFails
    \/ \E t \in Tasks, sent \in BOOLEAN :
          ReadsLogon(t, sent) \/ ReadsLogout(t, sent)
             \/ \E numbered \in BOOLEAN : ReadsBad(t, numbered, sent)
    \/ \E graceful \in BOOLEAN : AppDisconnects(graceful)
    \/ \E k \in Conns : PeerCloses(k)

Next == Engine \/ Environment

Spec == Init /\ [][Next]_vars /\ WF_vars(Engine)

-----------------------------------------------------------------------------
(* No second client came beside another one, and no disconnect ended over  *)
(* a connection that was opened after it began.                            *)
Sound == ~overlap /\ ~crossed

(* An ACTIVE session writes to the connection it was logged on over, and   *)
(* that connection is open, whatever connections came before: set_transport *)
(* and connect replace reader and writer without a look at the session.    *)
SessionKeepsItsConnection ==
    Sound /\ w.st = "ACTIVE" /\ w.running => w.writer = owner /\ owner \in w.open

(* "Support for multiple simultaneous FIX sessions"                        *)
(* (docs/phase1-implementation-plan.md:279): one client's session is not   *)
(* moved to another client's connection.  It is when a second one is       *)
(* accepted: the engine has one state, one reader and one writer.          *)
ClientsKeepApart ==
    ~crossed /\ w.st = "ACTIVE" /\ w.running => w.writer = owner

(* Once every task has ended, no connection is open: each of the ways a    *)
(* connection ends - the end of the stream, disconnect by the application, *)
(* by a handler, by the heartbeat - closes the writer.                     *)
Quiet == \A t \in Tasks : pc[t] \in {"idle", "done", "sleeping"}

NothingLeftOpen == ~crossed /\ Quiet => w.open = {}

(* No initiator is DISCONNECTED with its heartbeat running, once what      *)
(* on_state_change scheduled has run: a session takes its heartbeat along, *)
(* whichever task ends it.  Except that logon starts one for a session its *)
(* own Logon could not be sent over, and nothing stops that until start is *)
(* called again.  (An acceptor may be DISCONNECTED with a heartbeat: its   *)
(* disconnect does not close the client's reader, and a Logon read after   *)
(* it starts the heartbeat.)                                               *)
HeartbeatStops ==
    mode = "initiator" /\ ~w.stop /\ w.st = "DISCONNECTED" => ~HbRunning(w) \/ unsent

(* What on_state_change says it does, "Stopping heartbeat task due to      *)
(* disconnect", holds of every DISCONNECTED initiator.  It does not of one *)
(* whose Logon could not be sent: send_message swallows the error, the     *)
(* state is DISCONNECTED, and then logon starts the heartbeat.             *)
NoHeartbeatLeft ==
    mode = "initiator" /\ ~w.stop /\ w.st = "DISCONNECTED" => ~HbRunning(w)

(* retry_connect gives up or start receives: an initiator does not try to  *)
(* connect forever.                                                        *)
StartSettles == (pc[Main] \in {"opening", "sleeping"}) ~> (pc[Main] \in {"idle", "reading"})

=============================================================================
