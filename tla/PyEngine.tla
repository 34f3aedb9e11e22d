------------------------------ MODULE PyEngine ------------------------------
(***************************************************************************)
(* What one engine of the Python package does, as operators from an engine *)
(* to an engine: sending and disconnecting (fixengine/engine.py), the      *)
(* sequence check of every message received, and the handlers behind it    *)
(* (fixengine/message_handler.py).                                         *)
(*                                                                         *)
(* A handler awaits only what does not suspend - the store, and a writer   *)
(* that is not paused - so it runs in one piece on the event loop, which   *)
(* is what an operator is here.  A message carries the fields the code     *)
(* looks at; Bad stands for a number that is missing or not digits.  The   *)
(* engine's field sent collects what a step writes to the connection, told *)
(* what it hands to the application's onMessage; the module that uses the  *)
(* engine takes both away.                                                 *)
(***************************************************************************)
EXTENDS PyStateMachine, PyStore, Sequences, SequencesExt

Bad  == -1
None == 0

Types == {"Logon", "Logout", "Heartbeat", "TestRequest", "ResendRequest",
          "SequenceReset", "Reject", "App", "OtherAdmin", "OtherApp"}

(* The messages the handlers tell apart.  A field that counts is digits or *)
(* Bad; id is a TestReqID, ours that the CompIDs are this session's.       *)
Digits == Nat \cup {Bad}

Messages ==
    [type : Types, seq : Digits, poss : BOOLEAN, reset : BOOLEAN, fill : BOOLEAN,
     new : Digits, begin : Digits, end : Digits, id : Nat, ours : BOOLEAN, hb : BOOLEAN]

(* FixEngine.fixmsg: a message of a type without the fields to be set.     *)
fixmsg(type) ==
    [type |-> type, seq |-> Bad, poss |-> FALSE, reset |-> FALSE, fill |-> FALSE,
     new |-> Bad, begin |-> Bad, end |-> Bad, id |-> None, ours |-> TRUE, hb |-> TRUE]

(* An engine as create leaves it.  net is "up" when the network layer runs *)
(* on a live connection, "broken" when the connection is lost and the      *)
(* layer has not noticed.  gap is the expected number of the outstanding   *)
(* ResendRequest, testId the pending TestRequest, wait the future of       *)
(* request_logoff, buf the messages in incoming_buffer.                    *)
NewEngine(mode, resets, store) ==
    [mode |-> mode, resets |-> resets, st |-> "DISCONNECTED", net |-> "down",
     store |-> Reopened(store), gap |-> None, hb |-> FALSE, testId |-> None,
     wait |-> "none", buf |-> <<>>, sent |-> <<>>, told |-> <<>>]

Expected(e) == e.store.in
NextOut(e)  == e.store.out

(* StateMachine.on_event and the engine's on_state_change.                 *)
On(e, event) ==
    LET s == OnEvent(e.st, event) IN
    IF s = e.st THEN e
    ELSE IF s = "DISCONNECTED" THEN [e EXCEPT !.st = s, !.hb = FALSE, !.buf = <<>>]
    ELSE [e EXCEPT !.st = s]

-----------------------------------------------------------------------------
(* NetworkConnection.disconnect.                                           *)
NetDown(e) == [e EXCEPT !.net = "down"]

(* FixEngine.disconnect without grace, and the end of any disconnect: the  *)
(* network, the heartbeat and the store are closed.                        *)
CloseAll(e) ==
    On([NetDown(e) EXCEPT !.hb = FALSE, !.store = Close(@)], "force_disconnect")

Disconnect(e) ==
    LET cleared == [e EXCEPT !.buf = <<>>] IN
    IF e.st = "DISCONNECTED" /\ e.net = "down" THEN cleared
    ELSE CloseAll(On(cleared, "disconnect"))

(* With grace the state is LOGOUT_IN_PROGRESS before send_logout_message   *)
(* looks at it, which then sends nothing.                                  *)
DisconnectGracefully(e) ==
    IF e.st = "ACTIVE" THEN CloseAll([On(e, "logout_initiated") EXCEPT !.buf = <<>>])
    ELSE Disconnect(e)

-----------------------------------------------------------------------------
(* The number and the counter of a message that went out: a Logon that     *)
(* resets is number 1, whatever the counter says, and 2 comes next.        *)
Resets(m) == m.type = "Logon" /\ m.reset

NumberFor(e, m) ==
    CASE m.seq # Bad -> m.seq
      [] Resets(m)   -> 1
      [] OTHER       -> NextOut(e)

(* A slip: number 1 left to the message after the Logon.                   *)
CountedFromOne(e, m) ==
    LET kept == Keep(e.store, m.seq, m.type) IN
    [e EXCEPT !.store = IF Resets(m) THEN SetOut(kept, 1) ELSE IncrementOut(kept)]

Counted(e, m) ==
    LET kept == Keep(e.store, m.seq, m.type) IN
    [e EXCEPT !.store = IF Resets(m) THEN SetOut(kept, 2) ELSE IncrementOut(kept)]

(* send_message.  Without a running network the message goes nowhere and   *)
(* is stored and counted like any other; on a lost connection the engine   *)
(* disconnects.                                                            *)
Send(e, m) ==
    LET numbered == [m EXCEPT !.seq = NumberFor(e, m)] IN
    CASE e.st = "DISCONNECTED" -> e
      [] e.st # "DISCONNECTED" /\ e.net = "broken" ->
           Disconnect(On(NetDown(e), "disconnect"))
      [] e.st # "DISCONNECTED" /\ e.net = "up" ->
           Counted([e EXCEPT !.sent = Append(@, numbered)], numbered)
      [] OTHER -> Counted(e, numbered)

(* send_reject_message, and send_logout_message.                           *)
SendReject(e) == Send(e, fixmsg("Reject"))

SendLogout(e) ==
    IF e.st \in {"DISCONNECTED", "LOGOUT_IN_PROGRESS"} THEN e
    ELSE Send(On(e, "logout_initiated"), fixmsg("Logout"))

(* logon: the initiator's, once the connection is established.             *)
SendLogon(e) ==
    LET m == [fixmsg("Logon") EXCEPT !.reset = e.resets]
        f == Send(IF e.resets THEN [e EXCEPT !.store = ResetNumbers(@)] ELSE e, m)
    IN  [f EXCEPT !.hb = TRUE]

(* A slip: a Logon in whatever state.                                      *)
LogonAnyway(e) == SendLogon(e)

Logon(e) ==
    IF e.st = "LOGON_IN_PROGRESS" THEN SendLogon(e)
    ELSE IF e.st # "DISCONNECTED" THEN Disconnect(e) ELSE e

-----------------------------------------------------------------------------
(* The handlers of MessageProcessor.  LogonHandler: what the acceptor and  *)
(* the initiator require of a Logon beside valid numbers and CompIDs.      *)
ResetAnswered(e, m) == e.resets /\ m.reset /\ m.seq = 1

LogonAccepted(e, m) ==
    /\ m.seq # Bad /\ m.hb /\ m.ours
    /\ IF e.mode = "acceptor"
         THEN m.seq = IF m.reset THEN 1 ELSE Expected(e)
         ELSE ResetAnswered(e, m) \/ m.seq = Expected(e)

(* The acceptor resets its numbers when asked to, and answers; a Logon     *)
(* that is refused is answered with a Logout.                              *)
HandleLogon(e, m) ==
    LET f == IF m.reset THEN [e EXCEPT !.store = ResetNumbers(@)] ELSE e
        answer == [fixmsg("Logon") EXCEPT !.reset = m.reset]
    IN  CASE ~LogonAccepted(e, m) -> SendLogout(e)
          [] LogonAccepted(e, m) /\ e.mode = "acceptor" ->
               [On(Send(f, answer), "logon_received_valid") EXCEPT !.hb = TRUE]
          [] OTHER -> On(e, "logon_successful")

HandleTestRequest(e, m) ==
    IF m.id = None THEN SendReject(e)
    ELSE Send(e, [fixmsg("Heartbeat") EXCEPT !.id = m.id])

(* The order handlers: application.onMessage gets the message.             *)
HandleApp(e, m) == [e EXCEPT !.told = Append(@, m)]

(* ResendRequestHandler.  from_wire gives nothing back, so a message found *)
(* in the store cannot be prepared for a resend, and every number of the   *)
(* range is answered with a gap fill that takes a new number.              *)
GapFill(n) == [fixmsg("SequenceReset") EXCEPT !.fill = TRUE, !.new = n + 1]

Filled(e, first, count) ==
    LET after[k \in 0 .. count] ==
          IF k = 0 THEN e ELSE Send(after[k - 1], GapFill(first + k - 1))
    IN  after[count]

LastAsked(e, m) == IF m.end = 0 THEN LastOut(e.store) ELSE m.end

HandleResendRequest(e, m) ==
    IF m.begin = Bad \/ m.end = Bad \/ (m.end # 0 /\ m.end < m.begin) THEN SendReject(e)
    ELSE IF LastAsked(e, m) < m.begin THEN e
    ELSE Filled(e, m.begin, LastAsked(e, m) - m.begin + 1)

(* SequenceResetHandler: reset mode moves both counters, and a gap fill    *)
(* that got this far only the incoming one.                                *)
HandleSequenceReset(e, m) ==
    LET both == SetOut(SetIn(e.store, m.new), m.new) IN
    CASE m.new = Bad -> SendReject(e)
      [] m.new # Bad /\ ~m.fill /\ (m.new <= m.seq \/ m.new <= Expected(e)) -> SendReject(e)
      [] m.new # Bad /\ ~m.fill /\ m.new > m.seq /\ m.new > Expected(e) ->
           Send([e EXCEPT !.store = both], fixmsg("Heartbeat"))
      [] m.new # Bad /\ m.fill ->
           IF m.new <= Expected(e) /\ m.new <= m.seq THEN SendReject(e)
           ELSE [e EXCEPT !.store = SetIn(@, m.new)]

(* RejectHandler only informs the application.                             *)
HandleReject(e) == e

(* LogoutHandler, with notify_logoff_received.                             *)
HandleLogout(e) ==
    LET f == Disconnect(SendLogout(e)) IN
    [f EXCEPT !.wait = IF @ = "waiting" THEN "done" ELSE @]

HandleHeartbeat(e, m) ==
    IF m.id = e.testId THEN [e EXCEPT !.testId = None] ELSE e

(* MessageProcessor.process_message for a type without a handler: what     *)
(* looks like an admin type is rejected; the generic onMessage is called   *)
(* without the session id it requires, and the exception costs the rest of *)
(* the buffer.                                                             *)
HandleOther(e, m) ==
    CASE e.st # "ACTIVE" -> e
      [] e.st = "ACTIVE" /\ m.type = "OtherAdmin" -> SendReject(e)
      [] OTHER -> [e EXCEPT !.buf = <<>>]

Process(e, m) ==
    CASE m.type = "Logon"         -> HandleLogon(e, m)
      [] m.type = "TestRequest"   -> HandleTestRequest(e, m)
      [] m.type = "App"           -> HandleApp(e, m)
      [] m.type = "ResendRequest" -> HandleResendRequest(e, m)
      [] m.type = "SequenceReset" -> HandleSequenceReset(e, m)
      [] m.type = "Reject"        -> HandleReject(e)
      [] m.type = "Logout"        -> HandleLogout(e)
      [] m.type = "Heartbeat"     -> HandleHeartbeat(e, m)
      [] OTHER                    -> HandleOther(e, m)

-----------------------------------------------------------------------------
(* process_single_fix_message, branch by branch.                           *)
BadNumber(e) == On(SendLogout(e), "disconnect")

(* A gap fill moves the expected number whatever its own number is, and is *)
(* neither stored nor handed to a handler.                                 *)
Fills(m) == m.type = "SequenceReset" /\ m.fill

FilledTo(e, m) ==
    IF m.new # Bad /\ m.new > Expected(e) THEN [e EXCEPT !.store = SetIn(@, m.new)] ELSE e

ResetLogon(e, m) == HandleLogon([e EXCEPT !.store = SetIn(@, 2)], m)

(* A slip: asks for every message.                                         *)
TooHighAsksAgain(e) ==
    LET ask == [fixmsg("ResendRequest") EXCEPT !.begin = Expected(e), !.end = 0]
    IN  [Send(e, ask) EXCEPT !.gap = Expected(e)]

(* Too high: ask once per expected number and drop the message.            *)
TooHigh(e) ==
    IF e.gap = Expected(e) THEN e
    ELSE LET ask == [fixmsg("ResendRequest") EXCEPT !.begin = Expected(e), !.end = 0]
         IN  [Send(e, ask) EXCEPT !.gap = Expected(e)]

(* Slips: counts nothing; counts a message that a handler answers twice.   *)
TakenUncounted(e, m) ==
    Process(IF m.seq = Expected(e) THEN [e EXCEPT !.gap = None] ELSE e, m)

TakenTwice(e, m) ==
    LET f == IF m.seq = Expected(e) THEN [e EXCEPT !.gap = None] ELSE e
        counted == [f EXCEPT !.store = IncrementIn(@)]
    IN  Process(CASE m.type \in {"Logon", "Logout", "SequenceReset"} -> f
                  [] m.type = "TestRequest" -> [counted EXCEPT !.store = IncrementIn(@)]
                  [] OTHER -> counted, m)

(* In sequence, or lower and marked PossDup, which counts as well.         *)
Taken(e, m) ==
    LET f == IF m.seq = Expected(e) THEN [e EXCEPT !.gap = None] ELSE e IN
    Process(IF m.type \in {"Logon", "Logout", "SequenceReset"} THEN f
            ELSE [f EXCEPT !.store = IncrementIn(@)], m)

ProcessSingle(e, m) ==
    CASE m.seq = Bad -> BadNumber(e)
      [] m.seq # Bad /\ Fills(m) -> FilledTo(e, m)
      [] m.seq # Bad /\ m.type = "Logon" /\ m.reset -> ResetLogon(e, m)
      [] OTHER ->
           CASE m.seq > Expected(e)             -> TooHigh(e)
             [] m.seq < Expected(e) /\ ~m.poss -> SendLogout(e)
             [] OTHER                           -> Taken(e, m)

(* on_network_data takes the next message off the buffer; what is left of  *)
(* the buffer goes when a step clears it.                                  *)
ProcessNext(e) ==
    LET m == Head(e.buf)
        f == ProcessSingle(e, m)
    IN  [f EXCEPT !.buf = IF @ = <<>> THEN @ ELSE Tail(@)]

-----------------------------------------------------------------------------
(* What the tasks around the handlers do.  start: the initiator connects   *)
(* and logs on, or is refused; a state that is left over from a connection *)
(* that ended makes logon disconnect.                                      *)
Connected(e) ==
    Logon(On([On([e EXCEPT !.buf = <<>>], "initiator_connect_attempt") EXCEPT !.net = "up"],
             "connection_established"))

Refused(e) ==
    On(On([e EXCEPT !.buf = <<>>], "initiator_connect_attempt"), "connection_failed")

(* handle_incoming_connection, up to the receive loop.                     *)
Accepted(e) == On([e EXCEPT !.buf = <<>>, !.net = "up"], "client_accepted_awaiting_logon")

(* The receive loop ends: the network goes down.  The acceptor's state     *)
(* follows, the initiator's stays as it is.                                *)
ReceiveEnded(e) == IF e.mode = "acceptor" THEN On(NetDown(e), "disconnect") ELSE NetDown(e)

(* _run_heartbeat_logic in an ACTIVE session: a Heartbeat, which repeats   *)
(* the pending id; a TestRequest when none is pending; the timeout.        *)
HeartbeatDue(e) == Send(e, [fixmsg("Heartbeat") EXCEPT !.id = e.testId])

TestRequestDue(e, id) ==
    [Send(e, [fixmsg("TestRequest") EXCEPT !.id = id]) EXCEPT !.testId = id]

(* While an initiator that times out waits for its writer to close, the    *)
(* stop that on_state_change asked for cancels the heartbeat task and with *)
(* it the disconnect that task is running: the store stays open.           *)
HeartbeatTimeout(e) ==
    IF e.mode = "initiator" /\ e.net = "up" THEN On(NetDown(e), "disconnect")
    ELSE Disconnect(e)

(* request_logoff, and the disconnect it ends with: the answer has come or *)
(* the wait has timed out.                                                 *)
RequestLogoff(e) == SendLogout([e EXCEPT !.wait = "waiting"])
LogoffOver(e) == Disconnect([e EXCEPT !.wait = "none"])

AppSend(e, id) == Send(e, [fixmsg("App") EXCEPT !.id = id])
=============================================================================
