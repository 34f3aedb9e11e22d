------------------------------- MODULE PyPeer -------------------------------
(***************************************************************************)
(* One engine of the Python package against a peer that may send anything, *)
(* in one read or in several: out of sequence, marked PossDup, filled,     *)
(* reset, malformed or of a type nobody handles.  Connections come and go, *)
(* break unnoticed and are replaced, and the process may be restarted.     *)
(* The peer is external; everything the engine does is module PyEngine.    *)
(***************************************************************************)
EXTENDS PyEngine, FiniteSets

CONSTANTS
    Configs,   \* mode and reset_seq_num_on_logon of the engine
    Inputs,    \* the messages the peer sends
    Followers, \* those that come second in a read
    MaxSeq,    \* bound: numbers sent
    MaxReads,  \* bound: messages read
    MaxConns,  \* bound: connections
    MaxStarts, \* bound: processes after the first
    MaxTimers  \* bound: what timers and the application send

ASSUME PyPeerAssumption ==
    /\ Configs \subseteq {"initiator", "acceptor"} \X BOOLEAN
    /\ Followers \subseteq Inputs
    /\ Inputs \subseteq Messages
    /\ MaxSeq \in Nat /\ MaxReads \in Nat /\ MaxConns \in Nat
    /\ MaxStarts \in Nat /\ MaxTimers \in Nat

VARIABLES
    eng,       \* the engine; sent and told hold what the last step did
    reading,   \* "off", "wait" in reader.read, "busy" with what it returned
    reads, conns, starts, timers,
    anew,      \* history: the last step began a numbering
    top,       \* history: the last number handed to onMessage unmarked
    got,       \* history: numbers received when expected
    excused,   \* history: a PossDup was counted, a SequenceReset obeyed, or
               \* a process restarted with other counters than the last had
    lastSent,  \* history: the last number sent
    loggedOn,  \* history: a Logon was accepted on this connection
    asked,     \* history: ResendRequests for the expected number, which has
               \* not arrived since
    dropped,   \* history: meanwhile a higher number was dropped
    stale      \* history: a request was outstanding when a connection or a
               \* numbering began

bounds  == <<reads, conns, starts, timers>>
history == <<anew, top, got, excused, lastSent, loggedOn, asked, dropped, stale>>
vars == <<eng, reading, bounds, history>>

Init ==
    /\ \E c \in Configs : eng = NewEngine(c[1], c[2], NewStore)
    /\ reading = "off"
    /\ reads = 0 /\ conns = 0 /\ starts = 0 /\ timers = 0
    /\ anew = FALSE /\ top = 0 /\ got = {} /\ excused = FALSE /\ lastSent = 0
    /\ loggedOn = FALSE /\ asked = 0 /\ dropped = FALSE /\ stale = FALSE

(* The engine before a step: nothing sent, nothing handed up yet.          *)
Idle == [eng EXCEPT !.sent = <<>>, !.told = <<>>]

-----------------------------------------------------------------------------
(* What a step that leads to f does to the record of what happened.        *)
Unmarked(msgs) == {msgs[i].seq : i \in {j \in DOMAIN msgs : ~msgs[j].poss}}

Asks(f) == Cardinality({i \in DOMAIN f.sent :
                          f.sent[i].type = "ResendRequest" /\ f.sent[i].begin = Expected(f)})

Moved(f) == Expected(f) # Expected(eng)

Remember(f, begins, arrived, high) ==
    LET up == Unmarked(f.told)
        same == ~Moved(f) /\ ~begins /\ ~arrived
    IN  /\ anew' = begins
        /\ top' = IF up # {} THEN Max(up) ELSE IF begins THEN 0 ELSE top
        /\ lastSent' = IF f.sent # <<>> THEN Last(f.sent).seq
                       ELSE IF begins THEN 0 ELSE lastSent
        /\ asked' = (IF same THEN asked ELSE 0) + Asks(f)
        /\ dropped' = (high \/ (dropped /\ same))
        /\ eng' = f

(* A step of the engine's own, not on a message.                           *)
Own(f, begins) ==
    /\ NextOut(f) <= MaxSeq + 1
    /\ Remember(f, begins, f.gap = None, FALSE)
    /\ got' = {n \in got : n < Expected(f)}
    /\ excused' = (excused /\ Expected(f) > 1)

-----------------------------------------------------------------------------
(* start of an initiator; a numbering begins with a Logon that resets.     *)
ConnectOrRefused(up) ==
    /\ eng.mode = "initiator" /\ eng.net = "down" /\ reading = "off"
    /\ conns < MaxConns /\ conns' = conns + 1
    /\ LET f == IF up THEN Connected(Idle) ELSE Refused(Idle) IN
       /\ Own(f, f.sent # <<>> /\ Resets(Last(f.sent)))
       /\ reading' = IF up /\ f.net = "up" THEN "wait" ELSE "off"
    /\ loggedOn' = FALSE
    /\ stale' = (stale \/ eng.gap # None)
    /\ UNCHANGED <<reads, starts, timers>>

(* start_accepting, and the connection of a client.                        *)
ClientConnects ==
    /\ eng.mode = "acceptor" /\ reading = "off"
    /\ conns < MaxConns /\ conns' = conns + 1
    /\ Own(Accepted(Idle), FALSE)
    /\ reading' = "wait"
    /\ loggedOn' = FALSE
    /\ stale' = (stale \/ eng.gap # None)
    /\ UNCHANGED <<reads, starts, timers>>

(* reader.read returns one message, or two at once.                        *)
Read(msgs) ==
    /\ reading = "wait" /\ eng.net # "down"
    /\ reads + Len(msgs) <= MaxReads /\ reads' = reads + Len(msgs)
    /\ reading' = "busy"
    /\ eng' = [Idle EXCEPT !.buf = @ \o msgs]
    /\ anew' = FALSE
    /\ UNCHANGED <<conns, starts, timers, top, got, excused, lastSent, loggedOn, asked,
                   dropped, stale>>

(* The next message of the buffer.                                         *)
ObeysReset(m, f) ==
    m.type = "SequenceReset" /\ ~m.fill /\ Moved(f)

BeginsNumbering(m, f) ==
    \/ m.type = "Logon" /\ m.reset /\ m.seq # Bad
    \/ ObeysReset(m, f)

ProcessMessage ==
    LET m == Head(eng.buf)
        f == ProcessNext(Idle)
        begins == BeginsNumbering(m, f)
        expected == m.seq = Expected(eng) /\ ~Fills(m)
        high == m.seq > Expected(eng) /\ ~begins /\ ~Fills(m) /\ f.st # "DISCONNECTED"
    IN  /\ reading = "busy" /\ eng.buf # <<>>
        /\ NextOut(f) <= MaxSeq + 1
        /\ Remember(f, begins, expected, high)
        /\ got' = (IF begins THEN {} ELSE got)
                  \cup (IF expected \/ begins THEN {m.seq} ELSE {})
        /\ excused' = \/ excused /\ ~(m.type = "Logon" /\ begins)
                      \/ Moved(f) /\ (m.poss \/ m.type = "SequenceReset")
        /\ loggedOn' = (loggedOn \/ (m.type = "Logon" /\ f.st = "ACTIVE"))
        /\ stale' = (stale \/ (begins /\ eng.gap # None))
        /\ UNCHANGED <<reading, bounds>>

(* The loop is back at reader.read, or ends because the network is down,   *)
(* the peer has closed, or the connection is lost.                         *)
ReadAgain ==
    /\ reading = "busy" /\ eng.buf = <<>> /\ eng.net # "down"
    /\ reading' = "wait"
    /\ Own(Idle, FALSE)
    /\ UNCHANGED <<bounds, loggedOn, stale>>

ReadEnds ==
    /\ \/ reading = "wait"
       \/ reading = "busy" /\ eng.buf = <<>> /\ eng.net = "down"
    /\ Own(ReceiveEnded(Idle), FALSE)
    /\ reading' = "off"
    /\ UNCHANGED <<bounds, loggedOn, stale>>

ConnectionBreaks ==
    /\ eng.net = "up"
    /\ Own([Idle EXCEPT !.net = "broken"], FALSE)
    /\ UNCHANGED <<reading, bounds, loggedOn, stale>>

-----------------------------------------------------------------------------
(* The heartbeat task, the application and the operator.                   *)
Timer(f) ==
    /\ timers < MaxTimers /\ timers' = timers + 1
    /\ Own(f, FALSE)
    /\ UNCHANGED <<reading, reads, conns, starts, loggedOn, stale>>

HeartbeatRuns == eng.hb /\ eng.st = "ACTIVE"

Heartbeat       == HeartbeatRuns /\ Timer(HeartbeatDue(Idle))
TestRequest     == HeartbeatRuns /\ eng.testId = None /\ Timer(TestRequestDue(Idle, 1))
TimesOut        == HeartbeatRuns /\ Timer(HeartbeatTimeout(Idle))
Sends           == Timer(AppSend(Idle, None))
AsksToLogOff    == eng.st \in {"ACTIVE", "LOGOUT_IN_PROGRESS"} /\ eng.wait = "none"
                   /\ Timer(RequestLogoff(Idle))
Disconnects(g)  == Timer(IF g THEN DisconnectGracefully(Idle) ELSE Disconnect(Idle))

LoggedOff ==
    /\ eng.wait # "none"
    /\ Own(LogoffOver(Idle), FALSE)
    /\ UNCHANGED <<reading, bounds, loggedOn, stale>>

(* The process ends and another one is created on the same database.  It   *)
(* begins a numbering when the counters were no longer being saved.        *)
Restart ==
    LET f == NewEngine(eng.mode, eng.resets, eng.store)
        lost == Moved(f) \/ NextOut(f) # NextOut(eng)
    IN  /\ starts < MaxStarts /\ starts' = starts + 1
        /\ Remember(f, lost, TRUE, FALSE)
        /\ got' = {n \in got : n < Expected(f)}
        /\ excused' = (lost \/ excused)
        /\ reading' = "off"
        /\ loggedOn' = FALSE
        /\ UNCHANGED <<reads, conns, timers, stale>>

Next ==
    \/ \E up \in BOOLEAN : ConnectOrRefused(up)
    \/ ClientConnects
    \/ \E m \in Inputs : Read(<<m>>) \/ \E n \in Followers : Read(<<m, n>>)
    \/ ProcessMessage \/ ReadAgain \/ ReadEnds \/ ConnectionBreaks
    \/ Heartbeat \/ TestRequest \/ TimesOut \/ Sends \/ AsksToLogOff \/ LoggedOff
    \/ \E g \in BOOLEAN : Disconnects(g)
    \/ Restart

Spec == Init /\ [][Next]_vars

-----------------------------------------------------------------------------
(* A message that is not marked PossDup is handed to the application at    *)
(* most once and in the order of its number, across reads and connections, *)
(* until a numbering begins anew.                                          *)
HandedUpInOrder ==
    [][~anew' => \A n \in Unmarked(eng'.told) : n > top]_vars

(* Every number below the expected one was received in its turn, unless    *)
(* process_single_fix_message counted a PossDup like a new message, a      *)
(* SequenceReset passed numbers over, or counters that were no longer      *)
(* saved were lost with the process.                                       *)
NothingSkipped == excused \/ \A n \in 2 .. Expected(eng) - 1 : n \in got

(* The engine is "robust to out-of-order, duplicate" messages              *)
(* (fix_session_logic.md:164): with no reset, fill or restart, only what   *)
(* was received in its turn is counted.  A duplicate marked PossDup is     *)
(* counted like a new message, and the next new one is then too low.       *)
EachNumberReceived == \A n \in 2 .. Expected(eng) - 1 : n \in got

(* Numbers go out in increasing order, on whatever connection, until a     *)
(* numbering begins anew.                                                  *)
SentInOrder ==
    [][~anew' => \A i \in DOMAIN eng'.sent :
                   eng'.sent[i].seq > IF i = 1 THEN lastSent ELSE eng'.sent[i - 1].seq]_vars

(* The state ACTIVE with a live network means that a Logon was accepted on *)
(* this very connection: a state left over from an earlier one does not    *)
(* carry over.                                                             *)
LiveMeansLoggedOn == eng.st = "ACTIVE" /\ eng.net = "up" => loggedOn

(* A gap is asked about once, and a message that shows one is not dropped  *)
(* without; a request left over from an earlier connection or numbering is *)
(* taken for an answerable one.                                            *)
GapAskedOnce == asked <= 1 /\ (dropped => asked = 1 \/ stale)

(* "Gap detection and recovery" (prd.md:51): a message that shows a gap is *)
(* not dropped unless the gap was asked about.  It is when a request for   *)
(* the same number was outstanding as the last connection ended or a Logon *)
(* reset the numbers: nothing clears the note, and nobody asks again.      *)
GapsAreAsked == dropped => asked >= 1
=============================================================================
