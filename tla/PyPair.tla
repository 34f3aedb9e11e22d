------------------------------- MODULE PyPair -------------------------------
(***************************************************************************)
(* Two engines of the Python package against each other: an initiator and  *)
(* an acceptor, each a PyEngine on its own store, joined by a connection   *)
(* that delivers in order what both its ends let through.  Either process  *)
(* may be killed and created again on its database, the connection may     *)
(* break, the application sends, logs off and disconnects.                 *)
(***************************************************************************)
EXTENDS PyEngine, FiniteSets

I == "initiator"
A == "acceptor"
Sides == {I, A}
Other(s) == IF s = I THEN A ELSE I

CONSTANTS
    ResetsOn,  \* reset_seq_num_on_logon of the initiator: the values to try
    MaxSeq,    \* bound: numbers either side sends
    MaxConns,  \* bound: connections
    MaxStarts, \* bound: processes after the first two
    MaxTimers, \* bound: heartbeats, TestRequests and the application's calls
    MaxBreaks  \* bound: broken connections

ASSUME PyPairAssumption ==
    /\ ResetsOn \subseteq BOOLEAN
    /\ MaxSeq \in Nat /\ MaxConns \in Nat /\ MaxStarts \in Nat
    /\ MaxTimers \in Nat /\ MaxBreaks \in Nat

VARIABLES
    eng,       \* the engine of each side
    reading,   \* its receive loop: "off", "wait" in reader.read, or "busy"
    chan,      \* messages on their way to each side
    socket,    \* each side's end of the connection is open
    listening, \* the acceptor's server
    conns, starts, timers, breaks

link   == <<reading, chan, socket, listening>>
bounds == <<conns, starts, timers, breaks>>
vars   == <<eng, link, bounds>>

Init ==
    /\ \E r \in ResetsOn : eng = [s \in Sides |-> NewEngine(s, s = I /\ r, NewStore)]
    /\ reading = [s \in Sides |-> "off"]
    /\ chan = [s \in Sides |-> <<>>]
    /\ socket = [s \in Sides |-> FALSE]
    /\ listening = FALSE
    /\ conns = 0 /\ starts = 0 /\ timers = 0 /\ breaks = 0

(* Side s goes on as f.  What it sent is on the way if both ends are open; *)
(* the initiator's disconnect closes its socket, the acceptor's its server *)
(* (the socket is left to the handler of the connection).                  *)
Becomes(s, f) ==
    /\ NextOut(f) <= MaxSeq + 1
    /\ eng' = [eng EXCEPT ![s] = [f EXCEPT !.sent = <<>>, !.told = <<>>]]
    /\ chan' = IF socket[Other(s)]
                 THEN [chan EXCEPT ![Other(s)] = @ \o f.sent] ELSE chan
    /\ socket' = IF s = I /\ f.net = "down" THEN [socket EXCEPT ![I] = FALSE] ELSE socket
    /\ listening' = (listening /\ ~(s = A /\ f.net = "down" /\ eng[A].net # "down"))

-----------------------------------------------------------------------------
(* start of the acceptor, and of the initiator: refused, or connected and  *)
(* logged on with the acceptor's handler waiting.                          *)
Listens ==
    /\ ~listening /\ reading[A] = "off"
    /\ conns < MaxConns
    /\ listening' = TRUE
    /\ UNCHANGED <<eng, reading, chan, socket, bounds>>

StartsFrom == eng[I].net = "down" /\ reading[I] = "off" /\ conns < MaxConns

IsRefused ==
    /\ StartsFrom /\ ~listening
    /\ conns' = conns + 1
    /\ Becomes(I, Refused(eng[I]))
    /\ UNCHANGED <<reading, starts, timers, breaks>>

Connects ==
    LET f == Connected(eng[I])
        g == Accepted(eng[A])
    IN  /\ StartsFrom /\ listening /\ reading[A] = "off"
        /\ conns' = conns + 1
        /\ NextOut(f) <= MaxSeq + 1
        /\ eng' = [eng EXCEPT ![I] = [f EXCEPT !.sent = <<>>], ![A] = g]
        /\ chan' = [chan EXCEPT ![A] = f.sent, ![I] = <<>>]
        /\ socket' = [socket EXCEPT ![I] = f.net = "up", ![A] = TRUE]
        /\ reading' = [reading EXCEPT ![I] = IF f.net = "up" THEN "wait" ELSE "off",
                                      ![A] = "wait"]
        /\ UNCHANGED <<listening, starts, timers, breaks>>

-----------------------------------------------------------------------------
(* The receive loop: what has arrived is read, its messages are processed  *)
(* one after the other, and the loop reads again or ends.                  *)
Reads(s) ==
    /\ reading[s] = "wait" /\ chan[s] # <<>> /\ socket[s]
    /\ \E k \in 1 .. Len(chan[s]) :
         /\ eng' = [eng EXCEPT ![s].buf = @ \o SubSeq(chan[s], 1, k)]
         /\ chan' = [chan EXCEPT ![s] = SubSeq(@, k + 1, Len(@))]
    /\ reading' = [reading EXCEPT ![s] = "busy"]
    /\ UNCHANGED <<socket, listening, bounds>>

Processes(s) ==
    /\ reading[s] = "busy" /\ eng[s].buf # <<>>
    /\ Becomes(s, ProcessNext(eng[s]))
    /\ UNCHANGED <<reading, bounds>>

ReadsAgain(s) ==
    /\ reading[s] = "busy" /\ eng[s].buf = <<>> /\ eng[s].net # "down"
    /\ reading' = [reading EXCEPT ![s] = "wait"]
    /\ UNCHANGED <<eng, chan, socket, listening, bounds>>

(* The network was taken down, the other end has closed, or the connection *)
(* is lost.  The acceptor's handler closes its socket behind the loop.     *)
ReadEnds(s) ==
    /\ \/ reading[s] = "busy" /\ eng[s].buf = <<>> /\ eng[s].net = "down"
       \/ reading[s] = "wait" /\ (~socket[s] \/ eng[s].net = "broken")
       \/ reading[s] = "wait" /\ chan[s] = <<>> /\ ~socket[Other(s)]
    /\ NextOut(eng[s]) <= MaxSeq + 1
    /\ eng' = [eng EXCEPT ![s] = ReceiveEnded(@)]
    /\ reading' = [reading EXCEPT ![s] = "off"]
    /\ socket' = [socket EXCEPT ![s] = FALSE]
    /\ listening' = (listening /\ (s = I \/ eng[A].net = "down"))
    /\ UNCHANGED <<chan, bounds>>

(* The connection is lost with what was on its way.                        *)
Breaks ==
    /\ breaks < MaxBreaks /\ breaks' = breaks + 1
    /\ \E s \in Sides : eng[s].net = "up"
    /\ eng' = [s \in Sides |-> IF eng[s].net = "up" THEN [eng[s] EXCEPT !.net = "broken"]
                               ELSE eng[s]]
    /\ chan' = [s \in Sides |-> <<>>]
    /\ UNCHANGED <<reading, socket, listening, conns, starts, timers>>

-----------------------------------------------------------------------------
(* Timers, the application, and a process that is killed and created again *)
(* on its database.                                                        *)
Timer(s, f) ==
    /\ timers < MaxTimers /\ timers' = timers + 1
    /\ Becomes(s, f)
    /\ UNCHANGED <<reading, conns, starts, breaks>>

Beats(s)     == eng[s].hb /\ eng[s].st = "ACTIVE"
Heartbeat(s) == Beats(s) /\ Timer(s, HeartbeatDue(eng[s]))
Probes(s)    == Beats(s) /\ eng[s].testId = None /\ Timer(s, TestRequestDue(eng[s], 1))
TimesOut(s)  == Beats(s) /\ Timer(s, HeartbeatTimeout(eng[s]))

Sends(s) ==
    /\ eng[s].st = "ACTIVE"
    /\ Timer(s, AppSend(eng[s], 1))

AsksToLogOff(s) ==
    /\ eng[s].st \in {"ACTIVE", "LOGOUT_IN_PROGRESS"} /\ eng[s].wait = "none"
    /\ Timer(s, RequestLogoff(eng[s]))

LoggedOff(s) ==
    /\ eng[s].wait # "none"
    /\ UNCHANGED <<reading, bounds>>
    /\ Becomes(s, LogoffOver(eng[s]))

Disconnects(s) ==
    /\ eng[s].st # "DISCONNECTED"
    /\ Timer(s, DisconnectGracefully(eng[s]))

Restarts(s) ==
    LET f == NewEngine(s, eng[s].resets, eng[s].store) IN
    /\ starts < MaxStarts /\ starts' = starts + 1
    /\ eng' = [eng EXCEPT ![s] = f]
    /\ reading' = [reading EXCEPT ![s] = "off"]
    /\ chan' = [chan EXCEPT ![s] = <<>>]
    /\ socket' = [socket EXCEPT ![s] = FALSE]
    /\ listening' = (listening /\ s = I)
    /\ UNCHANGED <<conns, timers, breaks>>

Next ==
    \/ Listens \/ IsRefused \/ Connects
    \/ \E s \in Sides :
         \/ Reads(s) \/ Processes(s) \/ ReadsAgain(s) \/ ReadEnds(s)
         \/ Heartbeat(s) \/ Probes(s) \/ TimesOut(s)
         \/ Sends(s) \/ AsksToLogOff(s) \/ LoggedOff(s) \/ Disconnects(s)
         \/ Restarts(s)
    \/ Breaks

Spec == Init /\ [][Next]_vars

-----------------------------------------------------------------------------
Established == \A s \in Sides : eng[s].st = "ACTIVE" /\ eng[s].net = "up"

(* However Logons, resets, gap fills, losses and restarts follow each      *)
(* other, in an established session neither side expects a number beyond   *)
(* the other's next: what the other sends next is never taken for a        *)
(* message sent before.                                                    *)
NotAhead ==
    Established => \A s \in Sides : Expected(eng[s]) <= NextOut(eng[Other(s)])

(* While both ends are open the initiator is never ACTIVE with an acceptor *)
(* that still waits for its Logon, or that has refused it and waits on.    *)
NoOneSidedLogon ==
    (eng[I].st = "ACTIVE" /\ eng[I].net = "up" /\ eng[A].net = "up")
        => eng[A].st # "AWAITING_LOGON"

(* "Both sides reset their sequence numbers to 1 and proceed with the      *)
(* session" (fix_session_logic.md:142), and the engine and handlers "are   *)
(* robust to out-of-order, duplicate, and gap-fill scenarios" (:164): once *)
(* nothing is under way in an established session, each side expects the   *)
(* number that comes next.  The Logon is not counted when it arrives, so   *)
(* the first message after it is too high and dropped.                     *)
InStep ==
    (Established /\ \A s \in Sides : chan[s] = <<>> /\ reading[s] = "wait")
        => \A s \in Sides : Expected(eng[s]) = NextOut(eng[Other(s)])
=============================================================================
