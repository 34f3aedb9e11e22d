--------------------------- MODULE EngineLifecycle ---------------------------
(***************************************************************************)
(* How a FixEngine takes a session up and down (engine/engine.go Connect,  *)
(* Close, startReconnectLoop; engine/attach.go; the goroutines of          *)
(* engine/heartbeat_monitor.go and heartbeat/heartbeat.go).                *)
(*                                                                         *)
(* attachMu is held by AttachSession and by DetachSession from end to end, *)
(* waits included, and for an instant by every SendMessage.  A session is  *)
(* what module Session shows of it: a flag closed, a readLoop that runs    *)
(* handlers and exits once the connection is gone, one OnClose.            *)
(***************************************************************************)
EXTENDS Naturals, FiniteSets

CONSTANTS
    Users,            \* goroutines that call Connect and Close
    MaxSessions,      \* bound: connections that are ever established
    MaxCalls,         \* bound: Connect and Close calls
    EnableReconnect,  \* enableReconnect with an Initiator configured
    Chatty,           \* who calls SendMessage: "monitor", "handler", "heartbeat"
    NoOne

Ids == 1 .. MaxSessions
Nil == 0

(* The OnClose goroutine and the reconnect loop it may start are named by  *)
(* the session that closed.                                                *)
Detachers == Users \cup Ids

ASSUME LifecycleAssumption ==
    /\ MaxSessions \in Nat
    /\ MaxCalls \in Nat
    /\ EnableReconnect \in BOOLEAN
    /\ Chatty \subseteq {"monitor", "handler", "heartbeat"}
    /\ Users \cap Ids = {}
    /\ NoOne \notin Detachers

VARIABLES
    attachMu,    \* who holds FixEngine.attachMu
    session,     \* FixEngine.Session
    conn,        \* FixEngine.Conn, named by the session made on it
    dialled,     \* connections established so far
    calls,       \* Connect and Close calls so far
    pc,          \* users and OnClose goroutines
    loop,        \* the reconnect loop started by an OnClose goroutine
    mine,        \* the session a Connect or a reconnect loop is attaching
    reconnectCtx,\* FixEngine.reconnectCtx # nil
    closed,      \* Session.closed
    broken,      \* the connection is closed at either end
    notified,    \* Session.onCloseCalled
    reader,      \* the readLoop of each session
    monitor,     \* the HeartbeatMonitor goroutine
    monStopping, \* the session the monitor is stopping
    monCancelled,\* HeartbeatMonitor.cancel has run
    beat,        \* the heartbeat sender's goroutine
    beatCancelled,
    connects,    \* history: Connect calls that attached a session
    skipped      \* history: an OnClose goroutine found a reconnect loop running

sessVars == <<closed, broken, notified, reader>>
tickVars == <<monitor, monStopping, monCancelled, beat, beatCancelled>>
history  == <<connects, skipped>>
vars == <<attachMu, session, conn, dialled, calls, pc, loop, mine, reconnectCtx,
          sessVars, tickVars, history>>

Stages == {"idle", "attach", "lock", "monWait", "sessWait", "closeConn", "decide", "done"}

TypeOK ==
    /\ attachMu \in Detachers \cup {NoOne}
    /\ session \in Ids \cup {Nil}
    /\ conn \in Ids \cup {Nil}
    /\ dialled \in 0 .. MaxSessions
    /\ calls \in 0 .. MaxCalls
    /\ pc \in [Detachers -> Stages]
    /\ loop \in [Ids -> {"none", "dial", "attach", "reset", "done"}]
    /\ mine \in [Detachers -> Ids \cup {Nil}]
    /\ reconnectCtx \in BOOLEAN
    /\ closed \in [Ids -> BOOLEAN]
    /\ broken \in [Ids -> BOOLEAN]
    /\ notified \in [Ids -> BOOLEAN]
    /\ reader \in [Ids -> {"none", "read", "reply", "exited"}]
    /\ monitor \in {"unstarted", "idle", "send", "stop", "exited"}
    /\ monStopping \in IF monitor = "stop" THEN Ids ELSE {Nil}
    /\ monCancelled \in BOOLEAN
    /\ beat \in {"unstarted", "idle", "send", "exited"}
    /\ beatCancelled \in BOOLEAN
    /\ connects \in Nat
    /\ skipped \in BOOLEAN

Init ==
    /\ attachMu = NoOne
    /\ session = Nil
    /\ conn = Nil
    /\ dialled = 0
    /\ calls = 0
    /\ pc = [t \in Detachers |-> "idle"]
    /\ loop = [i \in Ids |-> "none"]
    /\ mine = [t \in Detachers |-> Nil]
    /\ reconnectCtx = FALSE
    /\ closed = [i \in Ids |-> FALSE]
    /\ broken = [i \in Ids |-> FALSE]
    /\ notified = [i \in Ids |-> FALSE]
    /\ reader = [i \in Ids |-> "none"]
    /\ monitor = "unstarted" /\ monStopping = Nil /\ monCancelled = FALSE
    /\ beat = "unstarted" /\ beatCancelled = FALSE
    /\ connects = 0
    /\ skipped = FALSE

Goto(t, from, to) ==
    /\ pc[t] = from
    /\ pc' = [pc EXCEPT ![t] = to]

-----------------------------------------------------------------------------
(* Connect and the reconnect loop: dial, set e.Conn, AttachSession.        *)
Dial(t) ==
    /\ dialled < MaxSessions
    /\ dialled' = dialled + 1
    /\ conn' = dialled + 1
    /\ mine' = [mine EXCEPT ![t] = dialled + 1]

(* AttachSession, in one critical section.  The monitor starts only if its *)
(* ctx was never set, the heartbeat sender only if it was never made; a    *)
(* session that is still attached is overwritten.                          *)
AttachSession(t) ==
    /\ attachMu = NoOne
    /\ session' = mine[t]
    /\ reader' = [reader EXCEPT ![mine[t]] = "read"]
    /\ monitor' = IF monitor = "unstarted" THEN "idle" ELSE monitor
    /\ beat' = IF beat = "unstarted" THEN "idle" ELSE beat
    /\ UNCHANGED <<attachMu, conn, dialled, mine, closed, broken, notified,
                   monStopping, monCancelled, beatCancelled>>

(* A dial that fails returns an error and changes nothing.                 *)
ConnectDial(u) ==
    /\ calls < MaxCalls
    /\ calls' = calls + 1
    /\ Goto(u, "idle", "attach")
    /\ Dial(u)
    /\ UNCHANGED <<attachMu, session, loop, reconnectCtx, sessVars, tickVars, history>>

ConnectAttach(u) ==
    /\ Goto(u, "attach", "idle")
    /\ AttachSession(u)
    /\ connects' = connects + 1
    /\ UNCHANGED <<calls, loop, reconnectCtx, skipped>>

(* A slip: a loop that gives up when a dial fails.                         *)
LoopDialOnce(i) ==
    /\ loop[i] = "dial"
    /\ \/ Dial(i) /\ loop' = [loop EXCEPT ![i] = "attach"]
       \/ UNCHANGED <<dialled, conn, mine>> /\ loop' = [loop EXCEPT ![i] = "done"]
    /\ UNCHANGED <<attachMu, session, calls, pc, reconnectCtx, sessVars, tickVars, history>>

(* The loop keeps dialling; a failed dial waits and tries again.           *)
LoopDial(i) ==
    /\ loop[i] = "dial"
    /\ loop' = [loop EXCEPT ![i] = "attach"]
    /\ Dial(i)
    /\ UNCHANGED <<attachMu, session, calls, pc, reconnectCtx, sessVars, tickVars, history>>

LoopAttach(i) ==
    /\ loop[i] = "attach"
    /\ loop' = [loop EXCEPT ![i] = "reset"]
    /\ AttachSession(i)
    /\ UNCHANGED <<calls, pc, reconnectCtx, history>>

(* Only after the attach does the loop clear reconnectCtx and return.      *)
LoopReset(i) ==
    /\ loop[i] = "reset"
    /\ loop' = [loop EXCEPT ![i] = "done"]
    /\ reconnectCtx' = FALSE
    /\ UNCHANGED <<attachMu, session, conn, dialled, calls, pc, mine, sessVars, tickVars,
                   history>>

-----------------------------------------------------------------------------
(* DetachSession, by Close and by the OnClose goroutine.  hbSender.Stop    *)
(* cancels without waiting; Monitor.Stop cancels and waits; Session.Stop   *)
(* closes and waits; attachMu is held throughout.                          *)
CloseCall(u) ==
    /\ calls < MaxCalls
    /\ calls' = calls + 1
    /\ Goto(u, "idle", "lock")
    /\ UNCHANGED <<attachMu, session, conn, dialled, loop, mine, reconnectCtx, sessVars,
                   tickVars, history>>

DetachLock(t) ==
    /\ attachMu = NoOne
    /\ attachMu' = t
    /\ beatCancelled' = (beat # "unstarted")
    /\ monCancelled' = (monitor # "unstarted")
    /\ Goto(t, "lock", "monWait")
    /\ UNCHANGED <<session, conn, dialled, calls, loop, mine, reconnectCtx, sessVars,
                   monitor, monStopping, beat, history>>

(* Slips: not waiting for the monitor; waiting for the heartbeat sender.   *)
DetachNoWait(t) ==
    /\ Goto(t, "monWait", "sessWait")
    /\ closed' = [i \in Ids |-> closed[i] \/ i = session]
    /\ broken' = [i \in Ids |-> broken[i] \/ i = session]
    /\ UNCHANGED <<attachMu, session, conn, dialled, calls, loop, mine, reconnectCtx,
                   notified, reader, tickVars, history>>

DetachWaitsForBeat(t) ==
    /\ monitor \in {"unstarted", "exited"}
    /\ beat \in {"unstarted", "exited"}
    /\ DetachNoWait(t)

DetachMonitorWait(t) ==
    /\ monitor \in {"unstarted", "exited"}
    /\ Goto(t, "monWait", "sessWait")
    /\ closed' = [i \in Ids |-> closed[i] \/ i = session]
    /\ broken' = [i \in Ids |-> broken[i] \/ i = session]
    /\ UNCHANGED <<attachMu, session, conn, dialled, calls, loop, mine, reconnectCtx,
                   notified, reader, tickVars, history>>

(* What follows DetachSession in Close and in the OnClose goroutine.       *)
AfterDetach(t) == IF t \in Users THEN "closeConn" ELSE "decide"

(* onCloseOnce of session s, when its Stop or abort gets to it: the first  *)
(* to get there starts the OnClose goroutine.                              *)
Notified(s) == [i \in Ids |-> notified[i] \/ i = s]
Spawned(s)  == IF s # Nil /\ ~notified[s] THEN {s} ELSE {}

DetachSessionWait(t) ==
    /\ pc[t] = "sessWait"
    /\ session # Nil => reader[session] = "exited"
    /\ notified' = Notified(session)
    /\ pc' = [u \in Detachers |-> IF u \in Spawned(session) THEN "lock"
                                  ELSE IF u = t THEN AfterDetach(t) ELSE pc[u]]
    /\ session' = Nil
    /\ attachMu' = NoOne
    /\ UNCHANGED <<conn, dialled, calls, loop, mine, reconnectCtx, closed, broken, reader,
                   tickVars, history>>

(* Close then closes whatever connection e.Conn names by now.              *)
CloseConn(u) ==
    /\ Goto(u, "closeConn", "idle")
    /\ broken' = [i \in Ids |-> broken[i] \/ i = conn]
    /\ UNCHANGED <<attachMu, session, conn, dialled, calls, loop, mine, reconnectCtx,
                   closed, notified, reader, tickVars, history>>

(* Slips: no look at reconnectCtx; reconnecting before DetachSession.      *)
LoopUnguarded(i) ==
    /\ Goto(i, "decide", "done")
    /\ reconnectCtx' = TRUE
    /\ loop' = [loop EXCEPT ![i] = "dial"]
    /\ UNCHANGED <<attachMu, session, conn, dialled, calls, mine, sessVars, tickVars, history>>

LoopFirst(i) ==
    /\ pc[i] \in {"lock", "decide"}
    /\ pc' = [pc EXCEPT ![i] = IF @ = "lock" THEN "lock" ELSE "done"]
    /\ reconnectCtx' = TRUE
    /\ loop' = [loop EXCEPT ![i] = IF ~reconnectCtx THEN "dial" ELSE @]
    /\ UNCHANGED <<attachMu, session, conn, dialled, calls, mine, sessVars, tickVars, history>>

(* The OnClose goroutine goes on to startReconnectLoop, which returns at   *)
(* once if reconnectCtx is set.                                            *)
StartReconnectLoop(i) ==
    /\ Goto(i, "decide", "done")
    /\ IF EnableReconnect /\ ~reconnectCtx
         THEN /\ reconnectCtx' = TRUE
              /\ loop' = [loop EXCEPT ![i] = "dial"]
              /\ UNCHANGED skipped
         ELSE /\ skipped' = (skipped \/ EnableReconnect)
              /\ UNCHANGED <<reconnectCtx, loop>>
    /\ UNCHANGED <<attachMu, session, conn, dialled, calls, mine, sessVars, tickVars,
                   connects>>

-----------------------------------------------------------------------------
(* readLoop of an attached session.  A handler that answers (SendMessage)  *)
(* needs attachMu for an instant.                                          *)
PeerLoss(i) ==
    /\ reader[i] # "none"
    /\ ~broken[i]
    /\ broken' = [broken EXCEPT ![i] = TRUE]
    /\ UNCHANGED <<attachMu, session, conn, dialled, calls, pc, loop, mine, reconnectCtx,
                   closed, notified, reader, tickVars, history>>

HandlerStart(i) ==
    /\ "handler" \in Chatty
    /\ reader[i] = "read"
    /\ ~broken[i]
    /\ reader' = [reader EXCEPT ![i] = "reply"]
    /\ UNCHANGED <<attachMu, session, conn, dialled, calls, pc, loop, mine, reconnectCtx,
                   closed, broken, notified, tickVars, history>>

HandlerReply(i) ==
    /\ reader[i] = "reply"
    /\ attachMu = NoOne
    /\ reader' = [reader EXCEPT ![i] = "read"]
    /\ UNCHANGED <<attachMu, session, conn, dialled, calls, pc, loop, mine, reconnectCtx,
                   closed, broken, notified, tickVars, history>>

(* A slip: an abort that tells nobody.                                     *)
AbortSilently(i) ==
    /\ broken[i]
    /\ closed' = [closed EXCEPT ![i] = TRUE]
    /\ UNCHANGED <<attachMu, session, conn, dialled, calls, pc, loop, mine, reconnectCtx,
                   broken, notified, tickVars, history>>

(* abort, by the loop of a session whose connection fails it: if it is the *)
(* first closer it also starts the OnClose goroutine.                      *)
Abort(i) ==
    /\ broken[i]
    /\ closed' = [closed EXCEPT ![i] = TRUE]
    /\ IF closed[i]
         THEN UNCHANGED <<notified, pc>>
         ELSE /\ notified' = Notified(i)
              /\ pc' = [u \in Detachers |-> IF u \in Spawned(i) THEN "lock" ELSE pc[u]]
    /\ UNCHANGED <<attachMu, session, conn, dialled, calls, loop, mine, reconnectCtx,
                   broken, tickVars, history>>

ReaderExit(i) ==
    /\ reader[i] = "read"
    /\ reader' = [reader EXCEPT ![i] = "exited"]
    /\ Abort(i)

(* A failing write aborts as well, whatever the readLoop is doing.         *)
WriterAbort(i) ==
    /\ reader[i] \in {"read", "reply"}
    /\ ~closed[i]
    /\ Abort(i)
    /\ UNCHANGED reader

-----------------------------------------------------------------------------
(* The monitor goroutine: a tick sends a TestRequest, or stops the session *)
(* it reads from e.Session (without the lock) when the answer is overdue.  *)
MonitorSend ==
    /\ "monitor" \in Chatty
    /\ monitor = "idle"
    /\ monitor' = "send"
    /\ UNCHANGED <<attachMu, session, conn, dialled, calls, pc, loop, mine, reconnectCtx,
                   sessVars, monStopping, monCancelled, beat, beatCancelled, history>>

MonitorSent ==
    /\ monitor = "send"
    /\ attachMu = NoOne
    /\ monitor' = "idle"
    /\ UNCHANGED <<attachMu, session, conn, dialled, calls, pc, loop, mine, reconnectCtx,
                   sessVars, monStopping, monCancelled, beat, beatCancelled, history>>

MonitorStop ==
    /\ monitor = "idle"
    /\ session # Nil
    /\ monitor' = "stop"
    /\ monStopping' = session
    /\ closed' = [closed EXCEPT ![session] = TRUE]
    /\ broken' = [broken EXCEPT ![session] = TRUE]
    /\ UNCHANGED <<attachMu, session, conn, dialled, calls, pc, loop, mine, reconnectCtx,
                   notified, reader, monCancelled, beat, beatCancelled, history>>

MonitorStopped ==
    /\ monitor = "stop"
    /\ reader[monStopping] = "exited"
    /\ monitor' = "idle"
    /\ monStopping' = Nil
    /\ notified' = Notified(monStopping)
    /\ pc' = [u \in Detachers |-> IF u \in Spawned(monStopping) THEN "lock" ELSE pc[u]]
    /\ UNCHANGED <<attachMu, session, conn, dialled, calls, loop, mine, reconnectCtx,
                   closed, broken, reader, monCancelled, beat, beatCancelled, history>>

MonitorExit ==
    /\ monitor = "idle"
    /\ monCancelled
    /\ monitor' = "exited"
    /\ UNCHANGED <<attachMu, session, conn, dialled, calls, pc, loop, mine, reconnectCtx,
                   sessVars, monStopping, monCancelled, beat, beatCancelled, history>>

-----------------------------------------------------------------------------
(* The heartbeat sender's goroutine; nobody waits for it.                  *)
BeatStart ==
    /\ "heartbeat" \in Chatty
    /\ beat = "idle"
    /\ beat' = "send"
    /\ UNCHANGED <<attachMu, session, conn, dialled, calls, pc, loop, mine, reconnectCtx,
                   sessVars, monitor, monStopping, monCancelled, beatCancelled, history>>

BeatSent ==
    /\ beat = "send"
    /\ attachMu = NoOne
    /\ beat' = "idle"
    /\ UNCHANGED <<attachMu, session, conn, dialled, calls, pc, loop, mine, reconnectCtx,
                   sessVars, monitor, monStopping, monCancelled, beatCancelled, history>>

BeatExit ==
    /\ beat = "idle"
    /\ beatCancelled
    /\ beat' = "exited"
    /\ UNCHANGED <<attachMu, session, conn, dialled, calls, pc, loop, mine, reconnectCtx,
                   sessVars, monitor, monStopping, monCancelled, beatCancelled, history>>

-----------------------------------------------------------------------------
Detach(t) ==
    \/ DetachLock(t)
    \/ DetachMonitorWait(t)
    \/ DetachSessionWait(t)

User(u)    == ConnectDial(u) \/ ConnectAttach(u) \/ CloseCall(u) \/ CloseConn(u)
Loop(i)    == LoopDial(i) \/ LoopAttach(i) \/ LoopReset(i)
Link(i)    == PeerLoss(i) \/ HandlerStart(i) \/ HandlerReply(i) \/ ReaderExit(i)
                \/ WriterAbort(i)
Monitor    == MonitorSend \/ MonitorSent \/ MonitorStop \/ MonitorStopped \/ MonitorExit
Heartbeat  == BeatStart \/ BeatSent \/ BeatExit

Next ==
    \/ \E u \in Users : User(u)
    \/ \E t \in Detachers : Detach(t)
    \/ \E i \in Ids : StartReconnectLoop(i) \/ Loop(i) \/ Link(i)
    \/ Monitor
    \/ Heartbeat

Spec == Init /\ [][Next]_vars

(* sync.Mutex hands the lock to a goroutine that has waited too long (its  *)
(* starvation mode), so whoever waits for attachMu gets it if it keeps     *)
(* being released: strong fairness, for each goroutine.  A cancelled       *)
(* monitor finds ctx.Done ready on every pass of its select, a tick only   *)
(* every Interval.  Calls, dials, ticks, messages and losses need not      *)
(* happen.                                                                 *)
Fairness ==
    /\ \A u \in Users : SF_vars(Detach(u) \/ ConnectAttach(u) \/ CloseConn(u))
    /\ \A i \in Ids :
          /\ SF_vars(Detach(i) \/ StartReconnectLoop(i))
          /\ SF_vars(LoopAttach(i) \/ LoopReset(i))
          /\ SF_vars(HandlerReply(i) \/ ReaderExit(i))
    /\ SF_vars(MonitorSent \/ MonitorStopped)
    /\ SF_vars(MonitorExit)

FairSpec == Spec /\ Fairness

-----------------------------------------------------------------------------
(* "ensure only one reconnect loop runs" (engine.go:205).                  *)
OneReconnectLoop ==
    \A i, j \in Ids :
        loop[i] \in {"dial", "attach", "reset"} /\ loop[j] \in {"dial", "attach", "reset"}
            => i = j

(* A detached engine is at rest: once DetachSession has cleared Session,   *)
(* the monitor is out and so is the readLoop of every session but those a  *)
(* second Connect has overwritten.                                         *)
DetachedIsQuiet ==
    session = Nil =>
        /\ monitor \in {"unstarted", "exited"}
        /\ connects <= 1 =>
             \A i \in Ids : reader[i] \in {"none", "exited"}

(* "Sessions ... shut down cleanly" (doc/plan.md:185): an engine without a *)
(* session has no readLoop at work.  It has after a second Connect, which  *)
(* overwrites the session it finds attached without stopping it.           *)
AllSessionsStopped ==
    session = Nil => \A i \in Ids : reader[i] \in {"none", "exited"}

(* Reconnecting by itself never tears down a fresh session: as long as the *)
(* application connects once, the OnClose goroutine of one session does    *)
(* not stop a later one, whatever Close calls come between.                *)
NoStaleDetach ==
    [][ \A i, j \in Ids :
          (pc[i] = "monWait" /\ pc'[i] = "sessWait" /\ session = j /\ i # j)
             => connects > 1 ]_vars

(* Session.OnClose triggers reconnect when enableReconnect=true            *)
(* (doc/plan.md:72): with every OnClose goroutine through, an engine that  *)
(* was not closed and has no session has a reconnect loop at work.         *)
Stranded ==
    /\ EnableReconnect
    /\ connects > 0 /\ session = Nil
    /\ attachMu = NoOne
    /\ \A i \in Ids : pc[i] \in {"idle", "done"}
    /\ \A i \in Ids : loop[i] \notin {"dial", "attach", "reset"}

NeverStranded == ~Stranded

(* What the code does guarantee: that only happens when a session died     *)
(* between its attach by the reconnect loop and the loop's reset of        *)
(* reconnectCtx.                                                           *)
StrandedOnlyIfSkipped == Stranded => skipped

(* Close comes back ("Graceful Shutdown", doc/plan.md:185).                *)
CloseReturns == \A u \in Users : pc[u] = "lock" ~> pc[u] = "idle"

(* DetachSession, which holds attachMu, waits for a goroutine that waits   *)
(* for attachMu in SendMessage: the monitor, a handler, or a handler of    *)
(* the session the monitor is stopping.                                    *)
Caught ==
    \E t \in Detachers :
        \/ pc[t] = "monWait" /\ monitor = "send"
        \/ pc[t] = "monWait" /\ monitor = "stop" /\ reader[monStopping] = "reply"
        \/ pc[t] = "sessWait" /\ session # Nil /\ reader[session] = "reply"

(* Nothing else keeps a Close from coming back: not the reconnect loop,    *)
(* not the OnClose goroutine, not the heartbeat sender.                    *)
CloseReturnsUnlessCaught ==
    \A u \in Users : pc[u] = "lock" ~> (pc[u] = "idle" \/ Caught)

(* And unless that happens every session that closes is cleaned up after:  *)
(* its OnClose goroutine gets through DetachSession.                       *)
LossIsHandled == \A i \in Ids : closed[i] ~> (pc[i] = "done" \/ Caught)

=============================================================================
