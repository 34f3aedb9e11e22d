------------------------ MODULE EngineLifecycleProofs ------------------------
(* Proofs about the engine's lifecycle, for any number of users, any bounds *)
(* on sessions and calls, and whoever calls SendMessage.                    *)
EXTENDS EngineLifecycle, TLAPS

Active(i) == loop[i] \in {"dial", "attach", "reset"}

(* Whoever attaches a session has one of its own. *)
MineIsSet ==
    /\ \A t \in Users : pc[t] = "attach" => mine[t] \in Ids
    /\ \A i \in Ids : pc[i] # "attach"
    /\ \A i \in Ids : loop[i] = "attach" => mine[i] \in Ids

(* reconnectCtx is set for as long as a reconnect loop is at work. *)
LoopHoldsCtx ==
    /\ \A i \in Ids : Active(i) => reconnectCtx
    /\ OneReconnectLoop

TypeInv == TypeOK /\ MineIsSet

IInv == TypeInv /\ LoopHoldsCtx

-----------------------------------------------------------------------------
(* The engine starts detached, with nobody at work. *)
LEMMA InitIInv == Init => IInv
<1> SUFFICES ASSUME Init PROVE IInv
  OBVIOUS
<1> USE LifecycleAssumption DEF LifecycleAssumption
<1>1. TypeOK
  <2>1. pc \in [Detachers -> Stages] /\ mine \in [Detachers -> Ids \cup {Nil}]
    BY DEF Init, Stages
  <2>2. dialled \in 0 .. MaxSessions /\ calls \in 0 .. MaxCalls
    BY DEF Init
  <2>3. /\ closed \in [Ids -> BOOLEAN] /\ broken \in [Ids -> BOOLEAN]
        /\ notified \in [Ids -> BOOLEAN]
    BY DEF Init
  <2> QED BY <2>1, <2>2, <2>3 DEF Init, TypeOK
<1>2. MineIsSet
  BY DEF Init, MineIsSet, Detachers
<1>3. LoopHoldsCtx
  BY DEF Init, LoopHoldsCtx, OneReconnectLoop, Active
<1> QED BY <1>1, <1>2, <1>3 DEF IInv, TypeInv

-----------------------------------------------------------------------------
(* Dialling names the next connection, which is still free. *)
LEMMA DialType ==
    ASSUME TypeOK, NEW t \in Detachers, Dial(t)
    PROVE  /\ dialled' \in 0 .. MaxSessions
           /\ conn' \in Ids
           /\ mine' \in [Detachers -> Ids \cup {Nil}]
           /\ mine'[t] \in Ids
           /\ \A u \in Detachers \ {t} : mine'[u] = mine[u]
BY LifecycleAssumption DEF TypeOK, Dial, Ids, Nil

(* AttachSession keeps the types, given a session to attach. *)
LEMMA AttachType ==
    ASSUME TypeOK, NEW t \in Detachers, mine[t] \in Ids, AttachSession(t)
    PROVE  /\ attachMu' \in Detachers \cup {NoOne}
           /\ session' \in Ids
           /\ conn' \in Ids \cup {Nil}
           /\ dialled' \in 0 .. MaxSessions
           /\ mine' \in [Detachers -> Ids \cup {Nil}]
           /\ closed' \in [Ids -> BOOLEAN] /\ broken' \in [Ids -> BOOLEAN]
           /\ notified' \in [Ids -> BOOLEAN]
           /\ reader' \in [Ids -> {"none", "read", "reply", "exited"}]
           /\ monitor' \in {"unstarted", "idle", "send", "stop", "exited"}
           /\ monStopping' \in IF monitor' = "stop" THEN Ids ELSE {Nil}
           /\ monCancelled' \in BOOLEAN
           /\ beat' \in {"unstarted", "idle", "send", "exited"}
           /\ beatCancelled' \in BOOLEAN
BY DEF TypeOK, AttachSession

(* What onCloseOnce leaves behind has its type. *)
LEMMA NotifiedType ==
    ASSUME TypeOK, NEW s \in Ids \cup {Nil}
    PROVE  Notified(s) \in [Ids -> BOOLEAN]
BY DEF TypeOK, Notified

(* Every action keeps the types. *)
LEMMA NextTypeOK == TypeInv /\ [Next]_vars => TypeOK'
<1> SUFFICES ASSUME TypeInv, [Next]_vars PROVE TypeOK'
  OBVIOUS
<1> USE LifecycleAssumption DEF LifecycleAssumption, TypeInv
<1> USE DEF Stages
<1>1. ASSUME NEW u \in Users, User(u) PROVE TypeOK'
  <2>1. CASE ConnectDial(u)
    <3>1. u \in Detachers
      BY <2>1 DEF ConnectDial, Detachers
    <3>5. calls' \in 0 .. MaxCalls
      BY <2>1 DEF ConnectDial, TypeOK
    <3>2. pc' \in [Detachers -> Stages]
      BY <2>1 DEF ConnectDial, Goto, TypeOK
    <3>3. Dial(u)
      BY <2>1 DEF ConnectDial
    <3>4. /\ dialled' \in 0 .. MaxSessions /\ conn' \in Ids
          /\ mine' \in [Detachers -> Ids \cup {Nil}]
      BY ONLY <3>1, <3>3, TypeInv, DialType DEF TypeInv
    <3> QED BY <2>1, <3>1, <3>2, <3>4, <3>5 DEF ConnectDial, TypeOK, sessVars, tickVars, history
  <2>2. CASE ConnectAttach(u)
    <3>1. mine[u] \in Ids /\ u \in Detachers
      BY <2>2 DEF ConnectAttach, Goto, MineIsSet, Detachers
    <3> QED BY <2>2, <3>1, AttachType DEF ConnectAttach, Goto, TypeOK
  <2>3. CASE CloseCall(u)
    BY <2>3 DEF CloseCall, Goto, TypeOK, Detachers, sessVars, tickVars, history
  <2>4. CASE CloseConn(u)
    BY <2>4 DEF CloseConn, Goto, TypeOK, Detachers, tickVars, history
  <2> QED BY <1>1, <2>1, <2>2, <2>3, <2>4 DEF User
<1>2. ASSUME NEW t \in Detachers, Detach(t) PROVE TypeOK'
  <2>1. CASE DetachLock(t)
    BY <2>1 DEF DetachLock, Goto, TypeOK, sessVars, history
  <2>2. CASE DetachMonitorWait(t)
    BY <2>2 DEF DetachMonitorWait, Goto, TypeOK, tickVars, history
  <2>3. CASE DetachSessionWait(t)
    <3>1. notified' \in [Ids -> BOOLEAN]
      BY <2>3, NotifiedType DEF DetachSessionWait, TypeOK
    <3>2. pc' \in [Detachers -> Stages]
      BY <2>3 DEF DetachSessionWait, AfterDetach, TypeOK
    <3> QED BY <2>3, <3>1, <3>2 DEF DetachSessionWait, TypeOK, tickVars, history
  <2> QED BY <1>2, <2>1, <2>2, <2>3 DEF Detach
<1>3. ASSUME NEW i \in Ids, StartReconnectLoop(i) PROVE TypeOK'
  <2>1. reconnectCtx' \in BOOLEAN /\ skipped' \in BOOLEAN
    BY <1>3, Zenon DEF StartReconnectLoop, TypeOK
  <2> QED BY <1>3, <2>1 DEF StartReconnectLoop, Goto, TypeOK, Detachers, sessVars, tickVars
<1>4. ASSUME NEW i \in Ids, Loop(i) PROVE TypeOK'
  <2>1. CASE LoopDial(i)
    BY <2>1, DialType DEF LoopDial, TypeOK, Detachers, sessVars, tickVars, history
  <2>2. CASE LoopAttach(i)
    BY <2>2, AttachType DEF LoopAttach, MineIsSet, TypeOK, Detachers, history
  <2>3. CASE LoopReset(i)
    <3>1. reconnectCtx' \in BOOLEAN
      BY <2>3 DEF LoopReset
    <3> QED BY <2>3, <3>1 DEF LoopReset, TypeOK, sessVars, tickVars, history
  <2> QED BY <1>4, <2>1, <2>2, <2>3 DEF Loop
<1>5. ASSUME NEW i \in Ids, Link(i) PROVE TypeOK'
  <2>1. CASE PeerLoss(i)
    BY <2>1 DEF PeerLoss, TypeOK, tickVars, history
  <2>2. CASE HandlerStart(i)
    BY <2>2 DEF HandlerStart, TypeOK, tickVars, history
  <2>3. CASE HandlerReply(i)
    BY <2>3 DEF HandlerReply, TypeOK, tickVars, history
  <2>4. ASSUME Abort(i), reader' \in [Ids -> {"none", "read", "reply", "exited"}]
        PROVE  TypeOK'
    <3>1. notified' \in [Ids -> BOOLEAN]
      BY <2>4, NotifiedType DEF Abort, TypeOK
    <3>2. pc' \in [Detachers -> Stages]
      BY <2>4 DEF Abort, TypeOK
    <3>3. closed' \in [Ids -> BOOLEAN]
      BY <2>4 DEF Abort, TypeOK
    <3> QED BY <2>4, <3>1, <3>2, <3>3 DEF Abort, TypeOK, tickVars, history
  <2>5. CASE ReaderExit(i)
    BY <2>4, <2>5 DEF ReaderExit, TypeOK
  <2>6. CASE WriterAbort(i)
    BY <2>4, <2>6 DEF WriterAbort, TypeOK
  <2> QED BY <1>5, <2>1, <2>2, <2>3, <2>5, <2>6 DEF Link
<1>6. ASSUME Monitor PROVE TypeOK'
  <2>1. CASE MonitorSend
    BY <2>1 DEF MonitorSend, TypeOK, sessVars, history
  <2>2. CASE MonitorSent
    BY <2>2 DEF MonitorSent, TypeOK, sessVars, history
  <2>3. CASE MonitorStop
    BY <2>3 DEF MonitorStop, TypeOK, history
  <2>4. CASE MonitorStopped
    <3>1. notified' \in [Ids -> BOOLEAN]
      BY <2>4, NotifiedType DEF MonitorStopped, TypeOK
    <3>2. pc' \in [Detachers -> Stages]
      BY <2>4 DEF MonitorStopped, TypeOK
    <3> QED BY <2>4, <3>1, <3>2 DEF MonitorStopped, TypeOK, history
  <2>5. CASE MonitorExit
    BY <2>5 DEF MonitorExit, TypeOK, sessVars, history
  <2> QED BY <1>6, <2>1, <2>2, <2>3, <2>4, <2>5 DEF Monitor
<1>7. ASSUME Heartbeat PROVE TypeOK'
  BY <1>7 DEF Heartbeat, BeatStart, BeatSent, BeatExit, TypeOK, sessVars, history
<1>8. CASE UNCHANGED vars
  BY <1>8 DEF vars, sessVars, tickVars, history, TypeOK
<1> QED BY <1>1, <1>2, <1>3, <1>4, <1>5, <1>6, <1>7, <1>8 DEF Next

-----------------------------------------------------------------------------
(* Who is about to attach a session got it from his own dial. *)
LEMMA NextMineIsSet == TypeInv /\ [Next]_vars => MineIsSet'
<1> SUFFICES ASSUME TypeInv, [Next]_vars PROVE MineIsSet'
  OBVIOUS
<1> USE LifecycleAssumption DEF LifecycleAssumption, TypeInv
(* An action that moves nobody to "attach" and leaves mine alone. *)
<1>1. ASSUME UNCHANGED mine,
             \A t \in Detachers : pc'[t] = "attach" => pc[t] = "attach",
             \A i \in Ids : loop'[i] = "attach" => loop[i] = "attach"
      PROVE  MineIsSet'
  BY <1>1 DEF MineIsSet, Detachers
<1>2. ASSUME NEW t \in Detachers, Dial(t),
             t \in Users \/ t \in Ids,
             \A u \in Detachers \ {t} : pc'[u] = "attach" => pc[u] = "attach",
             t \in Ids => pc'[t] # "attach",
             \A i \in Ids \ {t} : loop'[i] = "attach" => loop[i] = "attach"
      PROVE  MineIsSet'
  BY <1>2, DialType DEF MineIsSet, Detachers
<1>3. ASSUME NEW u \in Users, User(u) PROVE MineIsSet'
  <2>1. CASE ConnectDial(u)
    BY <1>2, <2>1 DEF ConnectDial, Goto, TypeOK, Detachers
  <2>2. CASE ~ConnectDial(u)
    BY <1>1, <1>3, <2>2 DEF User, ConnectAttach, CloseCall, CloseConn, Goto, AttachSession,
       TypeOK, Detachers
  <2> QED BY <2>1, <2>2
<1>4. ASSUME NEW t \in Detachers, Detach(t) PROVE MineIsSet'
  BY <1>1, <1>4 DEF Detach, DetachLock, DetachMonitorWait, DetachSessionWait, Goto, AfterDetach,
     TypeOK
<1>5. ASSUME NEW i \in Ids, StartReconnectLoop(i) PROVE MineIsSet'
  BY <1>1, <1>5 DEF StartReconnectLoop, Goto, TypeOK
<1>6. ASSUME NEW i \in Ids, Loop(i) PROVE MineIsSet'
  <2>1. CASE LoopDial(i)
    BY <1>2, <2>1 DEF LoopDial, TypeOK, Detachers, MineIsSet
  <2>2. CASE ~LoopDial(i)
    BY <1>1, <1>6, <2>2 DEF Loop, LoopAttach, LoopReset, AttachSession, TypeOK
  <2> QED BY <2>1, <2>2
<1>7. ASSUME NEW i \in Ids, Link(i) PROVE MineIsSet'
  BY <1>1, <1>7 DEF Link, PeerLoss, HandlerStart, HandlerReply, ReaderExit, WriterAbort, Abort,
     TypeOK
<1>8. ASSUME Monitor PROVE MineIsSet'
  BY <1>1, <1>8 DEF Monitor, MonitorSend, MonitorSent, MonitorStop, MonitorStopped, MonitorExit,
     TypeOK
<1>9. ASSUME Heartbeat PROVE MineIsSet'
  BY <1>1, <1>9 DEF Heartbeat, BeatStart, BeatSent, BeatExit
<1>10. CASE UNCHANGED vars
  BY <1>1, <1>10 DEF vars
<1> QED BY <1>3, <1>4, <1>5, <1>6, <1>7, <1>8, <1>9, <1>10 DEF Next

-----------------------------------------------------------------------------
(* Only StartReconnectLoop starts a loop, and only with reconnectCtx unset;  *)
(* only a loop that has attached unsets it.                                  *)
LEMMA NextLoopHoldsCtx == IInv /\ [Next]_vars => LoopHoldsCtx'
<1> SUFFICES ASSUME IInv, [Next]_vars PROVE LoopHoldsCtx'
  OBVIOUS
<1> USE LifecycleAssumption DEF LifecycleAssumption, IInv, TypeInv
<1>1. ASSUME UNCHANGED <<loop, reconnectCtx>> PROVE LoopHoldsCtx'
  BY <1>1 DEF LoopHoldsCtx, OneReconnectLoop, Active
<1>2. ASSUME NEW i \in Ids, StartReconnectLoop(i) PROVE LoopHoldsCtx'
  <2>1. CASE ~reconnectCtx /\ EnableReconnect
    BY <1>2, <2>1 DEF StartReconnectLoop, LoopHoldsCtx, OneReconnectLoop, Active, TypeOK
  <2>2. CASE reconnectCtx \/ ~EnableReconnect
    BY <1>1, <1>2, <2>2 DEF StartReconnectLoop
  <2> QED BY <2>1, <2>2
<1>3. ASSUME NEW i \in Ids, Loop(i) PROVE LoopHoldsCtx'
  <2>1. CASE LoopDial(i)
    BY <2>1 DEF LoopDial, LoopHoldsCtx, OneReconnectLoop, Active, TypeOK
  <2>2. CASE LoopAttach(i)
    BY <2>2 DEF LoopAttach, LoopHoldsCtx, OneReconnectLoop, Active, TypeOK
  <2>3. CASE LoopReset(i)
    BY <2>3 DEF LoopReset, LoopHoldsCtx, OneReconnectLoop, Active, TypeOK
  <2> QED BY <1>3, <2>1, <2>2, <2>3 DEF Loop
<1>4. ASSUME \/ \E u \in Users : User(u)
             \/ \E t \in Detachers : Detach(t)
             \/ \E i \in Ids : Link(i)
             \/ Monitor
             \/ Heartbeat
      PROVE  UNCHANGED <<loop, reconnectCtx>>
  BY <1>4 DEF User, ConnectDial, ConnectAttach, CloseCall, CloseConn, Detach, DetachLock,
     DetachMonitorWait, DetachSessionWait, Link, PeerLoss, HandlerStart, HandlerReply,
     ReaderExit, WriterAbort, Abort, Monitor, MonitorSend, MonitorSent, MonitorStop,
     MonitorStopped, MonitorExit, Heartbeat, BeatStart, BeatSent, BeatExit
<1>5. CASE UNCHANGED vars
  BY <1>1, <1>5 DEF vars
<1> QED BY <1>1, <1>2, <1>3, <1>4, <1>5 DEF Next

-----------------------------------------------------------------------------
(* The invariant holds throughout. *)
LEMMA Inductive == Spec => []IInv
<1>1. IInv /\ [Next]_vars => IInv'
  BY NextTypeOK, NextMineIsSet, NextLoopHoldsCtx DEF IInv, TypeInv
<1> QED BY InitIInv, <1>1, PTL DEF Spec

(* Every variable of the lifecycle keeps to its type. *)
THEOREM LifecycleTypeCorrect == Spec => []TypeOK
<1>1. IInv => TypeOK
  BY DEF IInv, TypeInv
<1> QED BY <1>1, Inductive, PTL

(* At most one reconnect loop is at work, whichever sessions close and      *)
(* however Connect, Close and the OnClose goroutines interleave: the check  *)
(* of reconnectCtx in startReconnectLoop (engine.go:205) is enough because  *)
(* only the loop that set it clears it, and only when it is through.        *)
THEOREM SingleReconnectLoop == Spec => []OneReconnectLoop
<1>1. IInv => OneReconnectLoop
  BY DEF IInv, LoopHoldsCtx
<1> QED BY <1>1, Inductive, PTL

-----------------------------------------------------------------------------
(* Sessions and the goroutines that work on them.                           *)

(* Who has dialled a connection and is about to attach a session on it. *)
Pending(t) == IF t \in Users THEN pc[t] = "attach" ELSE loop[t] = "attach"

(* A connection is new until a session is attached on it, and only one     *)
(* goroutine is about to. *)
Fresh ==
    /\ \A j \in Ids : j > dialled => reader[j] = "none"
    /\ \A t \in Detachers : Pending(t) => mine[t] <= dialled /\ reader[mine[t]] = "none"
    /\ \A t, u \in Detachers : Pending(t) /\ Pending(u) /\ mine[t] = mine[u] => t = u

(* What the engine and its monitor work on was attached. *)
Attached ==
    /\ session # Nil => reader[session] # "none"
    /\ monitor = "stop" => reader[monStopping] # "none"
    /\ \A i \in Ids : notified[i] => reader[i] # "none"

(* The OnClose goroutine of a session runs once, and starts its loop last. *)
OncePerSession ==
    /\ \A i \in Ids : pc[i] # "idle" => notified[i]
    /\ \A i \in Ids : loop[i] # "none" => pc[i] = "done"

(* attachMu is held from the first to the last step of a DetachSession. *)
Mutex == \A t \in Detachers : pc[t] \in {"monWait", "sessWait"} <=> attachMu = t

(* Past the wait for the monitor, and without a session, it is out. *)
MonitorOut ==
    (session = Nil \/ \E t \in Detachers : pc[t] = "sessWait")
        => monitor \in {"unstarted", "exited"}

(* A session that is still attached has not been through the DetachSession *)
(* of its own OnClose goroutine. *)
OwnDetach ==
    session # Nil /\ notified[session] => pc[session] \in {"lock", "monWait", "sessWait"}

(* What can lead to the next session: one that is attached and has told    *)
(* nobody of its end, its OnClose goroutine, its reconnect loop. *)
Closing(i) == pc[i] \in {"lock", "monWait", "sessWait", "decide"}
Dialling(i) == loop[i] \in {"dial", "attach"}
Source(i) == (reader[i] # "none" /\ ~notified[i]) \/ Closing(i) \/ Dialling(i)

(* As long as the application connects once there is one of them, ... *)
OneSource ==
    /\ connects = 0 => \A i \in Ids : reader[i] = "none" /\ ~Source(i)
    /\ connects <= 1 => \A i, j \in Ids : Source(i) /\ Source(j) => i = j

(* ... the readLoops are out but for the one of the session attached, and   *)
(* nothing is attached where a reconnect loop is due or at work. *)
OneLive ==
    connects <= 1 =>
        /\ \A i \in Ids : reader[i] \in {"read", "reply"} => i = session
        /\ \A i \in Ids : pc[i] = "decide" \/ Dialling(i) => session = Nil

(* A loss is followed up: unless startReconnectLoop was skipped, an engine  *)
(* without a session has an OnClose goroutine or a reconnect loop on its way. *)
FollowedUp ==
    EnableReconnect /\ connects > 0 /\ ~skipped /\ session = Nil
        => \E i \in Ids : Closing(i) \/ Dialling(i)

Bookkeeping ==
    Fresh /\ Attached /\ OncePerSession /\ Mutex /\ MonitorOut /\ OwnDetach

(* A step is one of these; each lemma below goes through them. *)
LEMMA Steps ==
    ASSUME [Next]_vars
    PROVE  \/ \E u \in Users : ConnectDial(u) \/ ConnectAttach(u) \/ CloseCall(u) \/ CloseConn(u)
           \/ \E t \in Detachers : DetachLock(t) \/ DetachMonitorWait(t) \/ DetachSessionWait(t)
           \/ \E i \in Ids : \/ StartReconnectLoop(i)
                             \/ LoopDial(i) \/ LoopAttach(i) \/ LoopReset(i)
                             \/ PeerLoss(i) \/ HandlerStart(i) \/ HandlerReply(i)
                             \/ ReaderExit(i) \/ WriterAbort(i)
           \/ MonitorSend \/ MonitorSent \/ MonitorStop \/ MonitorStopped \/ MonitorExit
           \/ BeatStart \/ BeatSent \/ BeatExit
           \/ UNCHANGED vars
BY DEF Next, User, Detach, Loop, Link, Monitor, Heartbeat

(* A session that was attached stays so, and only an attach makes one. *)
LEMMA ReadersOnly ==
    ASSUME TypeInv, [Next]_vars
    PROVE  \A j \in Ids :
              /\ reader[j] # "none" => reader'[j] # "none"
              /\ reader[j] = "none" /\ reader'[j] # "none" =>
                    \/ \E u \in Users : ConnectAttach(u) /\ mine[u] = j
                    \/ \E i \in Ids : LoopAttach(i) /\ mine[i] = j
<1> USE LifecycleAssumption DEF LifecycleAssumption, TypeInv
<1>1. ASSUME UNCHANGED reader
      PROVE  \A j \in Ids : /\ reader[j] # "none" => reader'[j] # "none"
                            /\ ~(reader[j] = "none" /\ reader'[j] # "none")
  BY <1>1
<1>2. ASSUME NEW t \in Detachers, AttachSession(t), mine[t] \in Ids
      PROVE  \A j \in Ids : /\ reader[j] # "none" => reader'[j] # "none"
                            /\ reader[j] = "none" /\ reader'[j] # "none" => mine[t] = j
  BY <1>2 DEF AttachSession, TypeOK
<1>3. ASSUME NEW u \in Users, ConnectAttach(u) PROVE mine[u] \in Ids /\ AttachSession(u)
  BY <1>3 DEF ConnectAttach, Goto, MineIsSet, Detachers
<1>4. ASSUME NEW i \in Ids, LoopAttach(i) PROVE mine[i] \in Ids /\ AttachSession(i)
  BY <1>4 DEF LoopAttach, MineIsSet
<1>5. ASSUME NEW i \in Ids, HandlerStart(i) \/ HandlerReply(i) \/ ReaderExit(i)
      PROVE  \A j \in Ids : /\ reader[j] # "none" => reader'[j] # "none"
                            /\ ~(reader[j] = "none" /\ reader'[j] # "none")
  BY <1>5 DEF HandlerStart, HandlerReply, ReaderExit, TypeOK
<1>6. ASSUME \/ \E u \in Users : ConnectDial(u) \/ CloseCall(u) \/ CloseConn(u)
             \/ \E t \in Detachers : DetachLock(t) \/ DetachMonitorWait(t) \/ DetachSessionWait(t)
             \/ \E i \in Ids : \/ StartReconnectLoop(i) \/ LoopDial(i) \/ LoopReset(i)
                               \/ PeerLoss(i) \/ WriterAbort(i)
             \/ MonitorSend \/ MonitorSent \/ MonitorStop \/ MonitorStopped \/ MonitorExit
             \/ BeatStart \/ BeatSent \/ BeatExit
             \/ UNCHANGED vars
      PROVE  UNCHANGED reader
  BY <1>6 DEF ConnectDial, CloseCall, CloseConn, DetachLock, DetachMonitorWait,
     DetachSessionWait, StartReconnectLoop, LoopDial, LoopReset, PeerLoss, WriterAbort,
     MonitorSend, MonitorSent, MonitorStop, MonitorStopped, MonitorExit,
     BeatStart, BeatSent, BeatExit, sessVars, vars
<1>7. CASE \E u \in Users : ConnectAttach(u)
  BY <1>2, <1>3, <1>7 DEF Detachers
<1>8. CASE \E i \in Ids : LoopAttach(i)
  BY <1>2, <1>4, <1>8 DEF Detachers
<1> QED BY <1>1, <1>5, <1>6, <1>7, <1>8, Steps

(* Whoever becomes about to attach a session has just dialled.  *)
LEMMA PendingOnly ==
    ASSUME TypeInv, [Next]_vars
    PROVE  \/ /\ \E t \in Detachers : Dial(t) /\ Pending(t)' /\ ~Pending(t)
                    /\ \A u \in Detachers \ {t} : Pending(u)' => Pending(u)
              /\ UNCHANGED reader
           \/ /\ UNCHANGED <<mine, dialled>>
              /\ \A u \in Detachers : Pending(u)' => Pending(u)
<1> USE LifecycleAssumption DEF LifecycleAssumption, TypeInv
<1>1. ASSUME NEW u \in Users, ConnectDial(u)
      PROVE  /\ Dial(u) /\ u \in Detachers /\ Pending(u)' /\ ~Pending(u) /\ UNCHANGED reader
             /\ \A t \in Detachers \ {u} : Pending(t)' => Pending(t)
  BY <1>1 DEF ConnectDial, Goto, Pending, Detachers, TypeOK, sessVars
<1>2. ASSUME NEW i \in Ids, LoopDial(i)
      PROVE  /\ Dial(i) /\ i \in Detachers /\ Pending(i)' /\ ~Pending(i) /\ UNCHANGED reader
             /\ \A t \in Detachers \ {i} : Pending(t)' => Pending(t)
  BY <1>2 DEF LoopDial, Pending, Detachers, TypeOK, sessVars
<1>3. ASSUME UNCHANGED <<mine, dialled>>,
             \A t \in Detachers : pc'[t] = "attach" => pc[t] = "attach",
             \A i \in Ids : loop'[i] = "attach" => loop[i] = "attach"
      PROVE  /\ UNCHANGED <<mine, dialled>>
             /\ \A u \in Detachers : Pending(u)' => Pending(u)
  BY <1>3 DEF Pending, Detachers
<1>4. ASSUME NEW u \in Users, ConnectAttach(u) \/ CloseCall(u) \/ CloseConn(u)
      PROVE  /\ UNCHANGED <<mine, dialled>>
             /\ \A t \in Detachers : Pending(t)' => Pending(t)
  BY <1>3, <1>4 DEF ConnectAttach, CloseCall, CloseConn, Goto, AttachSession, TypeOK, Detachers
<1>5. ASSUME NEW t \in Detachers, DetachLock(t) \/ DetachMonitorWait(t) \/ DetachSessionWait(t)
      PROVE  /\ UNCHANGED <<mine, dialled>>
             /\ \A u \in Detachers : Pending(u)' => Pending(u)
  BY <1>3, <1>5 DEF DetachLock, DetachMonitorWait, DetachSessionWait, Goto, AfterDetach, TypeOK
<1>6. ASSUME NEW i \in Ids, StartReconnectLoop(i) \/ LoopAttach(i) \/ LoopReset(i)
      PROVE  /\ UNCHANGED <<mine, dialled>>
             /\ \A u \in Detachers : Pending(u)' => Pending(u)
  BY <1>3, <1>6 DEF StartReconnectLoop, LoopAttach, LoopReset, AttachSession, Goto, TypeOK
<1>7. ASSUME \/ \E i \in Ids : \/ PeerLoss(i) \/ HandlerStart(i) \/ HandlerReply(i)
                               \/ ReaderExit(i) \/ WriterAbort(i)
             \/ MonitorSend \/ MonitorSent \/ MonitorStop \/ MonitorStopped \/ MonitorExit
             \/ BeatStart \/ BeatSent \/ BeatExit
             \/ UNCHANGED vars
      PROVE  /\ UNCHANGED <<mine, dialled>>
             /\ \A u \in Detachers : Pending(u)' => Pending(u)
  BY <1>3, <1>7 DEF PeerLoss, HandlerStart, HandlerReply, ReaderExit, WriterAbort, Abort,
     MonitorSend, MonitorSent, MonitorStop, MonitorStopped, MonitorExit,
     BeatStart, BeatSent, BeatExit, vars, TypeOK
<1> QED BY <1>1, <1>2, <1>4, <1>5, <1>6, <1>7, Steps

(* A connection just dialled is new to everybody. *)
LEMMA NextFresh == TypeInv /\ Fresh /\ [Next]_vars => Fresh'
<1> SUFFICES ASSUME TypeInv, Fresh, [Next]_vars PROVE Fresh'
  OBVIOUS
<1> USE LifecycleAssumption DEF LifecycleAssumption
<1>1. ASSUME NEW t \in Detachers, Dial(t), UNCHANGED reader,
             \A u \in Detachers \ {t} : Pending(u)' => Pending(u)
      PROVE  Fresh'
  <2>1. /\ dialled' = dialled + 1 /\ dialled \in Nat /\ mine'[t] = dialled + 1
        /\ mine'[t] \in Ids
        /\ \A u \in Detachers \ {t} : mine'[u] = mine[u]
    BY <1>1 DEF Dial, TypeInv, TypeOK, Ids
  <2>2. \A u \in Detachers \ {t} : Pending(u)' =>
           mine'[u] \in Nat /\ mine'[u] <= dialled /\ reader'[mine'[u]] = "none"
    BY <1>1, <2>1 DEF Fresh, TypeInv, TypeOK, Ids, Nil
  <2>3. reader'[mine'[t]] = "none"
    BY <1>1, <2>1 DEF Fresh, Ids
  <2>4. \A j \in Ids : j > dialled' => reader'[j] = "none"
    BY <1>1, <2>1 DEF Fresh, Ids
  <2>5. \A u \in Detachers : Pending(u)' => mine'[u] <= dialled' /\ reader'[mine'[u]] = "none"
    BY <2>1, <2>2, <2>3
  <2>6. \A u, x \in Detachers : Pending(u)' /\ Pending(x)' /\ mine'[u] = mine'[x] => u = x
    BY <1>1, <2>1, <2>2 DEF Fresh
  <2> QED BY <2>4, <2>5, <2>6 DEF Fresh
<1>2. ASSUME UNCHANGED <<mine, dialled>>, \A u \in Detachers : Pending(u)' => Pending(u)
      PROVE  Fresh'
  <2>1. ASSUME NEW t \in Detachers, AttachSession(t), Pending(t), ~Pending(t)',
               mine[t] \in Ids, reader' = [reader EXCEPT ![mine[t]] = "read"]
        PROVE  Fresh'
    BY <1>2, <2>1 DEF Fresh, TypeInv, TypeOK, Ids
  <2>2. ASSUME NEW u \in Users, ConnectAttach(u) PROVE Fresh'
    <3>1. /\ u \in Detachers /\ AttachSession(u) /\ Pending(u) /\ ~Pending(u)'
          /\ mine[u] \in Ids /\ reader' = [reader EXCEPT ![mine[u]] = "read"]
      BY <2>2 DEF ConnectAttach, AttachSession, Goto, Pending, Detachers, TypeInv, TypeOK, MineIsSet
    <3> QED BY <2>1, <3>1
  <2>3. ASSUME NEW i \in Ids, LoopAttach(i) PROVE Fresh'
    <3>1. /\ i \in Detachers /\ AttachSession(i) /\ Pending(i) /\ ~Pending(i)'
          /\ mine[i] \in Ids /\ reader' = [reader EXCEPT ![mine[i]] = "read"]
      BY <2>3 DEF LoopAttach, AttachSession, Pending, Detachers, TypeInv, TypeOK, MineIsSet
    <3> QED BY <2>1, <3>1
  <2>4. CASE /\ ~\E u \in Users : ConnectAttach(u)
             /\ ~\E i \in Ids : LoopAttach(i)
    <3>1. \A j \in Ids : reader[j] = "none" => reader'[j] = "none"
      BY <2>4, ReadersOnly
    <3>2. \A u \in Detachers : Pending(u) => mine[u] \in Ids
      BY DEF Pending, TypeInv, MineIsSet, Detachers
    <3> QED BY <1>2, <3>1, <3>2 DEF Fresh
  <2> QED BY <2>2, <2>3, <2>4
<1> QED BY <1>1, <1>2, PendingOnly

-----------------------------------------------------------------------------
(* onCloseOnce: the first to notice the end of session s starts task u. *)
Noticed(s) == \A i \in Ids : notified'[i] <=> notified[i] \/ i = s
Starts(s, u) == u \in Ids /\ u = s /\ ~notified[u]

LEMMA SpawnedIsStarted ==
    ASSUME TypeOK, NEW s \in Ids \cup {Nil}
    PROVE  /\ \A u \in Detachers : u \in Spawned(s) <=> Starts(s, u)
           /\ notified' = Notified(s) => Noticed(s)
<1>1. Nil \notin Ids
  BY DEF Ids, Nil
<1>2. \A u \in Detachers : u \in Spawned(s) <=> Starts(s, u)
  BY <1>1 DEF Spawned, Starts
<1>3. notified' = Notified(s) => Noticed(s)
  BY DEF Notified, Noticed
<1> QED BY <1>2, <1>3

(* The three places where the end of a session is noticed. *)
LEMMA DetachNotices ==
    ASSUME TypeOK, NEW t \in Detachers, DetachSessionWait(t)
    PROVE  /\ Noticed(session)
           /\ \A u \in Detachers : pc'[u] = IF Starts(session, u) THEN "lock"
                                            ELSE IF u = t THEN AfterDetach(t) ELSE pc[u]
<1>1. session \in Ids \cup {Nil} /\ notified' = Notified(session)
  BY DEF TypeOK, DetachSessionWait
<1>2. \A u \in Detachers : pc'[u] = IF u \in Spawned(session) THEN "lock"
                                    ELSE IF u = t THEN AfterDetach(t) ELSE pc[u]
  BY DEF DetachSessionWait
<1>3. Noticed(session) /\ \A u \in Detachers : u \in Spawned(session) <=> Starts(session, u)
  BY <1>1, SpawnedIsStarted
<1> QED BY <1>2, <1>3

LEMMA MonitorNotices ==
    ASSUME TypeOK, MonitorStopped
    PROVE  /\ Noticed(monStopping) /\ monStopping \in Ids
           /\ \A u \in Detachers : pc'[u] = IF Starts(monStopping, u) THEN "lock" ELSE pc[u]
<1>1. monStopping \in Ids /\ notified' = Notified(monStopping)
  BY DEF TypeOK, MonitorStopped
<1>2. \A u \in Detachers : pc'[u] = IF u \in Spawned(monStopping) THEN "lock" ELSE pc[u]
  BY DEF MonitorStopped
<1>3. /\ Noticed(monStopping)
      /\ \A u \in Detachers : u \in Spawned(monStopping) <=> Starts(monStopping, u)
  <2>1. monStopping \in Ids \cup {Nil}
    BY <1>1
  <2> QED BY <1>1, <2>1, SpawnedIsStarted
<1> QED BY <1>1, <1>2, <1>3

LEMMA AbortNotices ==
    ASSUME TypeOK, NEW s \in Ids, Abort(s)
    PROVE  \/ UNCHANGED <<notified, pc>>
           \/ /\ Noticed(s)
              /\ \A u \in Detachers : pc'[u] = IF Starts(s, u) THEN "lock" ELSE pc[u]
<1>1. CASE closed[s]
  BY <1>1 DEF Abort
<1>2. CASE ~closed[s]
  <2>1. notified' = Notified(s)
    BY <1>2 DEF Abort
  <2>2. \A u \in Detachers : pc'[u] = IF u \in Spawned(s) THEN "lock" ELSE pc[u]
    BY <1>2 DEF Abort
  <2>3. Noticed(s) /\ \A u \in Detachers : u \in Spawned(s) <=> Starts(s, u)
    <3>1. s \in Ids \cup {Nil}
      OBVIOUS
    <3> QED BY <2>1, <3>1, SpawnedIsStarted
  <2> QED BY <2>2, <2>3
<1> QED BY <1>1, <1>2

(* The session and what the monitor stops come from e.Session. *)
LEMMA NextAttached == TypeInv /\ Attached /\ [Next]_vars => Attached'
<1> SUFFICES ASSUME TypeInv, Attached, [Next]_vars PROVE Attached'
  OBVIOUS
<1> USE LifecycleAssumption DEF LifecycleAssumption
<1>1. \A j \in Ids : reader[j] # "none" => reader'[j] # "none"
  BY ReadersOnly
<1>2. TypeOK'
  BY NextTypeOK
<1>3. ASSUME \/ \E u \in Users : ConnectDial(u) \/ CloseCall(u) \/ CloseConn(u)
             \/ \E t \in Detachers : DetachLock(t) \/ DetachMonitorWait(t)
             \/ \E i \in Ids : \/ StartReconnectLoop(i) \/ LoopDial(i) \/ LoopReset(i)
                               \/ PeerLoss(i) \/ HandlerStart(i) \/ HandlerReply(i)
             \/ BeatStart \/ BeatSent \/ BeatExit
             \/ UNCHANGED vars
      PROVE  UNCHANGED <<session, monitor, monStopping, notified>>
  BY <1>3 DEF ConnectDial, CloseCall, CloseConn, DetachLock, DetachMonitorWait,
     StartReconnectLoop, LoopDial, LoopReset, PeerLoss, HandlerStart, HandlerReply,
     BeatStart, BeatSent, BeatExit, sessVars, tickVars, vars
<1>4. ASSUME UNCHANGED <<session, monitor, monStopping, notified>> PROVE Attached'
  BY <1>1, <1>4 DEF Attached, TypeInv, TypeOK
<1>5. ASSUME NEW t \in Detachers, AttachSession(t), mine[t] \in Ids PROVE Attached'
  <2>1. /\ session' = mine[t] /\ reader'[mine[t]] = "read"
        /\ UNCHANGED <<monStopping, notified>> /\ (monitor' = "stop" => monitor = "stop")
    BY <1>5 DEF AttachSession, TypeInv, TypeOK
  <2> QED BY <1>1, <1>5, <2>1 DEF Attached, TypeInv, TypeOK
<1>6. ASSUME NEW u \in Users, ConnectAttach(u) PROVE Attached'
  BY <1>5, <1>6 DEF ConnectAttach, Goto, TypeInv, MineIsSet, Detachers
<1>7. ASSUME NEW i \in Ids, LoopAttach(i) PROVE Attached'
  BY <1>5, <1>7 DEF LoopAttach, TypeInv, MineIsSet, Detachers
<1>8. ASSUME NEW t \in Detachers, DetachSessionWait(t) PROVE Attached'
  <2>1. TypeOK
    BY DEF TypeInv
  <2>2. Noticed(session)
    BY <1>8, <2>1, DetachNotices
  <2>3. session' = Nil /\ UNCHANGED <<monitor, monStopping>>
    BY <1>8 DEF DetachSessionWait, tickVars
  <2>4. Nil \notin Ids
    BY DEF Nil, Ids
  <2>5. \A i \in Ids : notified'[i] => reader'[i] # "none"
    BY <1>1, <2>2, <2>4 DEF Attached, Noticed
  <2>6. monitor = "stop" => monStopping \in Ids
    BY <2>1 DEF TypeOK
  <2> QED BY <1>1, <2>3, <2>5, <2>6 DEF Attached
<1>9. ASSUME NEW s \in Ids, ReaderExit(s) \/ WriterAbort(s) PROVE Attached'
  <2>1. TypeOK /\ Abort(s) /\ reader[s] # "none"
    BY <1>9 DEF TypeInv, ReaderExit, WriterAbort
  <2>2. UNCHANGED notified \/ Noticed(s)
    BY <2>1, AbortNotices
  <2>3. UNCHANGED <<session, monitor, monStopping>>
    BY <2>1 DEF Abort, tickVars
  <2> QED BY <1>1, <2>1, <2>2, <2>3 DEF Attached, Noticed, TypeOK
<1>10. CASE MonitorStopped
  <2>1. TypeOK
    BY DEF TypeInv
  <2>2. Noticed(monStopping) /\ monStopping \in Ids
    BY <1>10, <2>1, MonitorNotices
  <2>3. UNCHANGED session /\ monitor = "stop" /\ monitor' = "idle"
    BY <1>10 DEF MonitorStopped
  <2> QED BY <1>1, <2>1, <2>2, <2>3 DEF Attached, Noticed, TypeOK
<1>11. CASE MonitorSend \/ MonitorSent \/ MonitorStop \/ MonitorExit
  <2>1. /\ UNCHANGED <<session, notified>>
        /\ monitor' = "stop" => monStopping' = session /\ session # Nil
    BY <1>11 DEF MonitorSend, MonitorSent, MonitorStop, MonitorExit, sessVars
  <2> QED BY <1>1, <2>1 DEF Attached, TypeInv, TypeOK
<1> QED BY <1>3, <1>4, <1>6, <1>7, <1>8, <1>9, <1>10, <1>11, Steps

(* What users and the steps that notice nothing do to the OnClose           *)
(* goroutines, their loops and what was noticed. *)
LEMMA UserMoves ==
    ASSUME TypeOK, NEW u \in Users,
           ConnectDial(u) \/ ConnectAttach(u) \/ CloseCall(u) \/ CloseConn(u)
    PROVE  /\ \A i \in Ids : pc'[i] = pc[i]
           /\ \A t \in Detachers : t # u => pc'[t] = pc[t]
           /\ pc[u] \in {"idle", "attach", "closeConn"}
           /\ pc'[u] \in {"idle", "attach", "lock"}
           /\ UNCHANGED <<notified, loop, attachMu>>
<1>1. /\ UNCHANGED <<notified, loop, attachMu>>
      /\ Goto(u, "idle", "attach") \/ Goto(u, "attach", "idle")
            \/ Goto(u, "idle", "lock") \/ Goto(u, "closeConn", "idle")
  BY DEF ConnectDial, ConnectAttach, CloseCall, CloseConn, AttachSession, sessVars
<1> QED BY <1>1, LifecycleAssumption DEF LifecycleAssumption, Goto, TypeOK, Detachers

LEMMA QuietMoves ==
    ASSUME \/ \E i \in Ids : \/ LoopDial(i) \/ LoopAttach(i) \/ LoopReset(i)
                             \/ PeerLoss(i) \/ HandlerStart(i) \/ HandlerReply(i)
           \/ MonitorSend \/ MonitorSent \/ MonitorStop \/ MonitorExit
           \/ BeatStart \/ BeatSent \/ BeatExit
           \/ UNCHANGED vars
    PROVE  UNCHANGED <<pc, notified, attachMu>>
BY DEF LoopDial, LoopAttach, LoopReset, PeerLoss, HandlerStart, HandlerReply, AttachSession,
   MonitorSend, MonitorSent, MonitorStop, MonitorExit, BeatStart, BeatSent, BeatExit,
   sessVars, vars

(* An OnClose goroutine starts when the end is noticed, and a loop when it  *)
(* is through. *)
LEMMA NextOncePerSession == TypeInv /\ OncePerSession /\ [Next]_vars => OncePerSession'
<1> SUFFICES ASSUME TypeInv, OncePerSession, [Next]_vars PROVE OncePerSession'
  OBVIOUS
<1>1. TypeOK
  BY DEF TypeInv
<1>2. ASSUME \A i \in Ids : notified[i] => notified'[i],
             \A i \in Ids : pc'[i] # "idle" => pc[i] # "idle" \/ notified'[i],
             \A i \in Ids : pc[i] = "done" => pc'[i] = "done",
             \A i \in Ids : loop'[i] # "none" => loop[i] # "none"
      PROVE  OncePerSession'
  BY <1>2 DEF OncePerSession
<1>3. ASSUME NEW u \in Users,
             ConnectDial(u) \/ ConnectAttach(u) \/ CloseCall(u) \/ CloseConn(u)
      PROVE  OncePerSession'
  BY <1>1, <1>2, <1>3, UserMoves
<1>4. ASSUME NEW t \in Detachers, DetachLock(t) \/ DetachMonitorWait(t) PROVE OncePerSession'
  <2>1. /\ UNCHANGED <<loop, notified>>
        /\ pc[t] \in {"lock", "monWait"} /\ pc'[t] \in {"monWait", "sessWait"}
        /\ \A u \in Detachers : u # t => pc'[u] = pc[u]
    BY <1>1, <1>4 DEF DetachLock, DetachMonitorWait, Goto, TypeOK, sessVars
  <2> QED BY <1>2, <2>1 DEF Detachers
<1>5. ASSUME NEW t \in Detachers, DetachSessionWait(t) PROVE OncePerSession'
  <2>1. UNCHANGED loop /\ pc[t] = "sessWait"
    BY <1>5 DEF DetachSessionWait
  <2>2. /\ Noticed(session)
        /\ \A u \in Detachers : pc'[u] = IF Starts(session, u) THEN "lock"
                                         ELSE IF u = t THEN AfterDetach(t) ELSE pc[u]
    BY <1>1, <1>5, DetachNotices
  <2>3. \A i \in Ids : pc'[i] # "idle" => pc[i] # "idle" \/ notified'[i]
    BY <2>1, <2>2 DEF Noticed, Starts, Detachers
  <2>4. \A i \in Ids : pc[i] = "done" => pc'[i] = "done"
    BY <2>1, <2>2 DEF OncePerSession, Starts, Detachers
  <2> QED BY <1>2, <2>1, <2>2, <2>3, <2>4 DEF Noticed
<1>6. ASSUME UNCHANGED loop, NEW s \in Ids, Noticed(s),
             \A u \in Detachers : pc'[u] = IF Starts(s, u) THEN "lock" ELSE pc[u]
      PROVE  OncePerSession'
  <2>1. \A i \in Ids : pc'[i] # "idle" => pc[i] # "idle" \/ notified'[i]
    BY <1>6 DEF Noticed, Starts, Detachers
  <2>2. \A i \in Ids : pc[i] = "done" => pc'[i] = "done"
    BY <1>6 DEF OncePerSession, Starts, Detachers
  <2> QED BY <1>2, <1>6, <2>1, <2>2 DEF Noticed
<1>7. CASE MonitorStopped
  BY <1>1, <1>6, <1>7, MonitorNotices DEF MonitorStopped
<1>8. ASSUME NEW s \in Ids, ReaderExit(s) \/ WriterAbort(s) PROVE OncePerSession'
  <2>1. Abort(s) /\ UNCHANGED loop
    BY <1>8 DEF ReaderExit, WriterAbort, Abort
  <2> QED BY <1>1, <1>2, <1>6, <2>1, AbortNotices
<1>9. ASSUME NEW i \in Ids, StartReconnectLoop(i) PROVE OncePerSession'
  <2>1. /\ pc[i] = "decide" /\ pc' = [pc EXCEPT ![i] = "done"] /\ UNCHANGED notified
        /\ \A j \in Ids : j # i => loop'[j] = loop[j]
    BY <1>1, <1>9 DEF StartReconnectLoop, Goto, TypeOK, sessVars
  <2> QED BY <1>1, <2>1 DEF OncePerSession, TypeOK, Detachers
<1>10. ASSUME NEW i \in Ids, LoopDial(i) \/ LoopAttach(i) \/ LoopReset(i)
       PROVE  \A j \in Ids : loop'[j] # "none" => loop[j] # "none"
  BY <1>1, <1>10 DEF LoopDial, LoopAttach, LoopReset, TypeOK
<1>11. ASSUME \/ \E i \in Ids : PeerLoss(i) \/ HandlerStart(i) \/ HandlerReply(i)
              \/ MonitorSend \/ MonitorSent \/ MonitorStop \/ MonitorExit
              \/ BeatStart \/ BeatSent \/ BeatExit
              \/ UNCHANGED vars
       PROVE  UNCHANGED loop
  BY <1>11 DEF PeerLoss, HandlerStart, HandlerReply, MonitorSend, MonitorSent, MonitorStop,
     MonitorExit, BeatStart, BeatSent, BeatExit, vars
<1> QED BY <1>2, <1>3, <1>4, <1>5, <1>7, <1>8, <1>9, <1>10, <1>11, Steps, QuietMoves

(* attachMu goes to one goroutine at a time and is given back by it. *)
LEMMA NextMutex == TypeInv /\ OncePerSession /\ Mutex /\ [Next]_vars => Mutex'
<1> SUFFICES ASSUME TypeInv, OncePerSession, Mutex, [Next]_vars PROVE Mutex'
  OBVIOUS
<1>1. TypeOK
  BY DEF TypeInv
<1>2. ASSUME UNCHANGED attachMu,
             \A t \in Detachers : pc'[t] \in {"monWait", "sessWait"}
                                     <=> pc[t] \in {"monWait", "sessWait"}
      PROVE  Mutex'
  BY <1>2 DEF Mutex
<1>3. ASSUME NEW u \in Users,
             ConnectDial(u) \/ ConnectAttach(u) \/ CloseCall(u) \/ CloseConn(u)
      PROVE  Mutex'
  <2>1. /\ \A t \in Detachers : t # u => pc'[t] = pc[t]
        /\ pc[u] \in {"idle", "attach", "closeConn"} /\ pc'[u] \in {"idle", "attach", "lock"}
        /\ UNCHANGED attachMu
    BY <1>1, <1>3, UserMoves
  <2>2. \A t \in Detachers : pc'[t] \in {"monWait", "sessWait"}
                                <=> pc[t] \in {"monWait", "sessWait"}
    BY <2>1
  <2> QED BY <1>2, <2>1, <2>2
<1>4. ASSUME NEW t \in Detachers, DetachLock(t) PROVE Mutex'
  BY <1>1, <1>4, LifecycleAssumption DEF LifecycleAssumption, DetachLock, Goto, Mutex, TypeOK
<1>5. ASSUME NEW t \in Detachers, DetachMonitorWait(t) PROVE Mutex'
  BY <1>1, <1>2, <1>5 DEF DetachMonitorWait, Goto, TypeOK
<1>6. ASSUME NEW t \in Detachers, DetachSessionWait(t) PROVE Mutex'
  <2>1. pc[t] = "sessWait" /\ attachMu' = NoOne
    BY <1>6 DEF DetachSessionWait
  <2>2. \A u \in Detachers : pc'[u] = IF Starts(session, u) THEN "lock"
                                      ELSE IF u = t THEN AfterDetach(t) ELSE pc[u]
    BY <1>1, <1>6, DetachNotices
  <2>3. \A u \in Detachers : u # t => pc[u] \notin {"monWait", "sessWait"}
    BY <2>1 DEF Mutex
  <2> QED BY <2>1, <2>2, <2>3, LifecycleAssumption DEF LifecycleAssumption, Mutex, AfterDetach
<1>7. ASSUME UNCHANGED attachMu, NEW s \in Ids,
             \A u \in Detachers : pc'[u] = IF Starts(s, u) THEN "lock" ELSE pc[u]
      PROVE  Mutex'
  <2>1. \A u \in Detachers : Starts(s, u) => pc[u] = "idle"
    BY DEF Starts, OncePerSession
  <2> QED BY <1>2, <1>7, <2>1
<1>8. CASE MonitorStopped
  BY <1>1, <1>7, <1>8, MonitorNotices DEF MonitorStopped
<1>9. ASSUME NEW s \in Ids, ReaderExit(s) \/ WriterAbort(s) PROVE Mutex'
  <2>1. Abort(s) /\ UNCHANGED attachMu
    BY <1>9 DEF ReaderExit, WriterAbort, Abort
  <2> QED BY <1>1, <1>2, <1>7, <2>1, AbortNotices
<1>10. ASSUME NEW i \in Ids, StartReconnectLoop(i) PROVE Mutex'
  BY <1>1, <1>2, <1>10 DEF StartReconnectLoop, Goto, TypeOK
<1>11. ASSUME UNCHANGED <<pc, attachMu>> PROVE Mutex'
  BY <1>2, <1>11
<1> QED BY <1>3, <1>4, <1>5, <1>6, <1>8, <1>9, <1>10, <1>11, Steps, QuietMoves

(* Until the next attach the monitor that was waited for is out. *)
LEMMA NextMonitorOut ==
    TypeInv /\ OncePerSession /\ Mutex /\ MonitorOut /\ [Next]_vars => MonitorOut'
<1> SUFFICES ASSUME TypeInv, OncePerSession, Mutex, MonitorOut, [Next]_vars PROVE MonitorOut'
  OBVIOUS
<1> DEFINE Out == monitor \in {"unstarted", "exited"}
<1>1. TypeOK
  BY DEF TypeInv
<1>2. ASSUME Out => Out', session' = Nil => session = Nil,
             \A t \in Detachers : pc'[t] = "sessWait" => pc[t] = "sessWait"
      PROVE  MonitorOut'
  BY <1>2 DEF MonitorOut
<1>3. ASSUME NEW u \in Users, ConnectDial(u) \/ CloseCall(u) \/ CloseConn(u) PROVE MonitorOut'
  <2>1. \A t \in Detachers : pc'[t] = "sessWait" => pc[t] = "sessWait"
    BY <1>1, <1>3, UserMoves
  <2>2. UNCHANGED <<session, monitor>>
    BY <1>3 DEF ConnectDial, CloseCall, CloseConn, tickVars
  <2> QED BY <1>2, <2>1, <2>2
<1>4. ASSUME NEW t \in Detachers, AttachSession(t), mine[t] \in Ids,
             \A u \in Detachers : pc'[u] = "sessWait" => pc[u] = "sessWait"
      PROVE  MonitorOut'
  <2>1. session' # Nil /\ attachMu = NoOne
    BY <1>4 DEF AttachSession, Nil, Ids
  <2>2. \A u \in Detachers : pc[u] # "sessWait"
    BY <2>1, LifecycleAssumption DEF LifecycleAssumption, Mutex
  <2> QED BY <1>4, <2>1, <2>2 DEF MonitorOut
<1>5. ASSUME NEW u \in Users, ConnectAttach(u) PROVE MonitorOut'
  BY <1>1, <1>4, <1>5, UserMoves DEF ConnectAttach, Goto, TypeInv, MineIsSet, Detachers
<1>6. ASSUME NEW i \in Ids, LoopAttach(i) PROVE MonitorOut'
  BY <1>4, <1>6 DEF LoopAttach, TypeInv, MineIsSet, Detachers
<1>7. ASSUME NEW t \in Detachers, DetachLock(t) PROVE MonitorOut'
  BY <1>1, <1>2, <1>7 DEF DetachLock, Goto, TypeOK
<1>8. ASSUME NEW t \in Detachers, DetachMonitorWait(t) PROVE MonitorOut'
  BY <1>8 DEF DetachMonitorWait, MonitorOut, tickVars
<1>9. ASSUME NEW t \in Detachers, DetachSessionWait(t) PROVE MonitorOut'
  BY <1>9 DEF DetachSessionWait, MonitorOut, tickVars
<1>10. ASSUME NEW s \in Ids, \A u \in Detachers : pc'[u] = IF Starts(s, u) THEN "lock" ELSE pc[u],
              Out => Out', UNCHANGED session
       PROVE  MonitorOut'
  BY <1>2, <1>10
<1>11. CASE MonitorStopped
  <2>1. ~Out /\ UNCHANGED session
    BY <1>11 DEF MonitorStopped
  <2> QED BY <1>1, <1>10, <1>11, <2>1, MonitorNotices
<1>12. ASSUME NEW s \in Ids, ReaderExit(s) \/ WriterAbort(s) PROVE MonitorOut'
  <2>1. Abort(s) /\ UNCHANGED <<session, monitor>>
    BY <1>12 DEF ReaderExit, WriterAbort, Abort, tickVars
  <2> QED BY <1>1, <1>2, <1>10, <2>1, AbortNotices
<1>13. ASSUME NEW i \in Ids, StartReconnectLoop(i) PROVE MonitorOut'
  BY <1>1, <1>2, <1>13 DEF StartReconnectLoop, Goto, TypeOK, tickVars
<1>14. ASSUME \/ \E i \in Ids : \/ LoopDial(i) \/ LoopReset(i)
                                \/ PeerLoss(i) \/ HandlerStart(i) \/ HandlerReply(i)
              \/ MonitorSend \/ MonitorSent \/ MonitorStop \/ MonitorExit
              \/ BeatStart \/ BeatSent \/ BeatExit
              \/ UNCHANGED vars
       PROVE  MonitorOut'
  <2>1. UNCHANGED session /\ (Out => Out')
    BY <1>14 DEF LoopDial, LoopReset, PeerLoss, HandlerStart, HandlerReply,
       MonitorSend, MonitorSent, MonitorStop, MonitorExit, BeatStart, BeatSent, BeatExit,
       tickVars, vars
  <2>2. UNCHANGED pc
    BY <1>14, QuietMoves
  <2> QED BY <1>2, <2>1, <2>2
<1> QED BY <1>3, <1>5, <1>6, <1>7, <1>8, <1>9, <1>11, <1>12, <1>13, <1>14, Steps

(* A session is attached before its end is noticed, and whoever noticed it  *)
(* starts a goroutine that detaches it. *)
LEMMA NextOwnDetach ==
    TypeInv /\ Fresh /\ Attached /\ OncePerSession /\ OwnDetach /\ [Next]_vars => OwnDetach'
<1> SUFFICES ASSUME TypeInv, Fresh, Attached, OncePerSession, OwnDetach, [Next]_vars
             PROVE  OwnDetach'
  OBVIOUS
<1> DEFINE Detaching(i) == pc[i] \in {"lock", "monWait", "sessWait"}
<1>1. TypeOK
  BY DEF TypeInv
<1>2. ASSUME UNCHANGED <<session, notified>>, \A i \in Ids : Detaching(i) => Detaching(i)'
      PROVE  OwnDetach'
  BY <1>1, <1>2 DEF OwnDetach, TypeOK
<1>3. ASSUME NEW u \in Users, ConnectDial(u) \/ CloseCall(u) \/ CloseConn(u) PROVE OwnDetach'
  <2>1. UNCHANGED notified /\ \A i \in Ids : pc'[i] = pc[i]
    BY <1>1, <1>3, UserMoves
  <2>2. UNCHANGED session
    BY <1>3 DEF ConnectDial, CloseCall, CloseConn
  <2> QED BY <1>2, <2>1, <2>2
<1>4. ASSUME NEW t \in Detachers, AttachSession(t), mine[t] \in Ids, Pending(t) PROVE OwnDetach'
  <2>1. session' = mine[t] /\ UNCHANGED notified /\ reader[mine[t]] = "none"
    BY <1>4 DEF AttachSession, Fresh
  <2> QED BY <1>4, <2>1 DEF OwnDetach, Attached
<1>5. ASSUME NEW u \in Users, ConnectAttach(u) PROVE OwnDetach'
  BY <1>4, <1>5 DEF ConnectAttach, Goto, Pending, TypeInv, MineIsSet, Detachers
<1>6. ASSUME NEW i \in Ids, LoopAttach(i) PROVE OwnDetach'
  <2>1. Pending(i) /\ mine[i] \in Ids /\ i \in Detachers /\ AttachSession(i)
    BY <1>6, LifecycleAssumption DEF LifecycleAssumption, LoopAttach, Pending, TypeInv,
       MineIsSet, Detachers
  <2> QED BY <1>4, <2>1
<1>7. ASSUME NEW t \in Detachers, DetachLock(t) \/ DetachMonitorWait(t) PROVE OwnDetach'
  <2>1. UNCHANGED <<session, notified>>
    BY <1>7 DEF DetachLock, DetachMonitorWait, sessVars
  <2>2. \A i \in Ids : Detaching(i) => Detaching(i)'
    BY <1>1, <1>7 DEF DetachLock, DetachMonitorWait, Goto, TypeOK, Detachers
  <2> QED BY <1>2, <2>1, <2>2
<1>8. ASSUME NEW t \in Detachers, DetachSessionWait(t) PROVE OwnDetach'
  BY <1>8 DEF DetachSessionWait, OwnDetach
<1>9. ASSUME UNCHANGED session, NEW s \in Ids, Noticed(s),
             \A u \in Detachers : pc'[u] = IF Starts(s, u) THEN "lock" ELSE pc[u]
      PROVE  OwnDetach'
  BY <1>1, <1>9 DEF OwnDetach, Noticed, Starts, Detachers, TypeOK
<1>10. CASE MonitorStopped
  BY <1>1, <1>9, <1>10, MonitorNotices DEF MonitorStopped
<1>11. ASSUME NEW s \in Ids, ReaderExit(s) \/ WriterAbort(s) PROVE OwnDetach'
  <2>1. Abort(s) /\ UNCHANGED session
    BY <1>11 DEF ReaderExit, WriterAbort, Abort
  <2> QED BY <1>1, <1>2, <1>9, <2>1, AbortNotices
<1>12. ASSUME NEW i \in Ids, StartReconnectLoop(i) PROVE OwnDetach'
  BY <1>1, <1>2, <1>12 DEF StartReconnectLoop, Goto, TypeOK, sessVars
<1>13. ASSUME \/ \E i \in Ids : \/ LoopDial(i) \/ LoopReset(i)
                                \/ PeerLoss(i) \/ HandlerStart(i) \/ HandlerReply(i)
              \/ MonitorSend \/ MonitorSent \/ MonitorStop \/ MonitorExit
              \/ BeatStart \/ BeatSent \/ BeatExit
              \/ UNCHANGED vars
       PROVE  OwnDetach'
  <2>1. UNCHANGED session
    BY <1>13 DEF LoopDial, LoopReset, PeerLoss, HandlerStart, HandlerReply,
       MonitorSend, MonitorSent, MonitorStop, MonitorExit, BeatStart, BeatSent, BeatExit, vars
  <2>2. UNCHANGED <<pc, notified>>
    BY <1>13, QuietMoves
  <2> QED BY <1>2, <2>1, <2>2
<1> QED BY <1>3, <1>5, <1>6, <1>7, <1>8, <1>10, <1>11, <1>12, <1>13, Steps

-----------------------------------------------------------------------------
(* The steps that attach nothing: every source was one before.              *)
Attaches == (\E u \in Users : ConnectAttach(u)) \/ (\E i \in Ids : LoopAttach(i))

LEMMA SourcesStay ==
    ASSUME TypeInv, Attached, OncePerSession, [Next]_vars, ~Attaches
    PROVE  UNCHANGED connects /\ \A i \in Ids : Source(i)' => Source(i)
<1>1. TypeOK
  BY DEF TypeInv
<1>2. \A i \in Ids : reader'[i] # "none" => reader[i] # "none"
  BY ReadersOnly DEF Attaches
<1>3. ASSUME \A i \in Ids : notified[i] => notified'[i],
             \A i \in Ids : Closing(i)' => Source(i),
             \A i \in Ids : Dialling(i)' => Source(i)
      PROVE  \A i \in Ids : Source(i)' => Source(i)
  BY <1>2, <1>3 DEF Source
<1>4. ASSUME NEW u \in Users, ConnectDial(u) \/ CloseCall(u) \/ CloseConn(u)
      PROVE  \A i \in Ids : Source(i)' => Source(i)
  <2>1. UNCHANGED <<notified, loop>> /\ \A i \in Ids : pc'[i] = pc[i]
    BY <1>1, <1>4, UserMoves
  <2> QED BY <1>3, <2>1 DEF Source, Closing, Dialling
<1>5. ASSUME NEW t \in Detachers, DetachLock(t) \/ DetachMonitorWait(t)
      PROVE  \A i \in Ids : Source(i)' => Source(i)
  <2>1. /\ UNCHANGED <<notified, loop>>
        /\ pc[t] \in {"lock", "monWait"}
        /\ \A u \in Detachers : u # t => pc'[u] = pc[u]
    BY <1>1, <1>5 DEF DetachLock, DetachMonitorWait, Goto, TypeOK, sessVars
  <2>2. \A i \in Ids : Closing(i)' => Closing(i)
    BY <2>1 DEF Closing, Detachers
  <2> QED BY <1>3, <2>1, <2>2 DEF Source, Dialling
<1>6. ASSUME NEW s \in Ids \cup {Nil}, Noticed(s), s # Nil => reader[s] # "none",
             UNCHANGED loop,
             \A i \in Ids : (pc'[i] = "lock" /\ Starts(s, i)) \/ (Closing(i)' => Closing(i))
      PROVE  \A i \in Ids : Source(i)' => Source(i)
  <2>1. \A i \in Ids : Starts(s, i) => Source(i)
    BY <1>6 DEF Starts, Source, Ids, Nil
  <2>2. \A i \in Ids : notified[i] => notified'[i]
    BY <1>6 DEF Noticed
  <2> QED BY <1>3, <1>6, <2>1, <2>2 DEF Source, Dialling
<1>7. ASSUME NEW t \in Detachers, DetachSessionWait(t)
      PROVE  \A i \in Ids : Source(i)' => Source(i)
  <2>1. UNCHANGED loop /\ pc[t] = "sessWait" /\ session \in Ids \cup {Nil}
    BY <1>1, <1>7 DEF DetachSessionWait, TypeOK
  <2>2. /\ Noticed(session)
        /\ \A u \in Detachers : pc'[u] = IF Starts(session, u) THEN "lock"
                                         ELSE IF u = t THEN AfterDetach(t) ELSE pc[u]
    BY <1>1, <1>7, DetachNotices
  <2>3. \A i \in Ids : (pc'[i] = "lock" /\ Starts(session, i)) \/ (Closing(i)' => Closing(i))
    BY <2>1, <2>2 DEF Closing, Detachers
  <2> QED BY <1>6, <2>1, <2>2, <2>3 DEF Attached
<1>8. ASSUME NEW s \in Ids, reader[s] # "none", Noticed(s), UNCHANGED loop,
             \A u \in Detachers : pc'[u] = IF Starts(s, u) THEN "lock" ELSE pc[u]
      PROVE  \A i \in Ids : Source(i)' => Source(i)
  <2>1. \A i \in Ids : (pc'[i] = "lock" /\ Starts(s, i)) \/ (Closing(i)' => Closing(i))
    BY <1>8 DEF Closing, Detachers
  <2> QED BY <1>6, <1>8, <2>1
<1>9. ASSUME MonitorStopped
      PROVE  \A i \in Ids : Source(i)' => Source(i)
  <2>1. monitor = "stop" /\ UNCHANGED loop
    BY <1>9 DEF MonitorStopped
  <2>2. /\ Noticed(monStopping) /\ monStopping \in Ids
        /\ \A u \in Detachers : pc'[u] = IF Starts(monStopping, u) THEN "lock" ELSE pc[u]
    BY <1>1, <1>9, MonitorNotices
  <2>3. reader[monStopping] # "none"
    BY <2>1 DEF Attached
  <2> QED BY <1>8, <2>1, <2>2, <2>3
<1>10. ASSUME NEW s \in Ids, ReaderExit(s) \/ WriterAbort(s)
       PROVE  \A i \in Ids : Source(i)' => Source(i)
  <2>1. Abort(s) /\ UNCHANGED loop /\ reader[s] # "none"
    BY <1>10 DEF ReaderExit, WriterAbort, Abort
  <2>2. CASE UNCHANGED <<notified, pc>>
    BY <1>3, <2>1, <2>2 DEF Source, Closing, Dialling
  <2> QED BY <1>1, <1>8, <2>1, <2>2, AbortNotices
<1>11. ASSUME NEW i \in Ids, StartReconnectLoop(i)
       PROVE  \A j \in Ids : Source(j)' => Source(j)
  <2>1. /\ pc[i] = "decide" /\ pc' = [pc EXCEPT ![i] = "done"] /\ UNCHANGED notified
        /\ \A j \in Ids : j # i => loop'[j] = loop[j]
    BY <1>1, <1>11 DEF StartReconnectLoop, Goto, TypeOK, sessVars
  <2>2. Source(i)
    BY <2>1 DEF Source, Closing
  <2> QED BY <1>1, <1>3, <2>1, <2>2 DEF Source, Closing, Dialling, TypeOK, Detachers
<1>12. ASSUME NEW i \in Ids, LoopDial(i) \/ LoopReset(i)
       PROVE  \A j \in Ids : Dialling(j)' => Dialling(j)
  BY <1>1, <1>12 DEF LoopDial, LoopReset, Dialling, TypeOK
<1>13. ASSUME \/ \E i \in Ids : PeerLoss(i) \/ HandlerStart(i) \/ HandlerReply(i)
              \/ MonitorSend \/ MonitorSent \/ MonitorStop \/ MonitorExit
              \/ BeatStart \/ BeatSent \/ BeatExit
              \/ UNCHANGED vars
       PROVE  UNCHANGED loop
  BY <1>13 DEF PeerLoss, HandlerStart, HandlerReply, MonitorSend, MonitorSent, MonitorStop,
     MonitorExit, BeatStart, BeatSent, BeatExit, vars
<1>14. ASSUME UNCHANGED <<pc, notified>>, \A i \in Ids : Dialling(i)' => Dialling(i)
       PROVE  \A i \in Ids : Source(i)' => Source(i)
  BY <1>3, <1>14 DEF Source, Closing
<1>15. UNCHANGED connects
  BY Steps DEF Attaches, ConnectDial, CloseCall, CloseConn, DetachLock, DetachMonitorWait,
     DetachSessionWait, StartReconnectLoop, LoopDial, LoopReset, PeerLoss, HandlerStart,
     HandlerReply, ReaderExit, WriterAbort, Abort, MonitorSend, MonitorSent, MonitorStop,
     MonitorStopped, MonitorExit, BeatStart, BeatSent, BeatExit, history, vars
<1>16. ASSUME UNCHANGED loop PROVE \A i \in Ids : Dialling(i)' => Dialling(i)
  BY <1>16 DEF Dialling
<1> QED BY <1>4, <1>5, <1>7, <1>9, <1>10, <1>11, <1>12, <1>13, <1>14, <1>15, <1>16, Steps,
       QuietMoves DEF Attaches

(* What AttachSession(t) does to the sources: the session attached is one    *)
(* more, and was none before. *)
LEMMA AttachedSource ==
    ASSUME TypeInv, Fresh, Attached, OncePerSession, NEW t \in Detachers, AttachSession(t),
           Pending(t), mine[t] \in Ids
    PROVE  /\ reader[mine[t]] = "none" /\ ~notified[mine[t]]
           /\ session' = mine[t] /\ session' # Nil /\ UNCHANGED notified
           /\ \A i \in Ids : reader'[i] = IF i = mine[t] THEN "read" ELSE reader[i]
<1>1. reader[mine[t]] = "none"
  BY DEF Fresh
<1>2. ~notified[mine[t]]
  BY <1>1 DEF Attached
<1> QED BY <1>1, <1>2 DEF AttachSession, TypeInv, TypeOK, Ids, Nil

(* Connect's first attach finds no session and no source, the reconnect     *)
(* loop's attach takes the place of the loop that makes it. *)
LEMMA ConnectAttaches ==
    ASSUME TypeInv, Fresh, Attached, OncePerSession, NEW u \in Users, ConnectAttach(u)
    PROVE  /\ u \in Detachers /\ AttachSession(u) /\ Pending(u) /\ mine[u] \in Ids
           /\ connects' = connects + 1 /\ connects \in Nat
           /\ UNCHANGED loop /\ \A i \in Ids : pc'[i] = pc[i]
<1>1. TypeOK
  BY DEF TypeInv
<1>2. \A i \in Ids : pc'[i] = pc[i]
  BY <1>1, UserMoves
<1> QED BY <1>1, <1>2 DEF ConnectAttach, Goto, Pending, TypeInv, TypeOK, MineIsSet, Detachers

LEMMA LoopAttaches ==
    ASSUME TypeInv, Fresh, Attached, OncePerSession, NEW i \in Ids, LoopAttach(i)
    PROVE  /\ i \in Detachers /\ AttachSession(i) /\ Pending(i) /\ mine[i] \in Ids
           /\ UNCHANGED <<connects, pc>>
           /\ Source(i) /\ Dialling(i) /\ ~Dialling(i)' /\ pc[i] = "done" /\ notified[i]
           /\ \A j \in Ids : j # i => loop'[j] = loop[j]
<1>1. i \notin Users /\ i \in Detachers
  BY LifecycleAssumption DEF LifecycleAssumption, Detachers
<1>2. loop[i] = "attach" /\ loop' = [loop EXCEPT ![i] = "reset"]
  BY DEF LoopAttach
<1>3. pc[i] = "done" /\ notified[i]
  BY <1>2 DEF OncePerSession
<1>4. Dialling(i) /\ ~Dialling(i)' /\ \A j \in Ids : j # i => loop'[j] = loop[j]
  BY <1>2 DEF Dialling, TypeInv, TypeOK
<1>5. Pending(i) /\ mine[i] \in Ids
  BY <1>1, <1>2 DEF Pending, TypeInv, MineIsSet
<1> QED BY <1>1, <1>3, <1>4, <1>5 DEF LoopAttach, Source, history

(* As long as the application connects once, one session leads to the next. *)
LEMMA NextOneSource ==
    TypeInv /\ Fresh /\ Attached /\ OncePerSession /\ OneSource /\ [Next]_vars => OneSource'
<1> SUFFICES ASSUME TypeInv, Fresh, Attached, OncePerSession, OneSource, [Next]_vars
             PROVE  OneSource'
  OBVIOUS
<1>1. CASE ~Attaches
  <2>1. UNCHANGED connects /\ \A i \in Ids : Source(i)' => Source(i)
    BY <1>1, SourcesStay
  <2>2. \A i \in Ids : reader[i] = "none" => reader'[i] = "none"
    BY <1>1, ReadersOnly DEF Attaches
  <2> QED BY <2>1, <2>2 DEF OneSource
<1>2. ASSUME NEW u \in Users, ConnectAttach(u) PROVE OneSource'
  <2>1. /\ u \in Detachers /\ AttachSession(u) /\ Pending(u) /\ mine[u] \in Ids
        /\ connects' = connects + 1 /\ connects \in Nat
        /\ UNCHANGED loop /\ \A i \in Ids : pc'[i] = pc[i]
    BY <1>2, ConnectAttaches
  <2>2. /\ UNCHANGED notified
        /\ \A i \in Ids : reader'[i] = IF i = mine[u] THEN "read" ELSE reader[i]
    BY <2>1, AttachedSource
  <2>3. CASE connects' > 1
    BY <2>1, <2>3 DEF OneSource
  <2>4. CASE connects = 0
    <3>1. \A i \in Ids : Source(i)' => i = mine[u]
      BY <2>1, <2>2, <2>4 DEF OneSource, Source, Closing, Dialling
    <3> QED BY <2>1, <2>4, <3>1 DEF OneSource
  <2> QED BY <2>1, <2>3, <2>4
<1>3. ASSUME NEW i \in Ids, LoopAttach(i) PROVE OneSource'
  <2>1. /\ i \in Detachers /\ AttachSession(i) /\ Pending(i) /\ mine[i] \in Ids
        /\ UNCHANGED <<connects, pc>>
        /\ Source(i) /\ ~Dialling(i)' /\ pc[i] = "done" /\ notified[i]
        /\ \A j \in Ids : j # i => loop'[j] = loop[j]
    BY <1>3, LoopAttaches
  <2>2. /\ UNCHANGED notified
        /\ \A j \in Ids : reader'[j] = IF j = mine[i] THEN "read" ELSE reader[j]
    BY <2>1, AttachedSource
  <2>3. \A j \in Ids : Source(j)' => Source(j) \/ j = mine[i]
    BY <2>1, <2>2 DEF Source, Closing, Dialling
  <2>4. ~Source(i)'
    BY <2>1, <2>2 DEF Source, Closing
  <2>5. connects' <= 1 => \A j \in Ids : Source(j)' => j = mine[i]
    BY <2>1, <2>3, <2>4 DEF OneSource
  <2> QED BY <2>1, <2>5 DEF OneSource
<1> QED BY <1>1, <1>2, <1>3 DEF Attaches

(* ... and the readLoops of the others are out. *)
LEMMA NextOneLive ==
    /\ TypeInv /\ Fresh /\ Attached /\ OncePerSession /\ OneSource /\ OneLive
    /\ [Next]_vars
    => OneLive'
<1> SUFFICES ASSUME TypeInv, Fresh, Attached, OncePerSession, OneSource, OneLive, [Next]_vars
             PROVE  OneLive'
  OBVIOUS
<1> DEFINE Live(i) == reader[i] \in {"read", "reply"}
           Due(i)  == pc[i] = "decide" \/ Dialling(i)
<1>1. TypeOK
  BY DEF TypeInv
<1>2. ASSUME NEW u \in Users, ConnectAttach(u) PROVE OneLive'
  <2>1. /\ u \in Detachers /\ AttachSession(u) /\ Pending(u) /\ mine[u] \in Ids
        /\ connects' = connects + 1 /\ connects \in Nat
        /\ UNCHANGED loop /\ \A i \in Ids : pc'[i] = pc[i]
    BY <1>2, ConnectAttaches
  <2>2. /\ session' = mine[u]
        /\ \A i \in Ids : reader'[i] = IF i = mine[u] THEN "read" ELSE reader[i]
    BY <2>1, AttachedSource
  <2>3. CASE connects' > 1
    BY <2>1, <2>3 DEF OneLive
  <2>4. CASE connects = 0
    <3>1. \A i \in Ids : reader[i] = "none" /\ pc[i] # "decide" /\ ~Dialling(i)
      BY <2>4 DEF OneSource, Source, Closing
    <3>2. \A i \in Ids : ~Due(i)'
      BY <2>1, <3>1 DEF Dialling
    <3> QED BY <2>2, <3>1, <3>2 DEF OneLive
  <2> QED BY <2>1, <2>3, <2>4
<1>3. ASSUME NEW i \in Ids, LoopAttach(i) PROVE OneLive'
  <2>1. /\ i \in Detachers /\ AttachSession(i) /\ Pending(i) /\ mine[i] \in Ids
        /\ UNCHANGED <<connects, pc>>
        /\ Source(i) /\ Dialling(i) /\ ~Dialling(i)' /\ pc[i] = "done"
        /\ \A j \in Ids : j # i => loop'[j] = loop[j]
    BY <1>3, LoopAttaches
  <2>2. /\ session' = mine[i]
        /\ \A j \in Ids : reader'[j] = IF j = mine[i] THEN "read" ELSE reader[j]
    BY <2>1, AttachedSource
  <2> SUFFICES ASSUME connects <= 1 PROVE OneLive'
    BY <2>1 DEF OneLive
  <2>3. session = Nil /\ \A j \in Ids : ~Live(j)
    BY <2>1 DEF OneLive, Nil, Ids
  <2>4. \A j \in Ids : Due(j) => j = i
    BY <2>1 DEF OneSource, Source, Closing
  <2>5. \A j \in Ids : ~Due(j)'
    BY <2>1, <2>4 DEF Dialling
  <2> QED BY <2>2, <2>3, <2>5 DEF OneLive
<1>4. ASSUME UNCHANGED connects,
             \A i \in Ids : Live(i)' => Live(i) /\ session' = session,
             \A i \in Ids : Due(i)' => Due(i) /\ session' = session
      PROVE  OneLive'
  BY <1>4 DEF OneLive
<1>5. ASSUME NEW t \in Detachers, DetachSessionWait(t) PROVE OneLive'
  <2>1. /\ session # Nil => reader[session] = "exited"
        /\ session' = Nil /\ UNCHANGED <<connects, reader>>
    BY <1>5 DEF DetachSessionWait, history
  <2>2. connects <= 1 => \A i \in Ids : ~Live(i)
    BY <2>1 DEF OneLive, Nil, Ids
  <2> QED BY <2>1, <2>2 DEF OneLive
<1>6. ASSUME ~Attaches, ~\E t \in Detachers : DetachSessionWait(t)
      PROVE  UNCHANGED <<connects, session>>
  BY <1>6, Steps DEF Attaches, ConnectDial, CloseCall, CloseConn, DetachLock, DetachMonitorWait,
     StartReconnectLoop, LoopDial, LoopReset, PeerLoss, HandlerStart,
     HandlerReply, ReaderExit, WriterAbort, Abort, MonitorSend, MonitorSent, MonitorStop,
     MonitorStopped, MonitorExit, BeatStart, BeatSent, BeatExit, history, vars
<1>7. ASSUME ~Attaches PROVE \A i \in Ids : Live(i)' => Live(i)
  <2>1. ASSUME NEW i \in Ids, HandlerStart(i) \/ HandlerReply(i) \/ ReaderExit(i)
        PROVE  \A j \in Ids : Live(j)' => Live(j)
    BY <1>1, <2>1 DEF HandlerStart, HandlerReply, ReaderExit, TypeOK
  <2>2. (~\E i \in Ids : HandlerStart(i) \/ HandlerReply(i) \/ ReaderExit(i)) => UNCHANGED reader
    BY <1>7, Steps DEF Attaches, ConnectDial, CloseCall, CloseConn, DetachLock,
       DetachMonitorWait, DetachSessionWait, StartReconnectLoop, LoopDial, LoopReset, PeerLoss,
       WriterAbort, MonitorSend, MonitorSent, MonitorStop, MonitorStopped, MonitorExit,
       BeatStart, BeatSent, BeatExit, sessVars, vars
  <2> QED BY <2>1, <2>2
<1>8. ASSUME ~Attaches, ~\E t \in Detachers : DetachSessionWait(t)
      PROVE  \A i \in Ids : Due(i)' => Due(i)
  <2>1. ASSUME NEW u \in Users, ConnectDial(u) \/ CloseCall(u) \/ CloseConn(u)
        PROVE  \A i \in Ids : Due(i)' => Due(i)
    BY <1>1, <2>1, UserMoves DEF Dialling
  <2>2. ASSUME NEW t \in Detachers, DetachLock(t) \/ DetachMonitorWait(t)
        PROVE  \A i \in Ids : Due(i)' => Due(i)
    BY <1>1, <2>2 DEF DetachLock, DetachMonitorWait, Goto, TypeOK, Detachers, Dialling
  <2>3. ASSUME NEW s \in Ids, UNCHANGED loop,
               \A u \in Detachers : pc'[u] = IF Starts(s, u) THEN "lock" ELSE pc[u]
        PROVE  \A i \in Ids : Due(i)' => Due(i)
    BY <2>3 DEF Dialling, Detachers
  <2>4. ASSUME MonitorStopped PROVE \A i \in Ids : Due(i)' => Due(i)
    <3>1. /\ monStopping \in Ids /\ UNCHANGED loop
          /\ \A u \in Detachers : pc'[u] = IF Starts(monStopping, u) THEN "lock" ELSE pc[u]
      BY <1>1, <2>4, MonitorNotices DEF MonitorStopped
    <3> QED BY <2>3, <3>1
  <2>5. ASSUME NEW s \in Ids, ReaderExit(s) \/ WriterAbort(s)
        PROVE  \A i \in Ids : Due(i)' => Due(i)
    <3>1. Abort(s) /\ UNCHANGED loop
      BY <2>5 DEF ReaderExit, WriterAbort, Abort
    <3>2. CASE UNCHANGED pc
      BY <3>1, <3>2 DEF Dialling
    <3> QED BY <1>1, <2>3, <3>1, <3>2, AbortNotices
  <2>6. ASSUME NEW i \in Ids, StartReconnectLoop(i) PROVE \A j \in Ids : Due(j)' => Due(j)
    BY <1>1, <2>6 DEF StartReconnectLoop, Goto, TypeOK, Detachers, Dialling
  <2>7. ASSUME NEW i \in Ids, LoopDial(i) \/ LoopReset(i)
        PROVE  \A j \in Ids : Due(j)' => Due(j)
    BY <1>1, <2>7 DEF LoopDial, LoopReset, Dialling, TypeOK
  <2>8. ASSUME \/ \E i \in Ids : PeerLoss(i) \/ HandlerStart(i) \/ HandlerReply(i)
               \/ MonitorSend \/ MonitorSent \/ MonitorStop \/ MonitorExit
               \/ BeatStart \/ BeatSent \/ BeatExit
               \/ UNCHANGED vars
        PROVE  \A i \in Ids : Due(i)' => Due(i)
    BY <2>8 DEF PeerLoss, HandlerStart, HandlerReply, MonitorSend, MonitorSent, MonitorStop,
       MonitorExit, BeatStart, BeatSent, BeatExit, vars, Dialling
  <2> QED BY <1>8, <2>1, <2>2, <2>4, <2>5, <2>6, <2>7, <2>8, Steps DEF Attaches
<1> QED BY <1>2, <1>3, <1>4, <1>5, <1>6, <1>7, <1>8 DEF Attaches

(* Whoever clears Session is, or has started, an OnClose goroutine, and it   *)
(* goes on to startReconnectLoop. *)
LEMMA NextFollowedUp ==
    TypeInv /\ OncePerSession /\ OwnDetach /\ FollowedUp /\ [Next]_vars => FollowedUp'
<1> SUFFICES ASSUME TypeInv, OncePerSession, OwnDetach, FollowedUp, [Next]_vars
             PROVE  FollowedUp'
  OBVIOUS
<1> DEFINE Due(i) == Closing(i) \/ Dialling(i)
<1>1. TypeOK
  BY DEF TypeInv
<1>2. ASSUME UNCHANGED <<connects, session>>, skipped => skipped',
             \A i \in Ids : Due(i) => Due(i)'
      PROVE  FollowedUp'
  <2>1. CASE EnableReconnect /\ connects > 0 /\ ~skipped /\ session = Nil
    <3>1. PICK i \in Ids : Due(i)
      BY <2>1 DEF FollowedUp
    <3> QED BY <1>2, <3>1 DEF FollowedUp
  <2>2. CASE ~(EnableReconnect /\ connects > 0 /\ ~skipped /\ session = Nil)
    BY <1>2, <2>2 DEF FollowedUp
  <2> QED BY <2>1, <2>2
<1>3. ASSUME NEW t \in Detachers, AttachSession(t), mine[t] \in Ids PROVE FollowedUp'
  BY <1>3 DEF AttachSession, FollowedUp, Nil, Ids
<1>4. ASSUME NEW u \in Users, ConnectAttach(u) PROVE FollowedUp'
  BY <1>3, <1>4 DEF ConnectAttach, Goto, TypeInv, MineIsSet, Detachers
<1>5. ASSUME NEW i \in Ids, LoopAttach(i) PROVE FollowedUp'
  BY <1>3, <1>5 DEF LoopAttach, TypeInv, MineIsSet, Detachers
<1>6. ASSUME NEW u \in Users, ConnectDial(u) \/ CloseCall(u) \/ CloseConn(u) PROVE FollowedUp'
  <2>1. UNCHANGED loop /\ \A i \in Ids : pc'[i] = pc[i]
    BY <1>1, <1>6, UserMoves
  <2>2. UNCHANGED <<session, connects, skipped>>
    BY <1>6 DEF ConnectDial, CloseCall, CloseConn, history
  <2> QED BY <1>2, <2>1, <2>2 DEF Closing, Dialling
<1>7. ASSUME NEW t \in Detachers, DetachLock(t) \/ DetachMonitorWait(t) PROVE FollowedUp'
  <2>1. /\ UNCHANGED <<loop, session, connects, skipped>>
        /\ pc'[t] \in {"monWait", "sessWait"}
        /\ \A u \in Detachers : u # t => pc'[u] = pc[u]
    BY <1>1, <1>7 DEF DetachLock, DetachMonitorWait, Goto, TypeOK, history
  <2>2. \A i \in Ids : Due(i) => Due(i)'
    BY <2>1 DEF Closing, Dialling, Detachers
  <2> QED BY <1>2, <2>1, <2>2
<1>8. ASSUME NEW t \in Detachers, DetachSessionWait(t) PROVE FollowedUp'
  <2>1. pc[t] = "sessWait" /\ UNCHANGED <<loop, connects, skipped>> /\ session' = Nil
    BY <1>8 DEF DetachSessionWait, history
  <2>2. \A u \in Detachers : pc'[u] = IF Starts(session, u) THEN "lock"
                                      ELSE IF u = t THEN AfterDetach(t) ELSE pc[u]
    BY <1>1, <1>8, DetachNotices
  <2>3. AfterDetach(t) = "decide" \/ t \notin Ids
    BY LifecycleAssumption DEF LifecycleAssumption, AfterDetach
  <2>4. \A i \in Ids : Closing(i) => Closing(i)'
    BY <2>2, <2>3 DEF Closing, Detachers
  <2>5. CASE session = Nil
    <3>1. \A i \in Ids : Due(i) => Due(i)'
      BY <2>1, <2>4 DEF Dialling
    <3> QED BY <1>2, <2>1, <2>5, <3>1
  <2>6. CASE session # Nil
    <3>1. session \in Ids
      BY <1>1, <2>6 DEF TypeOK
    <3>2. CASE notified[session]
      BY <2>4, <2>6, <3>1, <3>2 DEF OwnDetach, FollowedUp, Closing
    <3>3. CASE ~notified[session]
      <4>1. \E i \in Ids : Closing(i)'
        BY <2>2, <3>1, <3>3 DEF Starts, Detachers, Closing
      <4> QED BY <4>1 DEF FollowedUp
    <3> QED BY <3>2, <3>3
  <2> QED BY <2>5, <2>6
<1>9. ASSUME UNCHANGED <<session, connects, skipped, loop>>, NEW s \in Ids,
             \A u \in Detachers : pc'[u] = IF Starts(s, u) THEN "lock" ELSE pc[u]
      PROVE  FollowedUp'
  BY <1>2, <1>9 DEF Closing, Dialling, Detachers
<1>10. CASE MonitorStopped
  <2>1. /\ UNCHANGED <<session, connects, skipped, loop>> /\ monStopping \in Ids
        /\ \A u \in Detachers : pc'[u] = IF Starts(monStopping, u) THEN "lock" ELSE pc[u]
    BY <1>1, <1>10, MonitorNotices DEF MonitorStopped, history
  <2> QED BY <1>9, <2>1
<1>11. ASSUME NEW s \in Ids, ReaderExit(s) \/ WriterAbort(s) PROVE FollowedUp'
  <2>1. Abort(s) /\ UNCHANGED <<session, connects, skipped, loop>>
    BY <1>11 DEF ReaderExit, WriterAbort, Abort, history
  <2>2. CASE UNCHANGED pc
    BY <1>2, <2>1, <2>2 DEF Closing, Dialling
  <2> QED BY <1>1, <1>9, <2>1, <2>2, AbortNotices
<1>12. ASSUME NEW i \in Ids, StartReconnectLoop(i) PROVE FollowedUp'
  <2>1. /\ UNCHANGED <<session, connects>> /\ i \in Detachers
        /\ \A j \in Ids : j # i => pc'[j] = pc[j]
        /\ \A j \in Ids : j # i => loop'[j] = loop[j]
    BY <1>1, <1>12 DEF StartReconnectLoop, Goto, TypeOK, Detachers
  <2>2. CASE EnableReconnect /\ ~reconnectCtx
    <3>1. loop'[i] = "dial" /\ UNCHANGED skipped
      BY <1>1, <1>12, <2>2 DEF StartReconnectLoop, TypeOK
    <3>2. \A j \in Ids : Due(j) => Due(j)'
      BY <2>1, <3>1 DEF Closing, Dialling
    <3> QED BY <1>2, <2>1, <3>1, <3>2
  <2>3. CASE EnableReconnect /\ reconnectCtx
    <3>1. skipped' = TRUE
      BY <1>12, <2>3 DEF StartReconnectLoop
    <3> QED BY <3>1 DEF FollowedUp
  <2>4. CASE ~EnableReconnect
    BY <2>4 DEF FollowedUp
  <2> QED BY <2>2, <2>3, <2>4
<1>13. ASSUME NEW i \in Ids, LoopDial(i) \/ LoopReset(i) PROVE FollowedUp'
  <2>1. UNCHANGED <<session, connects, skipped, pc>>
    BY <1>13 DEF LoopDial, LoopReset, history
  <2>2. \A j \in Ids : Dialling(j) => Dialling(j)'
    BY <1>1, <1>13 DEF LoopDial, LoopReset, Dialling, TypeOK
  <2> QED BY <1>2, <2>1, <2>2 DEF Closing
<1>14. ASSUME \/ \E i \in Ids : PeerLoss(i) \/ HandlerStart(i) \/ HandlerReply(i)
              \/ MonitorSend \/ MonitorSent \/ MonitorStop \/ MonitorExit
              \/ BeatStart \/ BeatSent \/ BeatExit
              \/ UNCHANGED vars
       PROVE  FollowedUp'
  <2>1. UNCHANGED <<session, connects, skipped, pc, loop>>
    BY <1>14 DEF PeerLoss, HandlerStart, HandlerReply, MonitorSend, MonitorSent, MonitorStop,
       MonitorExit, BeatStart, BeatSent, BeatExit, history, vars
  <2> QED BY <1>2, <2>1 DEF Closing, Dialling
<1> QED BY <1>4, <1>5, <1>6, <1>7, <1>8, <1>10, <1>11, <1>12, <1>13, <1>14, Steps

-----------------------------------------------------------------------------
(* The invariant of sessions and their goroutines, and what it yields.       *)
SessInv == TypeInv /\ Bookkeeping /\ OneSource /\ OneLive /\ FollowedUp

LEMMA InitSessInv == Init => SessInv
<1> SUFFICES ASSUME Init PROVE SessInv
  OBVIOUS
<1>1. TypeInv
  BY InitIInv DEF IInv
<1>2. \A t \in Detachers : pc[t] = "idle"
  BY DEF Init
<1>3. \A i \in Ids : reader[i] = "none" /\ ~notified[i] /\ loop[i] = "none"
  BY DEF Init
<1>4. Fresh
  BY <1>2, <1>3 DEF Fresh, Pending, Detachers
<1>5. Attached /\ OncePerSession /\ OwnDetach /\ FollowedUp
  BY <1>2, <1>3 DEF Init, Attached, OncePerSession, OwnDetach, FollowedUp, Detachers
<1>6. Mutex /\ MonitorOut
  BY <1>2, LifecycleAssumption DEF LifecycleAssumption, Init, Mutex, MonitorOut
<1>7. OneSource /\ OneLive
  BY <1>2, <1>3 DEF OneSource, OneLive, Source, Closing, Dialling, Detachers
<1> QED BY <1>1, <1>4, <1>5, <1>6, <1>7 DEF SessInv, Bookkeeping

LEMMA SessInductive == Spec => []SessInv
<1>1. SessInv /\ [Next]_vars => SessInv'
  BY NextTypeOK, NextMineIsSet, NextFresh, NextAttached, NextOncePerSession, NextMutex,
     NextMonitorOut, NextOwnDetach, NextOneSource, NextOneLive, NextFollowedUp
     DEF SessInv, Bookkeeping, TypeInv
<1> QED BY InitSessInv, <1>1, PTL DEF Spec

(* An engine without a session is at rest: DetachSession gives up attachMu   *)
(* only with the monitor's goroutine gone (engine/attach.go), and every      *)
(* readLoop that the application's one Connect led to, by way of as many      *)
(* reconnect loops, is out before the next one starts. *)
THEOREM DetachedEngineIsQuiet == Spec => []DetachedIsQuiet
<1>1. SessInv => DetachedIsQuiet
  <2> SUFFICES ASSUME SessInv, session = Nil
               PROVE  /\ monitor \in {"unstarted", "exited"}
                      /\ connects <= 1 => \A i \in Ids : reader[i] \in {"none", "exited"}
    BY DEF DetachedIsQuiet
  <2>1. monitor \in {"unstarted", "exited"}
    BY DEF SessInv, Bookkeeping, MonitorOut
  <2>2. connects <= 1 => \A i \in Ids : reader[i] \in {"none", "exited"}
    BY DEF SessInv, OneLive, TypeInv, TypeOK, Nil, Ids
  <2> QED BY <2>1, <2>2
<1> QED BY <1>1, SessInductive, PTL

(* An engine that was to reconnect is left without a session for good only   *)
(* if an OnClose goroutine met a reconnectCtx that was still set (engine.go:205). *)
THEOREM StrandedBySkipping == Spec => []StrandedOnlyIfSkipped
<1>1. SessInv => StrandedOnlyIfSkipped
  BY DEF SessInv, FollowedUp, Closing, Dialling, StrandedOnlyIfSkipped, Stranded
<1> QED BY <1>1, SessInductive, PTL

(* The OnClose goroutine of a session detaches that session or none: the one *)
(* a reconnect loop attaches later is safe from it, with one Connect and any *)
(* number of Close calls, because the loop starts after the DetachSession of *)
(* the goroutine it comes from. *)
THEOREM OwnSessionDetached == Spec => NoStaleDetach
<1>1. SessInv /\ [Next]_vars =>
        \A i, j \in Ids : pc[i] = "monWait" /\ session = j /\ i # j => connects > 1
  <2> SUFFICES ASSUME SessInv, NEW i \in Ids, NEW j \in Ids,
                      pc[i] = "monWait", session = j, i # j, connects <= 1
               PROVE  FALSE
    BY DEF SessInv, TypeInv, TypeOK
  <2>1. Source(i)
    BY DEF Source, Closing
  <2>2. session # Nil
    BY DEF Nil, Ids
  <2>3. Source(j)
    BY <2>2 DEF SessInv, Bookkeeping, Attached, OwnDetach, Source, Closing
  <2> QED BY <2>1, <2>3 DEF SessInv, OneSource
<1>2. SessInv /\ [Next]_vars =>
        [\A i, j \in Ids :
           (pc[i] = "monWait" /\ pc'[i] = "sessWait" /\ session = j /\ i # j)
              => connects > 1]_vars
  BY <1>1
<1> QED BY <1>2, SessInductive, PTL DEF Spec, NoStaleDetach
=============================================================================
