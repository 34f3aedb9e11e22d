---------------------------- MODULE SessionProofs ----------------------------
(* Proofs about one session, for any number of senders and of callers of   *)
(* Stop, any channel capacity and any bounds; then about the manager of    *)
(* its sequence numbers, for any number of callers, any bounds and any     *)
(* combination of store faults; and last about the frames that its reading *)
(* loop cuts off the stream, for any messages and any reads.  The three    *)
(* share no state.                                                         *)
EXTENDS Session, SeqManager, Framing, SequenceTheorems, WellFoundedInduction, TLAPS

Closers == Stoppers \cup Loops
Closing(t) == pc[t] \in {"cancel", "closeConn", "closeChan"}

(* The control part of the type invariant, all that the shutdown needs.    *)
TypeControl ==
    /\ closed \in BOOLEAN
    /\ cancelled \in BOOLEAN
    /\ connOpen \in BOOLEAN
    /\ chClosed \in BOOLEAN
    /\ onCloseCalled \in BOOLEAN
    /\ callbacks \in Nat
    /\ pc \in [Threads -> Labels]

(* How far a closer has come shows in the flags it has set. *)
ClosingFlags ==
    /\ \A t \in Closers : Closing(t) => closed /\ ~chClosed
    /\ \A t \in Closers : pc[t] = "closeConn" => cancelled
    /\ \A t \in Closers : pc[t] = "closeChan" => cancelled /\ ~connOpen
    /\ \A t, u \in Closers : Closing(t) /\ Closing(u) => t = u
    /\ chClosed => closed

(* The callback belongs to the one closer that set onCloseCalled. *)
CallbackOnce ==
    /\ callbacks <= 1
    /\ ~onCloseCalled => callbacks = 0
    /\ \A t \in Closers : pc[t] = "callback" => onCloseCalled /\ callbacks = 0
    /\ \A t, u \in Closers : pc[t] = "callback" /\ pc[u] = "callback" => t = u

(* A Stop passes the wait only when both loops are out. *)
StopOrder ==
    \A t \in Stoppers :
        /\ pc[t] \in {"wait", "notify", "callback", "done"} => closed
        /\ pc[t] \in {"notify", "callback", "done"} => LoopsDone
        /\ pc[t] \in {"callback", "done"} => onCloseCalled

Control ==
    /\ TypeControl
    /\ ClosingFlags
    /\ CallbackOnce
    /\ StopOrder
    /\ CloseCarriedThrough

(* Initially the loops run and nobody is closing. *)
LEMMA InitControl == Init => Control
<1> SUFFICES ASSUME Init PROVE Control
  OBVIOUS
<1>1. TypeControl
  BY DEF Init, TypeControl, Labels
<1>2. \A t \in Closers : pc[t] \in {"select", "idle"}
  BY DEF Init, Closers, Threads
<1>3. ClosingFlags /\ CallbackOnce /\ StopOrder
  BY <1>2 DEF Init, ClosingFlags, CallbackOnce, StopOrder, Closing, Closers
<1> QED BY <1>1, <1>3 DEF Init, Control, CloseCarriedThrough

-----------------------------------------------------------------------------
(* A step of Send, of a loop or of StopCall that leaves the flags alone    *)
(* and moves one goroutine between labels outside the shutdown, or to its  *)
(* start.                                                                  *)
Work(t, from, to) ==
    /\ UNCHANGED <<closed, cancelled, chClosed, onCloseCalled, callbacks>>
    /\ connOpen' \in BOOLEAN /\ (connOpen' => connOpen)
    /\ Goto(t, from, to)

OutsideShutdown == {"idle", "enqueue", "select", "read", "dispatch", "write"}

LEMMA WorkControl ==
    ASSUME Control, NEW t \in Threads, NEW from \in OutsideShutdown,
           NEW to \in OutsideShutdown \cup {"claim"}, Work(t, from, to)
    PROVE  Control'
<1> USE DEF Control
<1>1. TypeControl'
  BY DEF TypeControl, Work, Goto, Labels, OutsideShutdown
<1>2. /\ pc'[t] = to /\ pc[t] = from
      /\ \A u \in Threads \ {t} : pc'[u] = pc[u]
  BY DEF TypeControl, Work, Goto
<1>3. Closers \subseteq Threads /\ Stoppers \subseteq Threads /\ Loops \subseteq Threads
  BY DEF Closers, Threads
<1>4. \A u \in Closers, l \in {"cancel", "closeConn", "closeChan", "wait", "notify",
                              "callback", "done"} : pc'[u] = l <=> pc[u] = l
  BY <1>2, <1>3 DEF OutsideShutdown
<1>5. ClosingFlags'
  <2>1. /\ closed' = closed /\ chClosed' = chClosed /\ cancelled' = cancelled
        /\ connOpen' => connOpen
    BY DEF Work, TypeControl
  <2>2. \A u \in Closers :
           /\ pc'[u] = "cancel" <=> pc[u] = "cancel"
           /\ pc'[u] = "closeConn" <=> pc[u] = "closeConn"
           /\ pc'[u] = "closeChan" <=> pc[u] = "closeChan"
    BY <1>4
  <2> QED BY <2>1, <2>2 DEF ClosingFlags, Closing
<1>6. CallbackOnce'
  BY <1>4 DEF CallbackOnce, Work
<1>7. LoopsDone => LoopsDone'
  BY <1>4 DEF LoopsDone, Closers
<1>8. StopOrder'
  BY <1>4, <1>7 DEF StopOrder, Work, Closers
<1>9. CloseCarriedThrough'
  BY <1>4 DEF CloseCarriedThrough, Work, Closers, TypeControl
<1> QED BY <1>1, <1>5, <1>6, <1>8, <1>9

(* Each step of the shutdown preserves the control invariant. *)
LEMMA ShutdownControl ==
    ASSUME Control, NEW t \in Closers, Shutdown(t)
    PROVE  Control'
<1> USE DEF Control
<1>1. Closers \subseteq Threads /\ Stoppers \subseteq Closers /\ Loops \subseteq Closers
  BY DEF Closers, Threads
<1>2. CASE Claim(t)
  BY <1>1, <1>2, SessionAssumption
     DEF Claim, Goto, TypeControl, ClosingFlags, CallbackOnce, StopOrder,
         CloseCarriedThrough, Closing, LoopsDone, Labels, Closers, Loops, Threads
<1>3. CASE Cancel(t)
  BY <1>1, <1>3, SessionAssumption
     DEF Cancel, Goto, TypeControl, ClosingFlags, CallbackOnce, StopOrder,
         CloseCarriedThrough, Closing, LoopsDone, Labels, Closers, Loops, Threads
<1>4. CASE CloseConn(t)
  BY <1>1, <1>4, SessionAssumption
     DEF CloseConn, Goto, TypeControl, ClosingFlags, CallbackOnce, StopOrder,
         CloseCarriedThrough, Closing, LoopsDone, Labels, Closers, Loops, Threads
<1>5. CASE CloseChan(t)
  BY <1>1, <1>5, SessionAssumption
     DEF CloseChan, Goto, TypeControl, ClosingFlags, CallbackOnce, StopOrder,
         CloseCarriedThrough, Closing, LoopsDone, Labels, Closers, Loops, Threads
<1>6. CASE Wait(t)
  BY <1>1, <1>6, SessionAssumption
     DEF Wait, Goto, TypeControl, ClosingFlags, CallbackOnce, StopOrder, flags,
         CloseCarriedThrough, Closing, LoopsDone, Labels, Closers, Loops, Threads
<1>7. CASE OnCloseOnce(t)
  BY <1>1, <1>7, SessionAssumption
     DEF OnCloseOnce, Goto, TypeControl, ClosingFlags, CallbackOnce, StopOrder,
         CloseCarriedThrough, Closing, LoopsDone, Labels, Closers, Loops, Threads
<1>8. CASE OnClose(t)
  BY <1>1, <1>8, SessionAssumption
     DEF OnClose, Goto, TypeControl, ClosingFlags, CallbackOnce, StopOrder,
         CloseCarriedThrough, Closing, LoopsDone, Labels, Closers, Loops, Threads
<1> QED BY <1>2, <1>3, <1>4, <1>5, <1>6, <1>7, <1>8 DEF Shutdown

(* Every step preserves the control invariant. *)
LEMMA NextControl == Control /\ [Next]_vars => Control'
<1> SUFFICES ASSUME Control, [Next]_vars PROVE Control'
  OBVIOUS
<1> DEFINE Starts == OutsideShutdown
           Ends   == OutsideShutdown \cup {"claim"}
<1>0. /\ Reader \in Threads /\ Writer \in Threads
      /\ Senders \cup {Reader} \subseteq Threads /\ Stoppers \subseteq Threads
      /\ connOpen \in BOOLEAN
  BY DEF Threads, Loops, Control, TypeControl
<1>1. ASSUME NEW s \in Senders \cup {Reader}, Send(s) PROVE Control'
  <2>1. \E from \in Starts, to \in Ends : Work(s, from, to)
    BY <1>0, <1>1
       DEF Send, SendCheck, SendEnqueue, SendFails, SendFrom, Work, Goto, flags,
           OutsideShutdown
  <2> QED BY <1>0, <2>1, WorkControl
<1>2. ASSUME NEW t \in Stoppers, StopCall(t) PROVE Control'
  <2>1. Work(t, "idle", "claim")
    BY <1>0, <1>2 DEF StopCall, Work, flags
  <2> QED BY <1>0, <2>1, WorkControl DEF OutsideShutdown
<1>3. ASSUME NEW t \in Stoppers \cup Loops, Shutdown(t) PROVE Control'
  BY <1>3, ShutdownControl DEF Closers
<1>4. ASSUME ReadLoop PROVE Control'
  <2>1. \E from \in Starts, to \in Ends : Work(Reader, from, to)
    BY <1>0, <1>4
       DEF ReadLoop, ReadSelect, ReadData, ReadError, Dispatched, Work, Goto, flags,
           OutsideShutdown
  <2> QED BY <1>0, <2>1, WorkControl
<1>5. ASSUME WriteLoop PROVE Control'
  <2>1. CASE WriteTake
    BY <1>0, <2>1, WorkControl DEF WriteTake, Work, flags, OutsideShutdown
  <2>2. CASE WriteExit
    BY <1>0, <2>2, WorkControl DEF WriteExit, Work, flags, OutsideShutdown
  <2>3. CASE WriteOK
    BY <1>0, <2>3, WorkControl DEF WriteOK, Work, flags, OutsideShutdown
  <2>4. CASE WriteError
    BY <1>0, <2>4, WorkControl DEF WriteError, Work, OutsideShutdown
  <2> QED BY <1>5, <2>1, <2>2, <2>3, <2>4 DEF WriteLoop
<1>6. CASE UNCHANGED vars
  BY <1>6 DEF vars, Control, TypeControl, ClosingFlags, CallbackOnce, StopOrder,
              CloseCarriedThrough, Closing, LoopsDone
<1> QED BY <1>1, <1>2, <1>3, <1>4, <1>5, <1>6 DEF Next

(* The control invariant holds throughout every behaviour. *)
THEOREM ControlCorrect == Spec => []Control
BY InitControl, NextControl, PTL DEF Spec

(* OnClose is invoked at most once per session. *)
THEOREM CallbackAtMostOnce == Spec => []OnCloseAtMostOnce
<1>1. Control => OnCloseAtMostOnce
  BY DEF Control, CallbackOnce, OnCloseAtMostOnce
<1> QED BY <1>1, ControlCorrect, PTL

(* When Stop has returned, both loops are out and the owner is told. *)
THEOREM StopQuiets == Spec => []StoppedMeansQuiet
<1>1. Control => StoppedMeansQuiet
  BY DEF Control, StopOrder, StoppedMeansQuiet
<1> QED BY <1>1, ControlCorrect, PTL

(* A session marked closed has an owner of the close until it is carried   *)
(* out.                                                                    *)
THEOREM CloseCompletes == Spec => []CloseCarriedThrough
<1>1. Control => CloseCarriedThrough
  BY DEF Control
<1> QED BY <1>1, ControlCorrect, PTL

(* Nobody closes the channel a second time. *)
THEOREM SingleCloser == Spec => []OneCloser
<1>1. Control => OneCloser
  BY DEF Control, ClosingFlags, OneCloser, Closing, Closers
<1> QED BY <1>1, ControlCorrect, PTL

-----------------------------------------------------------------------------
(* The data part: no frame is lost, doubled or overtaken between accepted, *)
(* the channel, the writer's hand and the wire.                            *)
TypeData ==
    /\ sendCh \in Seq(Frames) /\ Len(sendCh) <= Capacity
    /\ inbound \in 0 .. MaxInbound
    /\ parsed \in 0 .. MaxInbound
    /\ hold \in Seq(Frames) /\ Len(hold) <= 1
    /\ sends \in [Senders \cup {Reader} -> 0 .. MaxSends]
    /\ accepted \in Seq(Frames)
    /\ written \in Seq(Frames)

InHand ==
    /\ pc[Writer] = "select" => hold = <<>>
    /\ pc[Writer] = "write" => Len(hold) = 1
    /\ \A s \in Senders \cup {Reader} : pc[s] = "enqueue" => sends[s] > 0

Fifo == accepted = written \o (hold \o sendCh)

Data == TypeData /\ InHand /\ Fifo

(* Initially all four places are empty. *)
LEMMA InitData == Init => Data
<1> SUFFICES ASSUME Init PROVE Data
  OBVIOUS
<1>1. <<>> \in Seq(Frames) /\ Len(<<>>) = 0
  BY EmptySeq
<1>2. TypeData
  BY <1>1, SessionAssumption DEF Init, TypeData
<1>3. InHand
  BY SessionAssumption DEF Init, InHand, Threads, Loops
<1>4. Fifo
  BY <1>1, ConcatEmptySeq DEF Init, Fifo
<1> QED BY <1>2, <1>3, <1>4 DEF Data

(* Concatenation of frame sequences is associative, quantified. *)
LEMMA FramesAssoc ==
    \A a, b, c \in Seq(Frames) : (a \o b) \o c = a \o (b \o c)
<1> SUFFICES ASSUME NEW a \in Seq(Frames), NEW b \in Seq(Frames), NEW c \in Seq(Frames)
             PROVE  (a \o b) \o c = a \o (b \o c)
  OBVIOUS
<1> QED BY ConcatAssociative

(* A frame accepted into the channel is the last on its way to the wire.   *)
LEMMA AppendFifo ==
    ASSUME TypeData, Fifo, NEW f \in Frames
    PROVE  Append(accepted, f) = written \o (hold \o Append(sendCh, f))
<1> DEFINE one == <<f>>
<1>1. /\ accepted \in Seq(Frames) /\ written \in Seq(Frames) /\ hold \in Seq(Frames)
      /\ sendCh \in Seq(Frames) /\ one \in Seq(Frames)
  BY DEF TypeData
<1> HIDE DEF one
<1>2. Append(accepted, f) = accepted \o one /\ Append(sendCh, f) = sendCh \o one
  BY <1>1, AppendIsConcat DEF one
<1>3. hold \o sendCh \in Seq(Frames)
  BY <1>1, ConcatProperties
<1>4. (written \o (hold \o sendCh)) \o one = written \o ((hold \o sendCh) \o one)
  <2>1. \A b \in Seq(Frames) : (written \o b) \o one = written \o (b \o one)
    BY ONLY <1>1, FramesAssoc, Zenon
  <2> QED BY ONLY <1>3, <2>1, Zenon
<1>5. (hold \o sendCh) \o one = hold \o (sendCh \o one)
  BY ONLY <1>1, FramesAssoc, Zenon
<1> QED BY <1>2, <1>4, <1>5 DEF Fifo

(* Every step preserves the data invariant. *)
LEMMA NextData == Data /\ Control /\ [Next]_vars => Data'
<1> SUFFICES ASSUME Data, Control, [Next]_vars PROVE Data'
  OBVIOUS
<1> USE DEF Data
<1>0. /\ Reader \in Threads /\ Writer \in Threads
      /\ Senders \cup {Reader} \subseteq Threads /\ Stoppers \subseteq Threads
      /\ Writer \notin Senders \cup {Reader} /\ Writer \notin Stoppers
      /\ Stoppers \cap (Senders \cup {Reader}) = {}
      /\ pc \in [Threads -> Labels]
  BY SessionAssumption DEF Threads, Loops, Control, TypeControl
<1>1. ASSUME NEW s \in Senders \cup {Reader}, SendCheck(s) PROVE Data'
  <2>1. TypeData'
    BY <1>1, SessionAssumption DEF SendCheck, TypeData
  <2>2. InHand'
    BY <1>0, <1>1, <2>1, SessionAssumption DEF SendCheck, Goto, SendFrom, TypeData, InHand
  <2>3. Fifo'
    BY <1>1 DEF SendCheck, Fifo
  <2> QED BY <2>1, <2>2, <2>3
<1>2. ASSUME NEW s \in Senders \cup {Reader}, SendEnqueue(s) PROVE Data'
  <2> DEFINE f == <<s, sends[s]>>
  <2>1. f \in Frames
    BY <1>2 DEF SendEnqueue, Goto, TypeData, InHand, Frames
  <2> HIDE DEF f
  <2>2. sendCh' = Append(sendCh, f) /\ accepted' = Append(accepted, f)
    BY <1>2 DEF SendEnqueue, f
  <2>3. sendCh' \in Seq(Frames) /\ accepted' \in Seq(Frames) /\ Len(sendCh') = Len(sendCh) + 1
    BY <2>1, <2>2, AppendProperties DEF TypeData
  <2>4. TypeData'
    BY <1>2, <2>3, SessionAssumption, LenProperties DEF SendEnqueue, TypeData
  <2>5. InHand'
    BY <1>0, <1>2 DEF SendEnqueue, Goto, SendFrom, InHand
  <2>6. Fifo'
    BY <1>2, <2>1, <2>2, AppendFifo DEF SendEnqueue, Fifo
  <2> QED BY <2>4, <2>5, <2>6
<1>3. ASSUME NEW s \in Senders \cup {Reader}, SendFails(s) PROVE Data'
  BY <1>0, <1>3 DEF SendFails, Goto, SendFrom, TypeData, InHand, Fifo
<1>4. ASSUME NEW t \in Stoppers, StopCall(t) PROVE Data'
  BY <1>0, <1>4 DEF StopCall, Goto, TypeData, InHand, Fifo
<1>5. ASSUME NEW t \in Stoppers \cup Loops, Shutdown(t) PROVE Data'
  <2>1. /\ UNCHANGED <<sendCh, inbound, parsed, hold, sends, accepted, written>>
        /\ \E from, to \in Labels \ {"select", "write", "enqueue"} : Goto(t, from, to)
    BY <1>5 DEF Shutdown, Claim, Cancel, CloseConn, CloseChan, Wait, OnCloseOnce, OnClose,
                Goto, Labels
  <2> QED BY <1>0, <2>1 DEF Goto, TypeData, InHand, Fifo
<1>6. CASE ReadSelect \/ ReadError
  BY <1>0, <1>6 DEF ReadSelect, ReadError, Goto, TypeData, InHand, Fifo
<1>7. CASE ReadData
  <2>1. inbound' \in 0 .. MaxInbound /\ parsed' \in 0 .. MaxInbound
    BY <1>7, SessionAssumption DEF ReadData, TypeData
  <2> QED BY <1>0, <1>7, <2>1 DEF ReadData, Goto, TypeData, InHand, Fifo
<1>8. CASE Dispatched
  <2>1. parsed' \in 0 .. MaxInbound
    BY <1>8, SessionAssumption DEF Dispatched, TypeData
  <2> QED BY <1>0, <1>8, <2>1 DEF Dispatched, Goto, TypeData, InHand, Fifo
<1>9. CASE WriteTake
  <2>1. /\ Head(sendCh) \in Frames /\ Tail(sendCh) \in Seq(Frames)
        /\ Len(Tail(sendCh)) = Len(sendCh) - 1
        /\ hold = <<>> /\ <<Head(sendCh)>> \o Tail(sendCh) = sendCh
    BY <1>9, HeadTailProperties DEF WriteTake, Goto, TypeData, InHand
  <2>2. TypeData'
    BY <1>9, <2>1, SessionAssumption, LenProperties DEF WriteTake, TypeData
  <2>3. InHand'
    BY <1>0, <1>9, <2>1 DEF WriteTake, Goto, InHand
  <2>4. hold \o sendCh = sendCh
    BY <2>1, ConcatEmptySeq DEF TypeData
  <2>5. Fifo'
    BY <1>9, <2>1, <2>4 DEF WriteTake, Fifo
  <2> QED BY <2>2, <2>3, <2>5
<1>10. CASE WriteExit \/ WriteError
  BY <1>0, <1>10 DEF WriteExit, WriteError, Goto, TypeData, InHand, Fifo
<1>11. CASE WriteOK
  <2>1. written' \in Seq(Frames) /\ <<>> \in Seq(Frames) /\ Len(<<>>) = 0
    BY <1>11, ConcatProperties, EmptySeq DEF WriteOK, TypeData
  <2>2. TypeData'
    BY <1>11, <2>1 DEF WriteOK, TypeData
  <2>3. InHand'
    BY <1>0, <1>11 DEF WriteOK, Goto, InHand
  <2>4. written \o (hold \o sendCh) = (written \o hold) \o (<<>> \o sendCh)
    <3>1. <<>> \o sendCh = sendCh
      BY ConcatEmptySeq DEF TypeData
    <3>2. (written \o hold) \o sendCh = written \o (hold \o sendCh)
      BY FramesAssoc, Zenon DEF TypeData
    <3> QED BY <3>1, <3>2
  <2>5. Fifo'
    BY <1>11, <2>4 DEF WriteOK, Fifo
  <2> QED BY <2>2, <2>3, <2>5
<1>12. CASE UNCHANGED vars
  BY <1>12 DEF vars, TypeData, InHand, Fifo
<1> QED
  BY <1>1, <1>2, <1>3, <1>4, <1>5, <1>6, <1>7, <1>8, <1>9, <1>10, <1>11, <1>12
     DEF Next, Send, ReadLoop, WriteLoop

(* The data invariant holds throughout every behaviour. *)
THEOREM DataCorrect == Spec => []Data
BY InitData, NextData, ControlCorrect, PTL DEF Spec

(* Every variable keeps to its type. *)
THEOREM SessionTypeCorrect == Spec => []TypeOK
<1>1. Control /\ Data => TypeOK
  BY DEF Control, TypeControl, Data, TypeData, TypeOK
<1> QED BY <1>1, ControlCorrect, DataCorrect, PTL

-----------------------------------------------------------------------------
(* A session that is down stays down: no goroutine has a step that leaves  *)
(* "done" and none opens the channel again.                                *)
LEMMA DownStable ==
    ASSUME Control, [Next]_vars, Down
    PROVE  Down'
<1>0. /\ pc[Reader] = "done" /\ pc[Writer] = "done" /\ chClosed
      /\ Reader \in Threads /\ Writer \in Threads /\ pc \in [Threads -> Labels]
      /\ Writer \notin Senders \cup {Reader}
      /\ Loops \cap (Senders \cup Stoppers) = {}
  BY SessionAssumption DEF Down, LoopsDone, Loops, Threads, Control, TypeControl
<1>1. ASSUME NEW s \in Senders \cup {Reader}, Send(s) PROVE Down'
  BY <1>0, <1>1 DEF Send, SendCheck, SendEnqueue, SendFails, SendFrom, Goto, flags,
                    Down, LoopsDone, Loops
<1>2. ASSUME NEW t \in Stoppers, StopCall(t) PROVE Down'
  BY <1>0, <1>2 DEF StopCall, Goto, flags, Down, LoopsDone, Loops
<1>3. ASSUME NEW t \in Stoppers \cup Loops, Shutdown(t) PROVE Down'
  <2>1. pc[t] # "done" /\ (chClosed' = chClosed \/ chClosed') /\ \E from, to : Goto(t, from, to)
    BY <1>3 DEF Shutdown, Claim, Cancel, CloseConn, CloseChan, Wait, OnCloseOnce, OnClose,
                Goto, flags
  <2> QED BY <1>0, <2>1 DEF Goto, Down, LoopsDone, Loops
<1>4. ~ReadLoop /\ ~WriteLoop
  BY <1>0 DEF ReadLoop, ReadSelect, ReadData, ReadError, Dispatched, WriteLoop, WriteTake,
              WriteExit, WriteOK, WriteError, Goto
<1>5. CASE UNCHANGED vars
  BY <1>5 DEF vars, Down, LoopsDone
<1> QED BY <1>1, <1>2, <1>3, <1>4, <1>5 DEF Next

(* A step that accepts and writes nothing is a stutter or the link's       *)
(* GoDown.                                                                 *)
LEMMA QuietStep ==
    ASSUME Control, [Next]_vars, UNCHANGED <<accepted, written>>
    PROVE  [Link!Next]_Link!linkVars
<1>1. Down \in BOOLEAN /\ Down' \in BOOLEAN
  BY DEF Down, LoopsDone, Control, TypeControl
<1>2. Down => Down'
  BY DownStable
<1>3. CASE Down' = Down
  BY <1>3 DEF Link!linkVars
<1>4. CASE ~Down /\ Down'
  BY <1>1, <1>4 DEF Link!Next, Link!GoDown
<1> QED BY <1>1, <1>2, <1>3, <1>4

(* Each step of the session is a step of the FIFO link or a stutter.       *)
LEMMA StepRefines ==
    Control /\ Data /\ [Next]_vars => [Link!Next]_Link!linkVars
<1> SUFFICES ASSUME Control, Data, [Next]_vars PROVE [Link!Next]_Link!linkVars
  OBVIOUS
<1>0. /\ Writer \in Threads /\ pc \in [Threads -> Labels]
      /\ chClosed \in BOOLEAN
  BY DEF Threads, Loops, Control, TypeControl
<1>0a. Down \in BOOLEAN /\ Down' \in BOOLEAN
  BY NextControl DEF Down, LoopsDone, Control, TypeControl
<1>1. ASSUME NEW s \in Senders \cup {Reader}, SendEnqueue(s)
      PROVE  [Link!Next]_Link!linkVars
  <2>1. ~Down /\ ~Down'
    BY <1>1 DEF SendEnqueue, flags, Down
  <2>2. <<s, sends[s]>> \in Frames
    BY <1>1 DEF SendEnqueue, Goto, Data, TypeData, InHand, Frames
  <2>3. Link!Accept(<<s, sends[s]>>)
    <3>1. UNCHANGED <<written, Down>>
      BY <1>1, <1>0a, <2>1 DEF SendEnqueue
    <3> QED BY <1>1, <2>1, <3>1 DEF SendEnqueue, Link!Accept
  <2> QED BY <2>2, <2>3 DEF Link!Next
<1>2. CASE WriteOK
  <2>1. /\ written \in Seq(Frames) /\ hold \in Seq(Frames) /\ sendCh \in Seq(Frames)
        /\ Len(hold) = 1 /\ accepted = written \o (hold \o sendCh)
    BY <1>2 DEF WriteOK, Goto, Data, TypeData, InHand, Fifo
  <2>2. /\ hold[1] \in Frames /\ hold = <<hold[1]>>
    <3>1. hold \in [1 .. 1 -> Frames]
      BY <2>1, LenProperties
    <3> QED BY <3>1
  <2>3. written \o hold = Append(written, hold[1])
    BY <2>1, <2>2, AppendIsConcat
  <2>4. /\ hold \o sendCh \in Seq(Frames) /\ Len(hold \o sendCh) = 1 + Len(sendCh)
        /\ (hold \o sendCh)[1] = hold[1]
    <3>1. Len(sendCh) \in Nat
      BY <2>1, LenProperties
    <3>2. /\ hold \o sendCh \in Seq(Frames) /\ Len(hold \o sendCh) = Len(hold) + Len(sendCh)
          /\ \A i \in 1 .. Len(hold) + Len(sendCh) :
                (hold \o sendCh)[i] = IF i <= Len(hold) THEN hold[i] ELSE sendCh[i - Len(hold)]
      BY <2>1, ConcatProperties
    <3> QED BY <2>1, <3>1, <3>2
  <2>5. /\ Len(accepted) = Len(written) + 1 + Len(sendCh)
        /\ accepted[Len(written) + 1] = hold[1]
    <3>1. /\ Len(written) \in Nat /\ Len(sendCh) \in Nat
          /\ Len(accepted) = Len(written) + Len(hold \o sendCh)
          /\ \A i \in 1 .. Len(written) + Len(hold \o sendCh) :
                accepted[i] = IF i <= Len(written) THEN written[i]
                              ELSE (hold \o sendCh)[i - Len(written)]
      BY <2>1, <2>4, ConcatProperties, LenProperties
    <3> QED BY <2>4, <3>1
  <2>6. Len(written) < Len(accepted)
    BY <2>1, <2>5, LenProperties
  <2>7. ~Down /\ ~Down'
    BY <1>0, <1>2 DEF WriteOK, Goto, Down, LoopsDone, Loops
  <2>8. Link!Write
    <3>1. UNCHANGED <<accepted, Down>>
      BY <1>2, <1>0a, <2>7 DEF WriteOK
    <3> QED BY <1>2, <2>3, <2>5, <2>6, <2>7, <3>1 DEF WriteOK, Link!Write
  <2> QED BY <2>8 DEF Link!Next
<1>3. ASSUME ~WriteOK, \A s \in Senders \cup {Reader} : ~SendEnqueue(s)
      PROVE  UNCHANGED <<accepted, written>>
  BY <1>3 DEF Next, vars, Send, SendCheck, SendFails, StopCall, Shutdown, Claim, Cancel,
              CloseConn, CloseChan, Wait, OnCloseOnce, OnClose, ReadLoop, ReadSelect,
              ReadData, ReadError, Dispatched, WriteLoop, WriteTake, WriteExit, WriteError
<1> QED BY <1>1, <1>2, <1>3, QuietStep

(* The session implements the FIFO link: frames reach the wire in the      *)
(* order Send accepted them, none twice, none skipped, and nothing is      *)
(* accepted or written once the session is down.                           *)
THEOREM Refinement == Spec => ImplementsLink
<1>1. Init => Link!Init
  BY DEF Init, Link!Init, Down, LoopsDone, Loops, Threads
<1>2. Control /\ Data /\ [Next]_vars => [Link!Next]_Link!linkVars
  BY StepRefines
<1> QED
  BY <1>1, <1>2, ControlCorrect, DataCorrect, PTL DEF Spec, ImplementsLink, Link!Spec

-----------------------------------------------------------------------------
(* The sequence-number manager.                                            *)
InCall(c) == call[c].op # "none"

(* A caller that is in no call holds no snapshot. *)
IdleHasNoSnapshot == \A c \in Callers : ~InCall(c) => call[c] = Idle

(* While calls have not overlapped there is one of them at a time, its     *)
(* snapshot is still what memory holds, and every number handed out is     *)
(* covered by memory and by what a restart would load.                     *)
OneCallAtATime == clean => \A c, d \in Callers : InCall(c) /\ InCall(d) => c = d

SnapshotCurrent ==
    clean => \A c \in Callers :
        InCall(c) => call[c].vOut = outSeq /\ call[c].vIn = inSeq

IssuedCovered == clean => \A k \in issued : k <= outSeq /\ k <= Loaded(row.out)

SeqInv ==
    /\ SeqTypeOK
    /\ IdleHasNoSnapshot
    /\ OneCallAtATime
    /\ SnapshotCurrent
    /\ IssuedCovered
    /\ RowCurrentWhenQuiet

-----------------------------------------------------------------------------
(* What a load returns is a number that is not below the persisted one.    *)
LEMMA LoadedBounds ==
    ASSUME NEW n \in Numbers
    PROVE  Loaded(n) \in Numbers /\ Loaded(n) >= n /\ Loaded(n) >= 0
BY SeqManagerAssumption DEF Loaded, Numbers

(* The counters, the row and the calls keep to their types in the initial  *)
(* state.                                                                  *)
LEMMA SeqInitInv == SeqInit => SeqInv
<1> SUFFICES ASSUME SeqInit PROVE SeqInv
  OBVIOUS
<1>1. 0 \in Numbers /\ 0 \in 0 .. MaxRestarts /\ Idle \in Call
  BY SeqManagerAssumption DEF Numbers, Idle, Call, Ops
<1>2. SeqTypeOK
  BY <1>1 DEF SeqInit, SeqTypeOK, Row
<1>3. \A c \in Callers : call[c] = Idle /\ ~InCall(c)
  BY DEF SeqInit, InCall, Idle
<1>4. RowCurrentWhenQuiet
  BY DEF SeqInit, RowCurrentWhenQuiet
<1> QED
  BY <1>2, <1>3, <1>4
     DEF SeqInit, SeqInv, IdleHasNoSnapshot, OneCallAtATime, SnapshotCurrent, IssuedCovered

(* The locked half of any call preserves the invariant, whatever numbers   *)
(* it sets, as long as it leaves no issued number above the counter.       *)
LEMMA LockedInv ==
    ASSUME SeqInv, NEW c \in Callers, NEW op \in Ops \ {"none"},
           NEW newOut \in Numbers, NEW newIn \in Numbers,
           Locked(c, op, newOut, newIn),
           issued' \subseteq issued,
           clean => \A k \in issued' : k <= newOut
    PROVE  SeqInv'
<1> USE DEF SeqInv
<1>1. SeqTypeOK'
  BY DEF SeqTypeOK, Locked, Call
<1>2. /\ call'[c] = [op |-> op, vOut |-> newOut, vIn |-> newIn]
      /\ \A d \in Callers \ {c} : call'[d] = call[d]
  BY DEF SeqTypeOK, Locked
<1>3. IdleHasNoSnapshot'
  BY <1>2 DEF IdleHasNoSnapshot, InCall
<1>4. clean' => clean /\ \A d \in Callers : ~InCall(d)
  <2>1. clean' => clean /\ \A d \in Callers : call[d] = Idle
    BY Zenon DEF Locked
  <2> QED BY <2>1 DEF InCall, Idle
<1>5. OneCallAtATime'
  BY <1>2, <1>4 DEF OneCallAtATime, InCall
<1>6. SnapshotCurrent'
  <2> SUFFICES ASSUME clean', NEW d \in Callers, InCall(d)'
               PROVE  call'[d].vOut = outSeq' /\ call'[d].vIn = inSeq'
    BY DEF SnapshotCurrent
  <2>1. d = c
    BY <1>2, <1>4 DEF InCall
  <2> QED BY <2>1, <1>2 DEF Locked
<1>7. IssuedCovered'
  BY <1>4 DEF IssuedCovered, Locked, Loaded
<1>8. RowCurrentWhenQuiet'
  BY <1>2 DEF RowCurrentWhenQuiet, Idle
<1> QED BY <1>1, <1>3, <1>5, <1>6, <1>7, <1>8

(* The return of a call, whether its save reached the store or failed.     *)
LEMMA ReturnInv ==
    ASSUME SeqInv, NEW c \in Callers, Saved(c) \/ SaveFailed(c)
    PROVE  SeqInv'
<1> USE DEF SeqInv
<1>1. call[c] \in Call /\ InCall(c)
  BY DEF SeqTypeOK, Saved, SaveFailed, InCall
<1>2. /\ call' = [call EXCEPT ![c] = Idle]
      /\ inSeq' = inSeq /\ outSeq' = outSeq /\ clean' = clean /\ restarts' = restarts
  BY DEF Saved, SaveFailed
<1>3. /\ call'[c] = Idle
      /\ \A d \in Callers \ {c} : call'[d] = call[d]
  BY <1>2 DEF SeqTypeOK
<1>4. Idle \in Call
  BY SeqManagerAssumption DEF Idle, Call, Ops, Numbers
<1>5. SeqTypeOK'
  <2>1. call' \in [Callers -> Call]
    BY <1>2, <1>4 DEF SeqTypeOK
  <2>2. row' \in Row /\ issued' \subseteq Numbers /\ unsaved' \in BOOLEAN
    <3>1. call[c].vOut \in Numbers /\ call[c].vIn \in Numbers
      BY <1>1 DEF Call
    <3>2. CASE Saved(c)
      BY <3>1, <3>2 DEF SeqTypeOK, Saved, SaveSessionSeq, Row
    <3>3. CASE SaveFailed(c)
      BY <3>3 DEF SeqTypeOK, SaveFailed
    <3> QED BY <3>2, <3>3
  <2>3. clean' \in BOOLEAN
    BY <1>2 DEF SeqTypeOK
  <2>4. /\ inSeq' \in Numbers /\ outSeq' \in Numbers
        /\ restarts' \in 0 .. MaxRestarts
    BY <1>2 DEF SeqTypeOK
  <2> QED BY ONLY <2>1, <2>2, <2>3, <2>4 DEF SeqTypeOK
<1>6. IdleHasNoSnapshot'
  BY <1>3 DEF IdleHasNoSnapshot, InCall, Idle
<1>7. OneCallAtATime'
  BY <1>2, <1>3 DEF OneCallAtATime, InCall, Idle
<1>8. SnapshotCurrent'
  BY <1>2, <1>3 DEF SnapshotCurrent, InCall, Idle
<1>9. clean => call[c].vOut = outSeq /\ call[c].vIn = inSeq
  BY <1>1 DEF SnapshotCurrent
<1>10. IssuedCovered'
  <2>1. CASE Saved(c)
    <3>1. row'.out = call[c].vOut
      BY <2>1 DEF Saved, SaveSessionSeq
    <3>2. \A k \in issued' : k \in issued \/ k = call[c].vOut
      BY <2>1 DEF Saved
    <3>3. Loaded(row'.out) >= call[c].vOut
      BY <1>1, <3>1, LoadedBounds DEF Call
    <3>4. ASSUME clean', NEW k \in issued'
          PROVE  k <= outSeq' /\ k <= Loaded(row'.out)
      <4>1. k \in issued => k <= outSeq
        BY <1>2, <3>4 DEF IssuedCovered
      <4>2. outSeq = call[c].vOut
        BY <1>2, <1>9, <3>4
      <4>3. k \in Int /\ outSeq \in Int /\ Loaded(row'.out) \in Int
        BY <3>4, <1>1, <1>5, LoadedBounds DEF SeqTypeOK, Numbers, Row, Loaded
      <4> QED BY <1>2, <3>2, <3>3, <3>4, <4>1, <4>2, <4>3
    <3> QED BY <3>4 DEF IssuedCovered
  <2>2. CASE SaveFailed(c)
    BY <2>2, <1>2 DEF SaveFailed, IssuedCovered, Loaded
  <2> QED BY <2>1, <2>2
<1>11. RowCurrentWhenQuiet'
  <2>1. CASE Saved(c)
    BY <2>1, <1>2, <1>9 DEF Saved, SaveSessionSeq, RowCurrentWhenQuiet
  <2>2. CASE SaveFailed(c)
    BY <2>2 DEF SaveFailed, RowCurrentWhenQuiet
  <2> QED BY <2>1, <2>2
<1> QED BY <1>5, <1>6, <1>7, <1>8, <1>10, <1>11

(* A crash in any state, and the load that follows it.                     *)
LEMMA RestartInv ==
    ASSUME SeqInv, NEW read \in BOOLEAN, NewSeqManager(read)
    PROVE  SeqInv'
<1> USE DEF SeqInv
<1>1. Loaded(row.out) \in Numbers /\ Loaded(row.in) \in Numbers
  BY LoadedBounds DEF SeqTypeOK, Row
<1>2. Idle \in Call /\ 0 \in Numbers
  BY SeqManagerAssumption DEF Idle, Call, Ops, Numbers
<1>3. SeqTypeOK'
  <2>1. outSeq' \in Numbers /\ inSeq' \in Numbers
    BY <1>1, <1>2 DEF NewSeqManager
  <2>2. restarts' \in 0 .. MaxRestarts
    BY SeqManagerAssumption DEF SeqTypeOK, NewSeqManager
  <2>3. clean' \in BOOLEAN /\ unsaved' \in BOOLEAN
    BY Zenon DEF SeqTypeOK, NewSeqManager
  <2> QED BY <1>2, <2>1, <2>2, <2>3 DEF SeqTypeOK, NewSeqManager
<1>4. \A c \in Callers : call'[c] = Idle
  BY DEF NewSeqManager
<1>5. IdleHasNoSnapshot' /\ OneCallAtATime' /\ SnapshotCurrent'
  BY <1>4 DEF IdleHasNoSnapshot, OneCallAtATime, SnapshotCurrent, InCall, Idle
<1>6. IssuedCovered' /\ RowCurrentWhenQuiet'
  BY DEF NewSeqManager, IssuedCovered, RowCurrentWhenQuiet, Loaded
<1> QED BY <1>3, <1>5, <1>6

-----------------------------------------------------------------------------
(* Every step of the manager preserves the inductive invariant.            *)
LEMMA SeqNextInv == SeqInv /\ [SeqNext]_seqVars => SeqInv'
<1> SUFFICES ASSUME SeqInv, [SeqNext]_seqVars PROVE SeqInv'
  OBVIOUS
<1>0. /\ outSeq \in Numbers /\ inSeq \in Numbers
      /\ SetValues \subseteq Numbers
  BY SeqManagerAssumption DEF SeqInv, SeqTypeOK, Numbers
<1>1. ASSUME NEW c \in Callers, IncrementOutgoing(c) PROVE SeqInv'
  <2>1. outSeq + 1 \in Numbers /\ \A k \in Int : k <= outSeq => k <= outSeq + 1
    BY <1>0, <1>1, SeqManagerAssumption DEF IncrementOutgoing, Numbers
  <2>2. issued' = issued /\ issued \subseteq Int
    BY <1>1 DEF IncrementOutgoing, SeqInv, SeqTypeOK, Numbers
  <2>3. clean => \A k \in issued' : k <= outSeq + 1
    BY <2>1, <2>2 DEF SeqInv, IssuedCovered
  <2>4. Locked(c, "IncrementOutgoing", outSeq + 1, inSeq)
    BY <1>1 DEF IncrementOutgoing
  <2>5. "IncrementOutgoing" \in Ops \ {"none"}
    BY DEF Ops
  <2> QED BY ONLY SeqInv, LockedInv, <1>0, <1>1, <2>1, <2>2, <2>3, <2>4, <2>5
<1>2. ASSUME NEW c \in Callers, IncrementIncoming(c) PROVE SeqInv'
  <2>1. inSeq + 1 \in Numbers
    BY <1>0, <1>2, SeqManagerAssumption DEF IncrementIncoming, Numbers
  <2>2. issued' = issued /\ (clean => \A k \in issued' : k <= outSeq)
    BY <1>2 DEF IncrementIncoming, SeqInv, IssuedCovered
  <2>3. Locked(c, "IncrementIncoming", outSeq, inSeq + 1)
    BY <1>2 DEF IncrementIncoming
  <2>4. "IncrementIncoming" \in Ops \ {"none"}
    BY DEF Ops
  <2> QED BY ONLY SeqInv, LockedInv, <1>0, <1>2, <2>1, <2>2, <2>3, <2>4
<1>3. ASSUME NEW c \in Callers, NEW n \in SetValues, SetOutgoing(c, n) PROVE SeqInv'
  <2>1. n \in Numbers /\ "SetOutgoing" \in Ops \ {"none"}
    BY <1>0 DEF Ops
  <2>2. issued' \subseteq issued /\ \A k \in issued' : k <= n
    BY <1>3 DEF SetOutgoing
  <2>3. Locked(c, "SetOutgoing", n, inSeq)
    BY <1>3 DEF SetOutgoing
  <2> QED BY ONLY SeqInv, LockedInv, <1>0, <1>3, <2>1, <2>2, <2>3
<1>4. ASSUME NEW c \in Callers, NEW n \in SetValues, SetIncoming(c, n) PROVE SeqInv'
  <2>1. n \in Numbers /\ "SetIncoming" \in Ops \ {"none"}
    BY <1>0 DEF Ops
  <2>2. issued' = issued /\ (clean => \A k \in issued' : k <= outSeq)
    BY <1>4 DEF SetIncoming, SeqInv, IssuedCovered
  <2>3. Locked(c, "SetIncoming", outSeq, n)
    BY <1>4 DEF SetIncoming
  <2> QED BY ONLY SeqInv, LockedInv, <1>0, <1>4, <2>1, <2>2, <2>3
<1>5. ASSUME NEW c \in Callers, Saved(c) \/ SaveFailed(c) PROVE SeqInv'
  BY <1>5, ReturnInv
<1>6. ASSUME NEW read \in BOOLEAN, NewSeqManager(read) PROVE SeqInv'
  BY <1>6, RestartInv
<1>7. CASE UNCHANGED seqVars
  BY <1>7 DEF seqVars, SeqInv, SeqTypeOK, IdleHasNoSnapshot, OneCallAtATime, SnapshotCurrent,
              IssuedCovered, RowCurrentWhenQuiet, InCall, Loaded
<1> QED BY <1>1, <1>2, <1>3, <1>4, <1>5, <1>6, <1>7 DEF SeqNext, Operation

(* The inductive invariant holds throughout every behaviour.               *)
THEOREM SeqInductive == SeqSpec => []SeqInv
BY SeqInitInv, SeqNextInv, PTL DEF SeqSpec

(* The counters, the snapshots and the row stay in range.                  *)
THEOREM SeqTypeCorrect == SeqSpec => []SeqTypeOK
<1>1. SeqInv => SeqTypeOK
  BY DEF SeqInv
<1> QED BY <1>1, SeqInductive, PTL

(* No restart, failed write or reset makes IncrementOutgoing return a      *)
(* number again, unless two calls overlapped or a load failed.             *)
THEOREM NumbersFresh == SeqSpec => []FreshUnlessOverlapped
<1>1. SeqInv => FreshUnlessOverlapped
  BY DEF SeqInv, IssuedCovered, FreshUnlessOverlapped, NextNumberFresh
<1> QED BY <1>1, SeqInductive, PTL

(* With no call in progress the row holds both current numbers, unless     *)
(* calls overlapped, a load failed or the last save did.                   *)
THEOREM RowCurrent == SeqSpec => []RowCurrentWhenQuiet
<1>1. SeqInv => RowCurrentWhenQuiet
  BY DEF SeqInv
<1> QED BY <1>1, SeqInductive, PTL

-----------------------------------------------------------------------------
(* Induction over the natural numbers, on sets: the order is well founded. *)
Less == {p \in Nat \X Nat : p[1] < p[2]}

(* The numbers are well founded under it.                                  *)
LEMMA LessIsWellFounded == IsWellFoundedOn(Less, Nat)
  BY NatLessThanWellFounded DEF OpToRel, Less

(* A set of numbers that has 0 and with each the next one has them all.    *)
LEMMA SetInduction ==
    ASSUME NEW T \in SUBSET Nat, 0 \in T, \A n \in T : n + 1 \in T
    PROVE  T = Nat
<1> SUFFICES ASSUME Nat \ T # {} PROVE FALSE
  OBVIOUS
<1>1. PICK x \in Nat \ T : \A y \in Nat \ T : ~(<<y, x>> \in Less)
  BY LessIsWellFounded, WFMin
<1>2. x # 0 /\ x - 1 \in Nat
  BY <1>1
<1>3. <<x - 1, x>> \in Less
  BY <1>2 DEF Less
<1>4. x - 1 \in T
  BY <1>1, <1>2, <1>3
<1> QED BY <1>1, <1>2, <1>4

-----------------------------------------------------------------------------
(* Functions defined step by step: g has the value first at 0 and goes on  *)
(* by step[i].                                                             *)
Steppers(N, V) == [1 .. N -> [V -> V]]

Stepwise(g, N, V, first, step) ==
    /\ g \in [0 .. N -> V]
    /\ \A i \in 0 .. N : g[i] = IF i = 0 THEN first ELSE step[i][g[i - 1]]

(* There is a function that takes the given steps.                         *)
LEMMA StepByStep ==
    ASSUME NEW N \in Nat, NEW V, NEW first \in V, NEW step \in Steppers(N, V)
    PROVE  \E g : Stepwise(g, N, V, first, step)
<1> USE DEF Steppers
<1> DEFINE Built(g, n) ==
              /\ g \in [0 .. n -> V]
              /\ \A i \in 0 .. n : g[i] = IF i = 0 THEN first ELSE step[i][g[i - 1]]
           T == {n \in Nat : n <= N => \E g : Built(g, n)}
<1>1. 0 \in T
  <2>1. Built([i \in 0 .. 0 |-> first], 0)
    OBVIOUS
  <2> QED BY <2>1
<1>2. ASSUME NEW n \in T PROVE n + 1 \in T
  <2> SUFFICES ASSUME n + 1 <= N PROVE \E g : Built(g, n + 1)
    <3> HIDE DEF Built
    <3> QED OBVIOUS
  <2>1. PICK f : Built(f, n)
    <3> HIDE DEF Built
    <3> QED OBVIOUS
  <2> DEFINE g == [i \in 0 .. n + 1 |-> IF i = n + 1 THEN step[n + 1][f[n]] ELSE f[i]]
  <2>2. /\ n \in 0 .. n /\ n + 1 \in 1 .. N /\ f[n] \in V
        /\ \A i \in 0 .. n : i \in 0 .. n + 1 /\ i # n + 1 /\ f[i] \in V /\ g[i] = f[i]
    BY <2>1
  <2>3. step[n + 1][f[n]] \in V
    BY <2>2
  <2>4. g[n + 1] = step[n + 1][f[n]]
    OBVIOUS
  <2>5. g \in [0 .. n + 1 -> V]
    <3>1. \A i \in 0 .. n + 1 : (IF i = n + 1 THEN step[n + 1][f[n]] ELSE f[i]) \in V
      <4> SUFFICES ASSUME NEW i \in 0 .. n + 1, i # n + 1 PROVE f[i] \in V
        BY <2>3
      <4>1. i \in 0 .. n
        OBVIOUS
      <4> QED BY <4>1, <2>2
    <3> QED BY <3>1
  <2>6. \A i \in 0 .. n + 1 : g[i] = IF i = 0 THEN first ELSE step[i][g[i - 1]]
    <3> SUFFICES ASSUME NEW i \in 0 .. n + 1
                 PROVE  g[i] = IF i = 0 THEN first ELSE step[i][g[i - 1]]
      OBVIOUS
    <3>1. CASE i = n + 1
      <4>1. i # 0 /\ i - 1 = n
        BY <3>1
      <4> QED BY <3>1, <4>1, <2>2, <2>4
    <3>2. CASE i # n + 1
      <4>1. i \in 0 .. n /\ (i # 0 => i - 1 \in 0 .. n)
        BY <3>2
      <4> HIDE DEF g
      <4>2. f[i] = IF i = 0 THEN first ELSE step[i][f[i - 1]]
        BY <4>1, <2>1
      <4> QED BY <4>1, <4>2, <2>2
    <3> QED BY <3>1, <3>2
  <2> HIDE DEF g
  <2> QED BY <2>5, <2>6
<1>3. T = Nat
  <2> HIDE DEF Built
  <2>1. T \in SUBSET Nat
    OBVIOUS
  <2> HIDE DEF T
  <2> QED BY <1>1, <1>2, <2>1, SetInduction
<1>4. \E g : Built(g, N)
  <2>1. N \in T /\ N <= N
    <3> HIDE DEF T
    <3> QED BY <1>3
  <2> HIDE DEF Built
  <2> QED BY <2>1
<1> QED BY <1>4 DEF Stepwise

-----------------------------------------------------------------------------
(* Numbers and their text                                                  *)
Digit == Zero .. Zero + 9

Value(text, value) ==
    \A i \in 0 .. Len(text) :
        value[i] = IF i = 0 THEN 0 ELSE 10 * value[i - 1] + text[i] - Zero

(* Atoi reads a text from the front, digit by digit.                       *)
LEMMA AtoiStepByStep ==
    ASSUME NEW text \in Seq(Digit), text # <<>>
    PROVE  \E value \in [0 .. Len(text) -> Int] :
             Value(text, value) /\ Atoi(text) = value[Len(text)]
<1> DEFINE N == Len(text)
           step == [i \in 1 .. N |-> [v \in Int |-> 10 * v + text[i] - Zero]]
           Def(f) == f = [i \in 0 .. N |-> IF i = 0 THEN 0 ELSE 10 * f[i - 1] + text[i] - Zero]
<1>1. N \in Nat /\ \A i \in 1 .. N : text[i] \in Int /\ IsDigit(text[i])
  BY DEF Digit, IsDigit, Zero
<1>2. step \in Steppers(N, Int)
  BY <1>1 DEF Zero, Steppers
<1>3. \E g : Stepwise(g, N, Int, 0, step)
  <2>1. N \in Nat /\ 0 \in Int
    BY <1>1
  <2> HIDE DEF N, step
  <2> QED BY <1>2, <2>1, StepByStep
<1>a. PICK g \in [0 .. N -> Int] :
        \A i \in 0 .. N : g[i] = IF i = 0 THEN 0 ELSE step[i][g[i - 1]]
  <2> HIDE DEF step
  <2> QED BY <1>3 DEF Stepwise
<1>4. \A i \in 0 .. N : g[i] = IF i = 0 THEN 0 ELSE 10 * g[i - 1] + text[i] - Zero
  <2> SUFFICES ASSUME NEW i \in 0 .. N, i # 0 PROVE g[i] = 10 * g[i - 1] + text[i] - Zero
    BY <1>a
  <2>1. i \in 1 .. N /\ i - 1 \in 0 .. N /\ g[i - 1] \in Int
    BY <1>1
  <2> QED BY <1>a, <2>1
<1>5. Def(g)
  <2> DEFINE h == [i \in 0 .. N |-> IF i = 0 THEN 0 ELSE 10 * g[i - 1] + text[i] - Zero]
  <2>1. h = [i \in 0 .. N |-> g[i]]
    BY <1>4
  <2>2. g = [i \in 0 .. N |-> g[i]]
    OBVIOUS
  <2> QED BY <2>1, <2>2
<1> DEFINE value == CHOOSE f : Def(f)
<1>6. Def(value)
  BY <1>5
<1>7. Atoi(text) = value[N]
  <2>1. text # <<>> /\ \A i \in DOMAIN text : IsDigit(text[i])
    BY <1>1
  <2> QED BY <2>1 DEF Atoi
<1> HIDE DEF value
<1>8. \A i \in 0 .. N : value[i] = IF i = 0 THEN 0 ELSE 10 * value[i - 1] + text[i] - Zero
  BY <1>6
<1>9. \A i \in 0 .. N : value[i] = g[i]
  <2> DEFINE T == {n \in Nat : n <= N => value[n] = g[n]}
  <2>1. 0 \in T
    BY <1>4, <1>8
  <2>2. ASSUME NEW n \in T PROVE n + 1 \in T
    <3> SUFFICES ASSUME n + 1 <= N PROVE value[n + 1] = g[n + 1]
      OBVIOUS
    <3>1. n + 1 \in 0 .. N /\ n + 1 # 0 /\ (n + 1) - 1 = n /\ value[n] = g[n]
      OBVIOUS
    <3> QED BY <3>1, <1>4, <1>8
  <2>3. T = Nat
    <3>1. T \in SUBSET Nat
      OBVIOUS
    <3> HIDE DEF T
    <3> QED BY <2>1, <2>2, <3>1, SetInduction
  <2> QED BY <2>3
<1>10. value = [i \in 0 .. N |-> value[i]]
  BY <1>6
<1>11. value \in [0 .. N -> Int]
  BY <1>9, <1>10
<1> QED BY <1>7, <1>8, <1>11 DEF Value

(* The number of a text of one digit.                                      *)
LEMMA AtoiOne ==
    ASSUME NEW d \in Digit
    PROVE  Atoi(<<d>>) = d - Zero
<1> DEFINE text == <<d>>
<1>1. text \in Seq(Digit) /\ text # <<>> /\ Len(text) = 1 /\ text[1] = d
  OBVIOUS
<1> HIDE DEF text
<1>2. PICK value \in [0 .. Len(text) -> Int] :
        Value(text, value) /\ Atoi(text) = value[Len(text)]
  BY <1>1, AtoiStepByStep
<1>3. value[0] = 0 /\ value[1] = 10 * value[0] + d - Zero
  BY <1>1, <1>2 DEF Value
<1>4. Atoi(text) = d - Zero
  BY <1>1, <1>2, <1>3 DEF Digit, Zero
<1> QED BY <1>4 DEF text

(* A digit more behind a text: ten times the number, and the digit.        *)
LEMMA AtoiAppend ==
    ASSUME NEW s \in Seq(Digit), s # <<>>, NEW d \in Digit
    PROVE  Atoi(Append(s, d)) = 10 * Atoi(s) + d - Zero
<1> DEFINE t == Append(s, d)
           n == Len(s)
<1>1. /\ t \in Seq(Digit) /\ t # <<>> /\ Len(t) = n + 1 /\ n \in Nat
      /\ \A i \in 1 .. n : t[i] = s[i]
      /\ t[n + 1] = d
  BY AppendProperties
<1> HIDE DEF t
<1>2. PICK f \in [0 .. Len(s) -> Int] : Value(s, f) /\ Atoi(s) = f[Len(s)]
  BY AtoiStepByStep
<1>3. PICK g \in [0 .. Len(t) -> Int] : Value(t, g) /\ Atoi(t) = g[Len(t)]
  BY <1>1, AtoiStepByStep
<1>4. \A i \in 0 .. n : f[i] = IF i = 0 THEN 0 ELSE 10 * f[i - 1] + s[i] - Zero
  BY <1>2 DEF Value
<1>5. \A i \in 0 .. n + 1 : g[i] = IF i = 0 THEN 0 ELSE 10 * g[i - 1] + t[i] - Zero
  BY <1>1, <1>3 DEF Value
<1> DEFINE T == {k \in Nat : k <= n => f[k] = g[k]}
<1>6. 0 \in T
  BY <1>1, <1>4, <1>5
<1>7. ASSUME NEW k \in T PROVE k + 1 \in T
  <2> SUFFICES ASSUME k + 1 <= n PROVE f[k + 1] = g[k + 1]
    OBVIOUS
  <2>1. /\ k + 1 \in 0 .. n /\ k + 1 \in 0 .. n + 1 /\ k + 1 \in 1 .. n /\ k + 1 # 0
        /\ (k + 1) - 1 = k /\ f[k] = g[k]
    BY <1>1
  <2>2. f[k + 1] = 10 * f[k] + s[k + 1] - Zero
    BY <2>1, <1>4
  <2>3. g[k + 1] = 10 * g[k] + t[k + 1] - Zero
    BY <2>1, <1>5
  <2> QED BY <2>1, <2>2, <2>3, <1>1
<1>8. f[n] = g[n]
  <2>1. T \in SUBSET Nat
    OBVIOUS
  <2>2. T = Nat
    <3> HIDE DEF T
    <3> QED BY <1>6, <1>7, <2>1, SetInduction
  <2> QED BY <2>2, <1>1
<1>9. g[n + 1] = 10 * g[n] + d - Zero
  <2>1. n + 1 \in 0 .. n + 1 /\ n + 1 # 0 /\ (n + 1) - 1 = n
    BY <1>1
  <2> QED BY <2>1, <1>1, <1>5
<1>10. Atoi(t) = 10 * Atoi(s) + d - Zero
  BY <1>1, <1>2, <1>3, <1>8, <1>9
<1> QED BY <1>10 DEF t

(* The text of a number: its last digit behind the text of the rest.       *)
LEMMA ItoaByTens ==
    ASSUME NEW n \in Nat
    PROVE  \E text :
             /\ Itoa(n) = text[n]
             /\ \A k \in 0 .. n :
                  /\ k < 10 => text[k] = <<Zero + k>>
                  /\ k >= 10 => text[k] = Append(text[k \div 10], Zero + (k % 10))
<1> DEFINE Digits(rest, k) == IF k < 10 THEN <<Zero + k>> ELSE Append(rest, Zero + (k % 10))
           Def(f, m) == f = [k \in 0 .. m |-> Digits(f[k \div 10], k)]
           T == {m \in Nat : \E f : Def(f, m)}
<1>1. 0 \in T
  <2> DEFINE f == [k \in 0 .. 0 |-> <<Zero + k>>]
  <2>1. \A k \in 0 .. 0 : Digits(f[k \div 10], k) = <<Zero + k>>
    OBVIOUS
  <2>2. Def(f, 0)
    <3> HIDE DEF Digits
    <3> QED BY <2>1
  <2> HIDE DEF Def, f
  <2> QED BY <2>2
<1>2. ASSUME NEW m \in T PROVE m + 1 \in T
  <2>1. m \in Nat
    OBVIOUS
  <2>2. PICK f : Def(f, m)
    <3> HIDE DEF Def
    <3> QED OBVIOUS
  <2> DEFINE g == [k \in 0 .. m + 1 |->
                     IF k = m + 1 THEN Digits(f[(m + 1) \div 10], m + 1) ELSE f[k]]
  <2>3. \A k \in 0 .. m + 1 : k \div 10 \in 0 .. m + 1 /\ (k >= 10 => k \div 10 \in 0 .. m)
    BY <2>1
  <2>4. \A k \in 0 .. m : g[k] = f[k] /\ f[k] = Digits(f[k \div 10], k)
    <3> HIDE DEF Digits
    <3> QED BY <2>1, <2>2
  <2>5. \A k \in 0 .. m + 1 : Digits(f[k \div 10], k) = Digits(g[k \div 10], k)
    <3> SUFFICES ASSUME NEW k \in 0 .. m + 1, k >= 10 PROVE f[k \div 10] = g[k \div 10]
      BY <2>1
    <3> QED BY <2>3, <2>4
  <2>6. \A k \in 0 .. m + 1 : g[k] = Digits(g[k \div 10], k)
    <3> SUFFICES ASSUME NEW k \in 0 .. m + 1 PROVE g[k] = Digits(g[k \div 10], k)
      OBVIOUS
    <3>1. CASE k = m + 1
      <4>1. g[k] = Digits(f[k \div 10], k)
        <5> HIDE DEF Digits
        <5> QED BY <3>1
      <4> HIDE DEF Digits, g
      <4> QED BY <4>1, <2>5
    <3>2. CASE k # m + 1
      <4>1. k \in 0 .. m
        BY <3>2, <2>1
      <4> HIDE DEF Digits, g
      <4> QED BY <4>1, <2>4, <2>5
    <3> QED BY <3>1, <3>2
  <2>7. g = [k \in 0 .. m + 1 |-> g[k]]
    OBVIOUS
  <2>8. Def(g, m + 1)
    <3> HIDE DEF g, Digits
    <3>1. [k \in 0 .. m + 1 |-> Digits(g[k \div 10], k)] = [k \in 0 .. m + 1 |-> g[k]]
      BY <2>6
    <3> QED BY <3>1, <2>7
  <2> HIDE DEF Def, g
  <2> QED BY <2>1, <2>8
<1>3. T = Nat
  <2> HIDE DEF Def
  <2>1. T \in SUBSET Nat
    OBVIOUS
  <2> HIDE DEF T
  <2> QED BY <1>1, <1>2, <2>1, SetInduction
<1> DEFINE text == CHOOSE f : Def(f, n)
<1>4. Def(text, n)
  <2> HIDE DEF Def
  <2> QED BY <1>3
<1>5. Itoa(n) = text[n]
  BY DEF Itoa
<1> HIDE DEF text
<1>6. \A k \in 0 .. n : text[k] = Digits(text[k \div 10], k)
  <2> HIDE DEF Digits
  <2> QED BY <1>4
<1>7. \A k \in 0 .. n : /\ k < 10 => Digits(text[k \div 10], k) = <<Zero + k>>
                        /\ k >= 10 => Digits(text[k \div 10], k)
                                        = Append(text[k \div 10], Zero + (k % 10))
  OBVIOUS
<1> HIDE DEF Digits
<1> QED BY <1>5, <1>6, <1>7

(* The text of a number is digits, and reads back as the number.           *)
LEMMA ItoaFacts ==
    ASSUME NEW n \in Nat
    PROVE  /\ Itoa(n) \in Seq(Digit) /\ Itoa(n) # <<>>
           /\ Atoi(Itoa(n)) = n
<1>1. PICK text :
        /\ Itoa(n) = text[n]
        /\ \A k \in 0 .. n :
             /\ k < 10 => text[k] = <<Zero + k>>
             /\ k >= 10 => text[k] = Append(text[k \div 10], Zero + (k % 10))
  BY ItoaByTens
<1> DEFINE Reads(k) == text[k] \in Seq(Digit) /\ text[k] # <<>> /\ Atoi(text[k]) = k
           T == {m \in Nat : \A k \in 0 .. n : k <= m => Reads(k)}
<1>2. \A k \in 0 .. n : k < 10 => Reads(k)
  <2> SUFFICES ASSUME NEW k \in 0 .. n, k < 10 PROVE Reads(k)
    OBVIOUS
  <2>1. text[k] = <<Zero + k>> /\ Zero + k \in Digit
    <3>1. text[k] = <<Zero + k>>
      BY <1>1
    <3>2. Zero + k \in Digit
      BY DEF Digit, Zero
    <3> QED BY <3>1, <3>2
  <2>2. Atoi(<<Zero + k>>) = (Zero + k) - Zero
    BY <2>1, AtoiOne
  <2>3. (Zero + k) - Zero = k
    BY DEF Zero
  <2> QED BY <2>1, <2>2, <2>3
<1>3. 0 \in T
  BY <1>2
<1>4. ASSUME NEW m \in T PROVE m + 1 \in T
  <2> SUFFICES ASSUME NEW k \in 0 .. n, k = m + 1, k >= 10 PROVE Reads(k)
    BY <1>2
  <2> DEFINE d == Zero + (k % 10)
             r == k \div 10
  <2>1. text[k] = Append(text[r], d)
    BY <1>1
  <2>2. r \in 0 .. n /\ r <= m /\ k % 10 \in 0 .. 9 /\ k = 10 * r + (k % 10)
    OBVIOUS
  <2>3. d \in Digit
    BY <2>2 DEF Digit, Zero
  <2>4. d - Zero = k % 10
    BY <2>2 DEF Zero
  <2>5. Reads(r)
    <3> HIDE DEF Reads, r
    <3> QED BY <2>2
  <2> HIDE DEF d, r
  <2>6. /\ Append(text[r], d) \in Seq(Digit) /\ Append(text[r], d) # <<>>
        /\ Atoi(Append(text[r], d)) = 10 * Atoi(text[r]) + d - Zero
    BY <2>3, <2>5, AppendProperties, AtoiAppend
  <2>7. d \in Int /\ Zero \in Int
    BY <2>3 DEF Digit, Zero
  <2>8. 10 * r + d - Zero = k
    BY <2>2, <2>4, <2>7
  <2> QED BY <2>1, <2>5, <2>6, <2>8
<1>5. T = Nat
  <2> HIDE DEF Reads
  <2>1. T \in SUBSET Nat
    OBVIOUS
  <2> HIDE DEF T
  <2> QED BY <1>3, <1>4, <2>1, SetInduction
<1>6. Reads(n)
  <2> HIDE DEF Reads
  <2> QED BY <1>5
<1> QED BY <1>1, <1>6

(* The texts "8=", "9=" and "10=".                                         *)
LEMMA FieldFacts ==
    /\ Field(8) \in Seq(Byte) /\ Len(Field(8)) = 2
    /\ Field(8)[1] = Zero + 8 /\ Field(8)[2] = Equals
    /\ Field(9) \in Seq(Byte) /\ Len(Field(9)) = 2
    /\ Field(9)[1] = Zero + 9 /\ Field(9)[2] = Equals
    /\ Field(10) \in Seq(Byte) /\ Len(Field(10)) = 3
    /\ Field(10)[1] = Zero + 1 /\ Field(10)[2] = Zero /\ Field(10)[3] = Equals
<1>1. \A n \in 0 .. 9 : Itoa(n) = <<Zero + n>>
  <2> SUFFICES ASSUME NEW n \in 0 .. 9 PROVE Itoa(n) = <<Zero + n>>
    OBVIOUS
  <2>1. n \in Nat /\ n \in 0 .. n /\ n < 10
    OBVIOUS
  <2> QED BY <2>1, ItoaByTens
<1>2. Itoa(8) = <<Zero + 8>> /\ Itoa(9) = <<Zero + 9>>
  <2>1. 8 \in 0 .. 9 /\ 9 \in 0 .. 9
    OBVIOUS
  <2> QED BY <2>1, <1>1
<1>3. Itoa(10) = <<Zero + 1, Zero>>
  <2>1. PICK text :
          /\ Itoa(10) = text[10]
          /\ \A k \in 0 .. 10 :
               /\ k < 10 => text[k] = <<Zero + k>>
               /\ k >= 10 => text[k] = Append(text[k \div 10], Zero + (k % 10))
    BY ItoaByTens
  <2>2. text[1] = <<Zero + 1>>
    BY <2>1
  <2>3. 10 \div 10 = 1 /\ 10 % 10 = 0
    OBVIOUS
  <2>4. text[10] = Append(text[1], Zero + 0)
    BY <2>1, <2>3
  <2>5. Zero + 0 = Zero
    BY DEF Zero
  <2> QED BY <2>1, <2>2, <2>4, <2>5
<1>4. Zero \in Byte /\ Zero + 1 \in Byte /\ Zero + 8 \in Byte /\ Zero + 9 \in Byte /\ Equals \in Byte
  BY DEF Zero, Equals, Byte
<1>5. ASSUME NEW d \in Byte, NEW s, s = <<d>>
      PROVE  s \in Seq(Byte) /\ Len(s) = 1 /\ s[1] = d
  BY <1>5
<1>6. ASSUME NEW c \in Byte, NEW d \in Byte, NEW s, s = <<c, d>>
      PROVE  s \in Seq(Byte) /\ Len(s) = 2 /\ s[1] = c /\ s[2] = d
  BY <1>6
<1>7. ASSUME NEW s \in Seq(Byte)
      PROVE  /\ Append(s, Equals) \in Seq(Byte)
             /\ Len(Append(s, Equals)) = Len(s) + 1
             /\ \A i \in 1 .. Len(s) : Append(s, Equals)[i] = s[i]
             /\ Append(s, Equals)[Len(s) + 1] = Equals
  BY <1>4, AppendProperties
<1>8. Itoa(8) \in Seq(Byte) /\ Len(Itoa(8)) = 1 /\ Itoa(8)[1] = Zero + 8
  BY <1>2, <1>4, <1>5, Zenon
<1>9. Itoa(9) \in Seq(Byte) /\ Len(Itoa(9)) = 1 /\ Itoa(9)[1] = Zero + 9
  BY <1>2, <1>4, <1>5, Zenon
<1>10. /\ Itoa(10) \in Seq(Byte) /\ Len(Itoa(10)) = 2
       /\ Itoa(10)[1] = Zero + 1 /\ Itoa(10)[2] = Zero
  <2> DEFINE c == Zero + 1
             d == Zero
             s == Itoa(10)
  <2>1. c \in Byte /\ d \in Byte /\ s = <<c, d>>
    BY <1>3, <1>4
  <2> HIDE DEF c, d, s
  <2>2. s \in Seq(Byte) /\ Len(s) = 2 /\ s[1] = c /\ s[2] = d
    BY <2>1, <1>6
  <2> QED BY <2>2 DEF c, d, s
<1>11. /\ Field(8) \in Seq(Byte) /\ Len(Field(8)) = 2
       /\ Field(8)[1] = Zero + 8 /\ Field(8)[2] = Equals
  <2> DEFINE s == Itoa(8)
             r == Append(s, Equals)
  <2>1. Field(8) = r
    BY DEF Field
  <2>2. s \in Seq(Byte) /\ Len(s) = 1 /\ s[1] = Zero + 8
    BY <1>8
  <2> HIDE DEF s
  <2>3. /\ r \in Seq(Byte) /\ Len(r) = Len(s) + 1 /\ r[Len(s) + 1] = Equals
        /\ \A i \in 1 .. Len(s) : r[i] = s[i]
    BY <2>2, <1>7
  <2>4. 1 \in 1 .. Len(s) /\ Len(s) + 1 = 2
    BY <2>2
  <2> HIDE DEF r
  <2>5. /\ r \in Seq(Byte) /\ Len(r) = 2 /\ r[1] = Zero + 8 /\ r[2] = Equals
    BY <2>2, <2>3, <2>4
  <2> QED BY <2>1, <2>5
<1>12. /\ Field(9) \in Seq(Byte) /\ Len(Field(9)) = 2
       /\ Field(9)[1] = Zero + 9 /\ Field(9)[2] = Equals
  <2> DEFINE s == Itoa(9)
             r == Append(s, Equals)
  <2>1. Field(9) = r
    BY DEF Field
  <2>2. s \in Seq(Byte) /\ Len(s) = 1 /\ s[1] = Zero + 9
    BY <1>9
  <2> HIDE DEF s
  <2>3. /\ r \in Seq(Byte) /\ Len(r) = Len(s) + 1 /\ r[Len(s) + 1] = Equals
        /\ \A i \in 1 .. Len(s) : r[i] = s[i]
    BY <2>2, <1>7
  <2>4. 1 \in 1 .. Len(s) /\ Len(s) + 1 = 2
    BY <2>2
  <2> HIDE DEF r
  <2>5. /\ r \in Seq(Byte) /\ Len(r) = 2 /\ r[1] = Zero + 9 /\ r[2] = Equals
    BY <2>2, <2>3, <2>4
  <2> QED BY <2>1, <2>5
<1>13. /\ Field(10) \in Seq(Byte) /\ Len(Field(10)) = 3
       /\ Field(10)[1] = Zero + 1 /\ Field(10)[2] = Zero /\ Field(10)[3] = Equals
  <2> DEFINE s == Itoa(10)
             r == Append(s, Equals)
  <2>1. Field(10) = r
    BY DEF Field
  <2>2. s \in Seq(Byte) /\ Len(s) = 2 /\ s[1] = Zero + 1 /\ s[2] = Zero
    BY <1>10
  <2> HIDE DEF s
  <2>3. /\ r \in Seq(Byte) /\ Len(r) = Len(s) + 1 /\ r[Len(s) + 1] = Equals
        /\ \A i \in 1 .. Len(s) : r[i] = s[i]
    BY <2>2, <1>7
  <2>4. 1 \in 1 .. Len(s) /\ 2 \in 1 .. Len(s) /\ Len(s) + 1 = 3
    BY <2>2
  <2> HIDE DEF r
  <2>5. /\ r \in Seq(Byte) /\ Len(r) = 3 /\ r[1] = Zero + 1 /\ r[2] = Zero /\ r[3] = Equals
    BY <2>2, <2>3, <2>4
  <2> QED BY <2>1, <2>5
<1> QED BY <1>11, <1>12, <1>13

(* A checksum is a number below 256,                                       *)
LEMMA ChecksumRange ==
    ASSUME NEW bytes \in Seq(Byte)
    PROVE  Checksum(bytes) \in 0 .. 255
<1> DEFINE N == Len(bytes)
           step == [i \in 1 .. N |-> [v \in Int |-> v + bytes[i]]]
           Def(f) == f = [i \in 0 .. N |-> IF i = 0 THEN 0 ELSE f[i - 1] + bytes[i]]
<1>1. N \in Nat /\ \A i \in 1 .. N : bytes[i] \in Int
  <2>1. \A i \in 1 .. N : bytes[i] \in Byte
    BY ElementOfSeq
  <2>2. N \in Nat /\ \A b \in Byte : b \in Int
    BY DEF Byte
  <2> QED BY <2>1, <2>2
<1>2. step \in Steppers(N, Int)
  BY <1>1 DEF Steppers
<1>3. \E g : Stepwise(g, N, Int, 0, step)
  <2>1. N \in Nat /\ 0 \in Int
    BY <1>1
  <2> HIDE DEF N, step
  <2> QED BY <1>2, <2>1, StepByStep
<1>4. PICK g \in [0 .. N -> Int] :
        \A i \in 0 .. N : g[i] = IF i = 0 THEN 0 ELSE step[i][g[i - 1]]
  <2> HIDE DEF step
  <2> QED BY <1>3 DEF Stepwise
<1>5. \A i \in 0 .. N : g[i] = IF i = 0 THEN 0 ELSE g[i - 1] + bytes[i]
  <2> SUFFICES ASSUME NEW i \in 0 .. N, i # 0 PROVE g[i] = g[i - 1] + bytes[i]
    BY <1>4
  <2>1. i \in 1 .. N /\ i - 1 \in 0 .. N /\ g[i - 1] \in Int
    BY <1>1
  <2> QED BY <1>4, <2>1
<1>6. Def(g)
  <2> DEFINE h == [i \in 0 .. N |-> IF i = 0 THEN 0 ELSE g[i - 1] + bytes[i]]
  <2>1. h = [i \in 0 .. N |-> g[i]]
    BY <1>5
  <2>2. g = [i \in 0 .. N |-> g[i]]
    OBVIOUS
  <2> QED BY <2>1, <2>2
<1> DEFINE sum == CHOOSE f : Def(f)
<1>7. Def(sum)
  BY <1>6
<1>8. Checksum(bytes) = sum[N] % 256
  BY DEF Checksum
<1> HIDE DEF sum
<1>9. \A i \in 0 .. N : sum[i] = IF i = 0 THEN 0 ELSE sum[i - 1] + bytes[i]
  BY <1>7
<1> DEFINE T == {n \in Nat : n <= N => sum[n] \in Int}
<1>10. 0 \in T
  BY <1>9
<1>11. ASSUME NEW n \in T PROVE n + 1 \in T
  <2> SUFFICES ASSUME n + 1 <= N PROVE sum[n + 1] \in Int
    OBVIOUS
  <2>1. n + 1 \in 0 .. N /\ n + 1 \in 1 .. N /\ n + 1 # 0 /\ (n + 1) - 1 = n /\ sum[n] \in Int
    BY <1>1
  <2> QED BY <2>1, <1>1, <1>9
<1>12. T = Nat
  <2>1. T \in SUBSET Nat
    OBVIOUS
  <2> HIDE DEF T
  <2> QED BY <1>10, <1>11, <2>1, SetInduction
<1>13. sum[N] \in Int
  BY <1>1, <1>12
<1>14. \A n \in Int : n % 256 \in 0 .. 255
  OBVIOUS
<1> QED BY <1>8, <1>13, <1>14

(* and so its text is three digits.                                        *)
LEMMA ThreeDigitsFacts ==
    ASSUME NEW n \in 0 .. 255
    PROVE  ThreeDigits(n) \in Seq(Digit) /\ Len(ThreeDigits(n)) = 3
<1>1. /\ (n \div 100) % 10 \in 0 .. 9
      /\ (n \div 10) % 10 \in 0 .. 9
      /\ n % 10 \in 0 .. 9
  OBVIOUS
<1>2. \A d \in 0 .. 9 : Zero + d \in Digit
  BY DEF Digit, Zero
<1> QED BY <1>1, <1>2 DEF ThreeDigits

-----------------------------------------------------------------------------
(* What stands where in the bytes of a message                             *)
Length(m) == Itoa(Len(m.body))

BeginEnd(m) == Len(m.begin) + 3

LengthEnd(m) == BeginEnd(m) + 3 + Len(Length(m))

Trailer(m) == LengthEnd(m) + 1 + Len(m.body)

(* In f stands everything that findBodyLengthFrameEnd looks for in a frame *)
(* of m, at its place.                                                     *)
InPlace(f, m) ==
    /\ f[1] = Zero + 8 /\ f[2] = Equals
    /\ \A i \in 1 .. Len(m.begin) : f[2 + i] = m.begin[i]
    /\ f[BeginEnd(m)] = SOH
    /\ f[BeginEnd(m) + 1] = Zero + 9 /\ f[BeginEnd(m) + 2] = Equals
    /\ \A i \in 1 .. Len(Length(m)) : f[BeginEnd(m) + 2 + i] = Length(m)[i]
    /\ f[LengthEnd(m)] = SOH
    /\ f[Trailer(m)] = Zero + 1 /\ f[Trailer(m) + 1] = Zero /\ f[Trailer(m) + 2] = Equals
    /\ \A i \in 3 .. 5 : IsDigit(f[Trailer(m) + i])
    /\ f[Trailer(m) + 6] = SOH

(* r is s, of length j, followed by t, of length k.                        *)
Joined(s, t, r, j, k) ==
    /\ r \in Seq(Byte)
    /\ Len(r) = j + k
    /\ \A i \in 1 .. j : r[i] = s[i]
    /\ \A i \in 1 .. k : r[j + i] = t[i]

(* A concatenation is its first part followed by its second.               *)
LEMMA ConcatFacts ==
    ASSUME NEW s \in Seq(Byte), NEW t \in Seq(Byte)
    PROVE  Joined(s, t, s \o t, Len(s), Len(t))
<1>1. /\ s \o t \in Seq(Byte)
      /\ Len(s \o t) = Len(s) + Len(t)
      /\ \A i \in 1 .. Len(s) + Len(t) :
           (s \o t)[i] = IF i <= Len(s) THEN s[i] ELSE t[i - Len(s)]
  BY ConcatProperties
<1>2. Len(s) \in Nat /\ Len(t) \in Nat
  OBVIOUS
<1>3. \A i \in 1 .. Len(s) : i \in 1 .. Len(s) + Len(t) /\ i <= Len(s)
  BY <1>2
<1>4. \A i \in 1 .. Len(t) : /\ Len(s) + i \in 1 .. Len(s) + Len(t) /\ ~(Len(s) + i <= Len(s))
                             /\ (Len(s) + i) - Len(s) = i
  BY <1>2
<1> QED BY <1>1, <1>3, <1>4 DEF Joined

(* The parts a message is written from, and that the text of tag 9 reads   *)
(* back as the length of the body.                                         *)
LEMMA PartFacts ==
    ASSUME NEW m \in Messages
    PROVE  /\ m.begin \in Seq(Byte) /\ m.body \in Seq(Byte)
           /\ \A i \in 1 .. Len(m.begin) : m.begin[i] # SOH
           /\ Length(m) \in Seq(Digit) /\ Length(m) \in Seq(Byte) /\ Len(Length(m)) >= 1
           /\ Atoi(Length(m)) = Len(m.body)
           /\ <<SOH>> \in Seq(Byte) /\ Len(<<SOH>>) = 1 /\ <<SOH>>[1] = SOH
           /\ Len(m.begin) \in Nat /\ Len(m.body) \in Nat /\ Len(Length(m)) \in Nat
           /\ BeginEnd(m) \in Nat /\ LengthEnd(m) \in Nat /\ Trailer(m) \in Nat
<1>1. m.begin \in Seq(Byte \ {SOH}) /\ m.body \in Seq(Byte)
  BY FramingAssumption
<1>2. m.begin \in Seq(Byte)
  <2>1. Byte \ {SOH} \subseteq Byte
    OBVIOUS
  <2> QED BY <1>1, <2>1, SeqMonotonic
<1>3. \A i \in 1 .. Len(m.begin) : m.begin[i] # SOH
  BY <1>1, ElementOfSeq
<1>4. Len(m.begin) \in Nat /\ Len(m.body) \in Nat
  BY <1>1, <1>2
<1>5. Length(m) \in Seq(Digit) /\ Length(m) # <<>> /\ Atoi(Length(m)) = Len(m.body)
  BY <1>4, ItoaFacts DEF Length
<1>6. Digit \subseteq Byte
  BY DEF Digit, Byte, Zero
<1>7. Length(m) \in Seq(Byte)
  BY <1>5, <1>6, SeqMonotonic
<1>8. Len(Length(m)) \in Nat /\ Len(Length(m)) >= 1
  BY <1>5
<1>9. <<SOH>> \in Seq(Byte) /\ Len(<<SOH>>) = 1 /\ <<SOH>>[1] = SOH
  <2>1. SOH \in Byte
    BY DEF SOH, Byte
  <2> QED BY <2>1
<1>10. BeginEnd(m) \in Nat
  BY <1>4 DEF BeginEnd
<1>11. LengthEnd(m) \in Nat
  BY <1>8, <1>10 DEF LengthEnd
<1>12. Trailer(m) \in Nat
  BY <1>4, <1>11 DEF Trailer
<1> QED BY <1>1, <1>2, <1>3, <1>4, <1>5, <1>7, <1>8, <1>9, <1>10, <1>11, <1>12

(* The bytes up to the trailer have the fields 8 and 9 at their places.    *)
LEMMA SummedLayout ==
    ASSUME NEW m \in Messages
    PROVE  /\ Summed(m) \in Seq(Byte)
           /\ Len(Summed(m)) = Trailer(m) - 1
           /\ Summed(m)[1] = Zero + 8 /\ Summed(m)[2] = Equals
           /\ \A i \in 1 .. Len(m.begin) : Summed(m)[2 + i] = m.begin[i]
           /\ Summed(m)[BeginEnd(m)] = SOH
           /\ Summed(m)[BeginEnd(m) + 1] = Zero + 9 /\ Summed(m)[BeginEnd(m) + 2] = Equals
           /\ \A i \in 1 .. Len(Length(m)) : Summed(m)[BeginEnd(m) + 2 + i] = Length(m)[i]
           /\ Summed(m)[LengthEnd(m)] = SOH
<1> DEFINE n == Len(m.begin)
           d == Len(Length(m))
           b == Len(m.body)
           p1 == Field(8) \o m.begin
           p2 == p1 \o <<SOH>>
           p3 == p2 \o Field(9)
           p4 == p3 \o Length(m)
           p5 == p4 \o <<SOH>>
           p6 == p5 \o m.body
<1>0. /\ n \in Nat /\ d \in Nat /\ b \in Nat
      /\ BeginEnd(m) = n + 3 /\ LengthEnd(m) = n + 6 + d /\ Trailer(m) = n + 7 + d + b
  <2>1. n \in Nat /\ d \in Nat /\ b \in Nat
    BY PartFacts
  <2>2. BeginEnd(m) = n + 3
    BY DEF BeginEnd
  <2>3. LengthEnd(m) = BeginEnd(m) + 3 + d
    BY DEF LengthEnd
  <2>4. Trailer(m) = LengthEnd(m) + 1 + b
    BY DEF Trailer
  <2> HIDE DEF n, d, b
  <2> QED BY <2>1, <2>2, <2>3, <2>4
<1>1. /\ p1 \in Seq(Byte) /\ Len(p1) = n + 2
      /\ p1[1] = Zero + 8 /\ p1[2] = Equals
      /\ \A i \in 1 .. n : p1[2 + i] = m.begin[i]
  <2> DEFINE f == Field(8)
             t == m.begin
  <2>1. f \in Seq(Byte) /\ Len(f) = 2 /\ f[1] = Zero + 8 /\ f[2] = Equals
    BY FieldFacts
  <2>2. t \in Seq(Byte) /\ Len(t) = n
    BY PartFacts
  <2>3. Joined(f, t, f \o t, 2, n)
    <3> HIDE DEF f, t, n
    <3> QED BY <2>1, <2>2, ConcatFacts, Zenon
  <2>4. Joined(f, t, p1, 2, n)
    BY <2>3
  <2>5. 1 \in 1 .. 2 /\ 2 \in 1 .. 2 /\ 2 + n = n + 2
    BY <1>0
  <2> HIDE DEF p1, n, f
  <2>6. /\ p1 \in Seq(Byte) /\ Len(p1) = n + 2
        /\ \A i \in 1 .. 2 : p1[i] = f[i]
        /\ \A i \in 1 .. n : p1[2 + i] = t[i]
    BY <2>4, <2>5 DEF Joined
  <2> QED BY <2>1, <2>5, <2>6
<1> HIDE DEF p1
<1>2. /\ p2 \in Seq(Byte) /\ Len(p2) = n + 3
      /\ \A i \in 1 .. n + 2 : p2[i] = p1[i]
      /\ p2[n + 3] = SOH
  <2> DEFINE t == <<SOH>>
  <2>1. t \in Seq(Byte) /\ Len(t) = 1 /\ t[1] = SOH
    BY FieldFacts, PartFacts
  <2> HIDE DEF t
  <2>2. Joined(p1, t, p1 \o t, n + 2, 1)
    <3>1. p1 \in Seq(Byte) /\ Len(p1) = n + 2
      BY <1>1
    <3> HIDE DEF n, d, b
    <3> QED BY <2>1, <3>1, ConcatFacts, Zenon
  <2>3. Joined(p1, t, p2, n + 2, 1)
    BY <2>2 DEF p2, t
  <2> HIDE DEF p2, n, d, b
  <2>4. n + 2 + 1 = n + 3 /\ 1 \in 1 .. 1
    BY <1>0
  <2> QED BY <2>1, <2>3, <2>4 DEF Joined
<1> HIDE DEF p2
<1>3. /\ p3 \in Seq(Byte) /\ Len(p3) = n + 5
      /\ \A i \in 1 .. n + 3 : p3[i] = p2[i]
      /\ p3[n + 4] = Zero + 9 /\ p3[n + 5] = Equals
  <2> DEFINE t == Field(9)
  <2>1. t \in Seq(Byte) /\ Len(t) = 2 /\ t[1] = Zero + 9 /\ t[2] = Equals
    BY FieldFacts, PartFacts
  <2> HIDE DEF t
  <2>2. Joined(p2, t, p2 \o t, n + 3, 2)
    <3>1. p2 \in Seq(Byte) /\ Len(p2) = n + 3
      BY <1>2
    <3> HIDE DEF n, d, b
    <3> QED BY <2>1, <3>1, ConcatFacts, Zenon
  <2>3. Joined(p2, t, p3, n + 3, 2)
    BY <2>2 DEF p3, t
  <2> HIDE DEF p3, n, d, b
  <2>4. n + 3 + 1 = n + 4 /\ n + 3 + 2 = n + 5 /\ 1 \in 1 .. 2 /\ 2 \in 1 .. 2
    BY <1>0
  <2> QED BY <2>1, <2>3, <2>4 DEF Joined
<1> HIDE DEF p3
<1>4. /\ p4 \in Seq(Byte) /\ Len(p4) = n + 5 + d
      /\ \A i \in 1 .. n + 5 : p4[i] = p3[i]
      /\ \A i \in 1 .. d : p4[n + 5 + i] = Length(m)[i]
  <2> DEFINE t == Length(m)
  <2>1. t \in Seq(Byte) /\ Len(t) = d
    BY FieldFacts, PartFacts
  <2> HIDE DEF t
  <2>2. Joined(p3, t, p3 \o t, n + 5, d)
    <3>1. p3 \in Seq(Byte) /\ Len(p3) = n + 5
      BY <1>3
    <3> HIDE DEF n, d, b
    <3> QED BY <2>1, <3>1, ConcatFacts, Zenon
  <2>3. Joined(p3, t, p4, n + 5, d)
    BY <2>2 DEF p4, t
  <2> HIDE DEF p4, n, d, b
  <2>4. n + 5 \in Nat
    BY <1>0
  <2> QED BY <2>1, <2>3, <2>4 DEF Joined, t
<1> HIDE DEF p4
<1>5. /\ p5 \in Seq(Byte) /\ Len(p5) = n + 6 + d
      /\ \A i \in 1 .. n + 5 + d : p5[i] = p4[i]
      /\ p5[n + 6 + d] = SOH
  <2> DEFINE t == <<SOH>>
  <2>1. t \in Seq(Byte) /\ Len(t) = 1 /\ t[1] = SOH
    BY FieldFacts, PartFacts
  <2> HIDE DEF t
  <2>2. Joined(p4, t, p4 \o t, n + 5 + d, 1)
    <3>1. p4 \in Seq(Byte) /\ Len(p4) = n + 5 + d
      BY <1>4
    <3> HIDE DEF n, d, b
    <3> QED BY <2>1, <3>1, ConcatFacts, Zenon
  <2>3. Joined(p4, t, p5, n + 5 + d, 1)
    BY <2>2 DEF p5, t
  <2> HIDE DEF p5, n, d, b
  <2>4. n + 5 + d + 1 = n + 6 + d /\ 1 \in 1 .. 1
    BY <1>0
  <2> QED BY <2>1, <2>3, <2>4 DEF Joined
<1> HIDE DEF p5
<1>6. /\ p6 \in Seq(Byte) /\ Len(p6) = n + 6 + d + b
      /\ \A i \in 1 .. n + 6 + d : p6[i] = p5[i]
  <2> DEFINE t == m.body
  <2>1. t \in Seq(Byte) /\ Len(t) = b
    BY FieldFacts, PartFacts
  <2> HIDE DEF t
  <2>2. Joined(p5, t, p5 \o t, n + 6 + d, b)
    <3>1. p5 \in Seq(Byte) /\ Len(p5) = n + 6 + d
      BY <1>5
    <3> HIDE DEF n, d, b
    <3> QED BY <2>1, <3>1, ConcatFacts, Zenon
  <2>3. Joined(p5, t, p6, n + 6 + d, b)
    BY <2>2 DEF p6, t
  <2> HIDE DEF p6, n, d, b
  <2>4. n + 6 + d \in Nat
    BY <1>0
  <2> QED BY <2>1, <2>3, <2>4 DEF Joined
<1>7. Summed(m) = p6
  BY DEF Summed, p1, p2, p3, p4, p5, Length
<1> HIDE DEF p6
<1>8. /\ 1 \in 1 .. n + 2 /\ 1 \in 1 .. n + 3 /\ 1 \in 1 .. n + 5 /\ 1 \in 1 .. n + 5 + d /\ 1 \in 1 .. n + 6 + d
      /\ 2 \in 1 .. n + 2 /\ 2 \in 1 .. n + 3 /\ 2 \in 1 .. n + 5 /\ 2 \in 1 .. n + 5 + d /\ 2 \in 1 .. n + 6 + d
  BY <1>0
<1>9. \A i \in 1 .. n + 2 : p6[i] = p1[i]
  <2> SUFFICES ASSUME NEW i \in 1 .. n + 2 PROVE p6[i] = p1[i]
    OBVIOUS
  <2>1. i \in 1 .. n + 3 /\ i \in 1 .. n + 5 /\ i \in 1 .. n + 5 + d /\ i \in 1 .. n + 6 + d
    BY <1>0
  <2> QED BY <2>1, <1>2, <1>3, <1>4, <1>5, <1>6
<1>10. p6[n + 3] = SOH
  <2>1. /\ n + 3 \in 1 .. n + 3 /\ n + 3 \in 1 .. n + 5 /\ n + 3 \in 1 .. n + 5 + d
        /\ n + 3 \in 1 .. n + 6 + d
    BY <1>0
  <2> QED BY <2>1, <1>2, <1>3, <1>4, <1>5, <1>6
<1>11. p6[n + 4] = Zero + 9 /\ p6[n + 5] = Equals
  <2>1. /\ n + 4 \in 1 .. n + 5 /\ n + 4 \in 1 .. n + 5 + d /\ n + 4 \in 1 .. n + 6 + d
        /\ n + 5 \in 1 .. n + 5 /\ n + 5 \in 1 .. n + 5 + d /\ n + 5 \in 1 .. n + 6 + d
    BY <1>0
  <2> QED BY <2>1, <1>3, <1>4, <1>5, <1>6
<1>12. \A i \in 1 .. d : p6[n + 5 + i] = Length(m)[i]
  <2> SUFFICES ASSUME NEW i \in 1 .. d PROVE p6[n + 5 + i] = Length(m)[i]
    OBVIOUS
  <2>1. n + 5 + i \in 1 .. n + 5 + d /\ n + 5 + i \in 1 .. n + 6 + d
    BY <1>0
  <2> QED BY <2>1, <1>4, <1>5, <1>6
<1>13. p6[n + 6 + d] = SOH
  <2>1. n + 6 + d \in 1 .. n + 6 + d
    BY <1>0
  <2> QED BY <2>1, <1>5, <1>6
<1>14. p6[1] = Zero + 8 /\ p6[2] = Equals
  BY <1>1, <1>8, <1>9
<1>15. \A i \in 1 .. n : p6[2 + i] = m.begin[i]
  <2> SUFFICES ASSUME NEW i \in 1 .. n PROVE p6[2 + i] = m.begin[i]
    OBVIOUS
  <2>1. 2 + i \in 1 .. n + 2
    BY <1>0
  <2> QED BY <2>1, <1>1, <1>9
<1>16. /\ n + 6 + d + b = Trailer(m) - 1 /\ n + 3 = BeginEnd(m) /\ n + 4 = BeginEnd(m) + 1
       /\ n + 5 = BeginEnd(m) + 2 /\ n + 6 + d = LengthEnd(m)
       /\ \A i \in 1 .. d : n + 5 + i = BeginEnd(m) + 2 + i
  <2> HIDE DEF n, d, b
  <2> QED BY <1>0
<1> HIDE DEF n, d, b
<1>17. \A i \in 1 .. d : p6[BeginEnd(m) + 2 + i] = Length(m)[i]
  BY <1>12, <1>16
<1> QED BY <1>6, <1>7, <1>10, <1>11, <1>13, <1>14, <1>15, <1>16, <1>17 DEF n, d, b

(* The bytes of a message have everything at its place, the trailer seven  *)
(* bytes before the end.                                                   *)
LEMMA ToWireLayout ==
    ASSUME NEW m \in Messages
    PROVE  /\ ToWire(m) \in Seq(Byte)
           /\ Len(ToWire(m)) = Trailer(m) + 6
           /\ InPlace(ToWire(m), m)
<1> DEFINE n == Trailer(m)
           p0 == Summed(m)
           d10 == Field(10)
           sum == ThreeDigits(Checksum(Summed(m)))
           soh == <<SOH>>
           p1 == p0 \o d10
           p2 == p1 \o sum
           p3 == p2 \o soh
<1>1. /\ p0 \in Seq(Byte) /\ Len(p0) = n - 1 /\ n \in Nat /\ n >= 1
  BY SummedLayout, PartFacts, LenProperties
<1>2. /\ d10 \in Seq(Byte) /\ Len(d10) = 3
      /\ d10[1] = Zero + 1 /\ d10[2] = Zero /\ d10[3] = Equals
  BY FieldFacts
<1>3. sum \in Seq(Byte) /\ Len(sum) = 3 /\ \A i \in 1 .. 3 : IsDigit(sum[i])
  <2>1. Checksum(p0) \in 0 .. 255
    BY <1>1, ChecksumRange
  <2>2. sum \in Seq(Digit) /\ Len(sum) = 3
    BY <2>1, ThreeDigitsFacts
  <2> HIDE DEF sum
  <2>3. Digit \subseteq Byte
    BY DEF Digit, Byte, Zero
  <2>4. sum \in Seq(Byte)
    BY <2>2, <2>3, SeqMonotonic
  <2>5. \A i \in 1 .. Len(sum) : sum[i] \in Digit
    BY <2>2, ElementOfSeq
  <2> QED BY <2>2, <2>4, <2>5 DEF Digit, IsDigit
<1>4. soh \in Seq(Byte) /\ Len(soh) = 1 /\ soh[1] = SOH
  BY PartFacts
<1>5. ToWire(m) = p3
  BY DEF ToWire
<1> HIDE DEF n, p0, d10, sum, soh, p3
<1>6. Joined(p0, d10, p1, n - 1, 3)
  <2> HIDE DEF p1
  <2>1. Joined(p0, d10, p0 \o d10, n - 1, 3)
    BY <1>1, <1>2, ConcatFacts, Zenon
  <2> QED BY <2>1 DEF p1
<1> HIDE DEF p1
<1>7. p1 \in Seq(Byte) /\ Len(p1) = n + 2
  BY <1>1, <1>6 DEF Joined
<1>8. Joined(p1, sum, p2, n + 2, 3)
  <2> HIDE DEF p2
  <2>1. Joined(p1, sum, p1 \o sum, n + 2, 3)
    BY <1>3, <1>7, ConcatFacts, Zenon
  <2> QED BY <2>1 DEF p2
<1> HIDE DEF p2
<1>9. p2 \in Seq(Byte) /\ Len(p2) = n + 5
  BY <1>1, <1>8 DEF Joined
<1>10. Joined(p2, soh, p3, n + 5, 1)
  <2>1. Joined(p2, soh, p2 \o soh, n + 5, 1)
    BY <1>4, <1>9, ConcatFacts, Zenon
  <2> QED BY <2>1 DEF p3
<1>11. /\ p3 \in Seq(Byte) /\ Len(p3) = n + 6
  BY <1>1, <1>10 DEF Joined
<1>12. \A i \in 1 .. n - 1 : p3[i] = p0[i]
  <2> SUFFICES ASSUME NEW i \in 1 .. n - 1 PROVE p3[i] = p0[i]
    OBVIOUS
  <2>1. i \in 1 .. n + 2 /\ i \in 1 .. n + 5
    BY <1>1
  <2> QED BY <2>1, <1>6, <1>8, <1>10 DEF Joined
<1>13. \A i \in 1 .. 3 : p3[n - 1 + i] = d10[i]
  <2> SUFFICES ASSUME NEW i \in 1 .. 3 PROVE p3[n - 1 + i] = d10[i]
    OBVIOUS
  <2>1. n - 1 + i \in 1 .. n + 2 /\ n - 1 + i \in 1 .. n + 5
    BY <1>1
  <2> QED BY <2>1, <1>6, <1>8, <1>10 DEF Joined
<1>14. \A i \in 1 .. 3 : p3[n + 2 + i] = sum[i]
  <2> SUFFICES ASSUME NEW i \in 1 .. 3 PROVE p3[n + 2 + i] = sum[i]
    OBVIOUS
  <2>1. n + 2 + i \in 1 .. n + 5
    BY <1>1
  <2> QED BY <2>1, <1>8, <1>10 DEF Joined
<1>15. p3[n + 6] = SOH
  <2>1. 1 \in 1 .. 1 /\ n + 5 + 1 = n + 6
    BY <1>1
  <2> QED BY <2>1, <1>4, <1>10 DEF Joined
<1>16. p3[n] = Zero + 1 /\ p3[n + 1] = Zero /\ p3[n + 2] = Equals
  <2>1. /\ n - 1 + 1 = n /\ n - 1 + 2 = n + 1 /\ n - 1 + 3 = n + 2
        /\ 1 \in 1 .. 3 /\ 2 \in 1 .. 3 /\ 3 \in 1 .. 3
    BY <1>1
  <2> QED BY <2>1, <1>2, <1>13
<1>17. \A i \in 3 .. 5 : IsDigit(p3[n + i])
  <2> SUFFICES ASSUME NEW i \in 3 .. 5 PROVE IsDigit(p3[n + i])
    OBVIOUS
  <2> DEFINE j == i - 2
  <2>1. j \in 1 .. 3 /\ n + 2 + j = n + i
    BY <1>1
  <2> HIDE DEF j
  <2> QED BY <2>1, <1>3, <1>14
<1>18. /\ Len(m.begin) \in Nat /\ Len(m.body) \in Nat /\ Len(Length(m)) \in Nat
       /\ BeginEnd(m) = Len(m.begin) + 3
       /\ LengthEnd(m) = BeginEnd(m) + 3 + Len(Length(m))
       /\ n = LengthEnd(m) + 1 + Len(m.body)
  BY PartFacts DEF BeginEnd, LengthEnd, Trailer, n
<1>19. /\ 1 \in 1 .. n - 1 /\ 2 \in 1 .. n - 1 /\ BeginEnd(m) \in 1 .. n - 1
       /\ BeginEnd(m) + 1 \in 1 .. n - 1 /\ BeginEnd(m) + 2 \in 1 .. n - 1
       /\ LengthEnd(m) \in 1 .. n - 1
       /\ \A i \in 1 .. Len(m.begin) : 2 + i \in 1 .. n - 1
       /\ \A i \in 1 .. Len(Length(m)) : BeginEnd(m) + 2 + i \in 1 .. n - 1
  <2> DEFINE x == Len(m.begin)
             y == Len(m.body)
             z == Len(Length(m))
             u == BeginEnd(m)
             v == LengthEnd(m)
  <2>1. /\ x \in Nat /\ y \in Nat /\ z \in Nat
        /\ u = x + 3 /\ v = u + 3 + z /\ n = v + 1 + y
    BY <1>18
  <2> HIDE DEF x, y, z, u, v
  <2>2. /\ 1 \in 1 .. n - 1 /\ 2 \in 1 .. n - 1 /\ u \in 1 .. n - 1
        /\ u + 1 \in 1 .. n - 1 /\ u + 2 \in 1 .. n - 1 /\ v \in 1 .. n - 1
    BY <2>1
  <2>3. \A i \in 1 .. x : 2 + i \in 1 .. n - 1
    BY <2>1
  <2>4. \A i \in 1 .. z : u + 2 + i \in 1 .. n - 1
    BY <2>1
  <2> QED BY <2>2, <2>3, <2>4 DEF x, y, z, u, v
<1>20. /\ p3[1] = Zero + 8 /\ p3[2] = Equals
       /\ \A i \in 1 .. Len(m.begin) : p3[2 + i] = m.begin[i]
       /\ p3[BeginEnd(m)] = SOH
       /\ p3[BeginEnd(m) + 1] = Zero + 9 /\ p3[BeginEnd(m) + 2] = Equals
       /\ \A i \in 1 .. Len(Length(m)) : p3[BeginEnd(m) + 2 + i] = Length(m)[i]
       /\ p3[LengthEnd(m)] = SOH
  BY <1>12, <1>19, SummedLayout DEF p0
<1>21. InPlace(p3, m)
  BY <1>15, <1>16, <1>17, <1>20 DEF InPlace, n
<1> QED BY <1>5, <1>11, <1>21 DEF n

-----------------------------------------------------------------------------
(* What findBodyLengthFrameEnd finds                                       *)

(* The first separator is where one is and none is before it.              *)
LEMMA FirstSOHThere ==
    ASSUME NEW bytes \in Seq(Byte), NEW from \in Nat, NEW i \in from .. Len(bytes),
           bytes[i] = SOH, \A j \in from .. i - 1 : bytes[j] # SOH
    PROVE  FirstSOH(bytes, from) = i
<1> DEFINE I == {j \in from .. Len(bytes) : bytes[j] = SOH}
<1>1. i \in I /\ \A j \in I : i <= j
  <2>1. Len(bytes) \in Nat
    OBVIOUS
  <2> SUFFICES ASSUME NEW j \in I PROVE i <= j
    OBVIOUS
  <2>2. ~(j \in from .. i - 1)
    OBVIOUS
  <2> QED BY <2>1, <2>2
<1>2. FirstSOH(bytes, from) = Min(I)
  <2>1. I # {}
    BY <1>1
  <2> QED BY <2>1 DEF FirstSOH, SelectInSubSeq
<1>3. I \subseteq Int
  OBVIOUS
<1> HIDE DEF I
<1>4. Min(I) \in I /\ \A j \in I : Min(I) <= j
  BY <1>1 DEF Min
<1>5. i <= Min(I) /\ Min(I) <= i /\ i \in Int /\ Min(I) \in Int
  BY <1>1, <1>3, <1>4
<1> QED BY <1>2, <1>5

(* There is no first separator where there is none.                        *)
LEMMA FirstSOHNot ==
    ASSUME NEW bytes \in Seq(Byte), NEW from \in Nat,
           \A j \in from .. Len(bytes) : bytes[j] # SOH
    PROVE  FirstSOH(bytes, from) = 0
<1>1. {j \in from .. Len(bytes) : bytes[j] = SOH} = {}
  OBVIOUS
<1> QED BY <1>1 DEF FirstSOH, SelectInSubSeq

(* Of a text of digits Sscanf reads all.                                   *)
LEMMA ScannedDigits ==
    ASSUME NEW text \in Seq(Digit)
    PROVE  Scanned(text) = Atoi(text)
<1>1. \A i \in 1 .. Len(text) : IsDigit(text[i])
  BY ElementOfSeq DEF Digit, IsDigit
<1>2. {i \in 1 .. Len(text) : ~IsDigit(text[i])} = {}
  BY <1>1
<1> QED BY <1>2 DEF Scanned, SelectInSeq

(* A buffer and a message: they are the same bytes as far as both go.      *)
Agrees(bytes, m) ==
    \A i \in 1 .. Len(bytes) : i <= Len(ToWire(m)) => bytes[i] = ToWire(m)[i]

(* findBodyLengthFrameEnd on a buffer that begins with a message or with a *)
(* part of one, whatever follows and whatever the body holds: the end of   *)
(* that message once it is all there, and no frame before.                 *)
LEMMA FrameEndFacts ==
    ASSUME NEW m \in Messages, NEW bytes \in Seq(Byte), Agrees(bytes, m)
    PROVE  FrameEnd(bytes) = IF Len(bytes) >= Len(ToWire(m)) THEN Len(ToWire(m)) ELSE NoFrame
<1> DEFINE f == ToWire(m)
           l == Len(bytes)
           n == Len(m.begin)
           b == Len(m.body)
           d == Len(Length(m))
           B == BeginEnd(m)
           S == LengthEnd(m)
           T == Trailer(m)
<1>1. /\ n \in Nat /\ b \in Nat /\ d \in Nat /\ d >= 1 /\ l \in Nat
      /\ B = n + 3 /\ S = B + 3 + d /\ T = S + 1 + b
      /\ Len(f) = T + 6
  <2>1. n \in Nat /\ b \in Nat /\ d \in Nat /\ d >= 1
    BY PartFacts
  <2>2. l \in Nat
    OBVIOUS
  <2>3. B = n + 3
    BY DEF BeginEnd
  <2>4. S = B + 3 + d
    BY DEF LengthEnd
  <2>5. T = S + 1 + b
    BY DEF Trailer
  <2>6. Len(f) = T + 6
    BY ToWireLayout
  <2> HIDE DEF n, b, d, B, S, T, l, f
  <2> QED BY <2>1, <2>2, <2>3, <2>4, <2>5, <2>6
<1>2. \A i \in 1 .. l : i <= T + 6 => bytes[i] = f[i]
  BY <1>1 DEF Agrees
<1>3. /\ f[1] = Zero + 8 /\ f[2] = Equals
      /\ \A i \in 1 .. n : f[2 + i] # SOH
      /\ f[B] = SOH
      /\ f[B + 1] = Zero + 9 /\ f[B + 2] = Equals
      /\ \A i \in 1 .. d : f[B + 2 + i] = Length(m)[i]
      /\ f[S] = SOH
      /\ f[T] = Zero + 1 /\ f[T + 1] = Zero /\ f[T + 2] = Equals
      /\ \A i \in 3 .. 5 : IsDigit(f[T + i])
      /\ f[T + 6] = SOH
  <2>1. InPlace(f, m)
    BY ToWireLayout
  <2>2. \A i \in 1 .. n : m.begin[i] # SOH
    BY PartFacts
  <2> HIDE DEF f
  <2>3. \A i \in 1 .. n : f[2 + i] # SOH
    BY <2>1, <2>2 DEF InPlace
  <2> QED BY <2>1, <2>3 DEF InPlace
<1>4. /\ Length(m) \in Seq(Digit) /\ Atoi(Length(m)) = b /\ Length(m) \in Seq(Byte)
      /\ \A i \in 1 .. d : Length(m)[i] \in Digit
  BY PartFacts, ElementOfSeq
<1> HIDE DEF f, l, n, b, d, B, S, T
<1>5. \A j \in 1 .. B - 1 : f[j] # SOH
  <2> SUFFICES ASSUME NEW j \in 1 .. B - 1 PROVE f[j] # SOH
    OBVIOUS
  <2>1. CASE j = 1 \/ j = 2
    BY <2>1, <1>3 DEF Zero, Equals, SOH
  <2>2. CASE j # 1 /\ j # 2
    <3> DEFINE i == j - 2
    <3>1. i \in 1 .. n /\ 2 + i = j
      BY <2>2, <1>1
    <3> HIDE DEF i
    <3> QED BY <3>1, <1>3
  <2> QED BY <2>1, <2>2
<1>6. \A j \in B + 3 .. S - 1 : f[j] # SOH
  <2> SUFFICES ASSUME NEW j \in B + 3 .. S - 1 PROVE f[j] # SOH
    OBVIOUS
  <2> DEFINE i == j - B - 2
  <2>1. i \in 1 .. d /\ B + 2 + i = j
    BY <1>1
  <2> HIDE DEF i
  <2>2. f[j] \in Digit
    BY <2>1, <1>3, <1>4
  <2>3. \A x \in Digit : x # SOH
    BY DEF Digit, Zero, SOH
  <2> QED BY <2>2, <2>3
<1>7. CASE l < B
  <2>1. \A j \in 1 .. l : bytes[j] # SOH
    <3> SUFFICES ASSUME NEW j \in 1 .. l PROVE bytes[j] # SOH
      OBVIOUS
    <3>1. j \in 1 .. B - 1 /\ j <= T + 6
      BY <1>1, <1>7
    <3> QED BY <3>1, <1>2, <1>5
  <2>2. FirstSOH(bytes, 1) = 0
    BY <2>1, FirstSOHNot DEF l
  <2>3. FrameEnd(bytes) = NoFrame
    BY <2>2 DEF FrameEnd
  <2>4. ~(l >= T + 6)
    BY <1>1, <1>7
  <2> QED BY <2>3, <2>4, <1>1 DEF f, l
<1>8. CASE l >= B
  <2>1. FirstSOH(bytes, 1) = B
    <3>1. B \in 1 .. Len(bytes)
      BY <1>1, <1>8 DEF l
    <3>2. bytes[B] = SOH
      <4>1. B \in 1 .. l /\ B <= T + 6
        BY <1>1, <1>8
      <4> QED BY <4>1, <1>2, <1>3
    <3>3. \A j \in 1 .. B - 1 : bytes[j] # SOH
      <4> SUFFICES ASSUME NEW j \in 1 .. B - 1 PROVE bytes[j] # SOH
        OBVIOUS
      <4>1. j \in 1 .. l /\ j <= T + 6
        BY <1>1, <1>8
      <4> QED BY <4>1, <1>2, <1>5
    <3> QED BY <3>1, <3>2, <3>3, FirstSOHThere
  <2>2. CASE l < S
    <3>1. \A j \in B + 3 .. l : bytes[j] # SOH
      <4> SUFFICES ASSUME NEW j \in B + 3 .. l PROVE bytes[j] # SOH
        OBVIOUS
      <4>1. j \in B + 3 .. S - 1 /\ j \in 1 .. l /\ j <= T + 6
        BY <1>1, <2>2
      <4> QED BY <4>1, <1>2, <1>6
    <3>2. FirstSOH(bytes, B + 3) = 0
      <4>1. B + 3 \in Nat
        BY <1>1
      <4> QED BY <3>1, <4>1, FirstSOHNot DEF l
    <3>3. FrameEnd(bytes) = NoFrame
      BY <2>1, <3>2 DEF FrameEnd
    <3>4. ~(l >= T + 6)
      BY <1>1, <2>2
    <3> QED BY <3>3, <3>4, <1>1 DEF f, l
  <2>3. CASE l >= S
    <3>1. FirstSOH(bytes, B + 3) = S
      <4>1. S \in B + 3 .. Len(bytes) /\ B + 3 \in Nat
        BY <1>1, <2>3 DEF l
      <4>2. bytes[S] = SOH
        <5>1. S \in 1 .. l /\ S <= T + 6
          BY <1>1, <2>3
        <5> QED BY <5>1, <1>2, <1>3
      <4>3. \A j \in B + 3 .. S - 1 : bytes[j] # SOH
        <5> SUFFICES ASSUME NEW j \in B + 3 .. S - 1 PROVE bytes[j] # SOH
          OBVIOUS
        <5>1. j \in 1 .. l /\ j <= T + 6
          BY <1>1, <2>3
        <5> QED BY <5>1, <1>2, <1>6
      <4> QED BY <4>1, <4>2, <4>3, FirstSOHThere
    <3>2. SubSeq(bytes, B + 3, S - 1) = Length(m)
      <4> DEFINE t == SubSeq(bytes, B + 3, S - 1)
      <4>1. B + 3 \in Int /\ S - 1 \in Int /\ B + 3 <= S - 1 /\ (S - 1) - (B + 3) + 1 = d
        BY <1>1
      <4>2. \A i \in B + 3 .. S - 1 : bytes[i] \in Byte
        <5> SUFFICES ASSUME NEW i \in B + 3 .. S - 1 PROVE bytes[i] \in Byte
          OBVIOUS
        <5>1. i \in 1 .. Len(bytes)
          BY <1>1, <2>3 DEF l
        <5> QED BY <5>1, ElementOfSeq
      <4>3. /\ t \in Seq(Byte) /\ Len(t) = d
            /\ \A i \in 1 .. d : t[i] = bytes[B + 3 + i - 1]
        BY <4>1, <4>2, SubSeqProperties
      <4>4. \A i \in 1 .. d : bytes[B + 3 + i - 1] = Length(m)[i]
        <5> SUFFICES ASSUME NEW i \in 1 .. d PROVE bytes[B + 3 + i - 1] = Length(m)[i]
          OBVIOUS
        <5>1. B + 3 + i - 1 = B + 2 + i /\ B + 2 + i \in 1 .. l /\ B + 2 + i <= T + 6
          BY <1>1, <2>3
        <5> QED BY <5>1, <1>2, <1>3
      <4> HIDE DEF t
      <4>5. t = Length(m)
        <5>1. \A i \in 1 .. Len(t) : t[i] = Length(m)[i]
          BY <4>3, <4>4
        <5>2. Len(t) = Len(Length(m))
          BY <4>3 DEF d
        <5> QED BY <1>4, <4>3, <5>1, <5>2, SeqEqual
      <4> QED BY <4>5 DEF t
    <3>3. Scanned(SubSeq(bytes, B + 3, S - 1)) = b
      BY <3>2, <1>4, ScannedDigits
    <3>4. b # NotANumber
      BY <1>1 DEF NotANumber
    <3>5. CASE l < T + 6
      <4>1. ~(Len(bytes) >= S + 1 + b + 6)
        BY <3>5, <1>1 DEF l
      <4>2. FrameEnd(bytes) = NoFrame
        BY <2>1, <3>1, <3>3, <4>1 DEF FrameEnd
      <4>3. ~(l >= T + 6)
        BY <1>1, <3>5
      <4> QED BY <4>2, <4>3, <1>1 DEF f, l
    <3>6. CASE l >= T + 6
      <4>1. \A i \in 1 .. T + 6 : bytes[i] = f[i]
        BY <3>6, <1>1, <1>2
      <4>2. /\ Len(bytes) >= 3 /\ Len(bytes) >= B + 3 /\ Len(bytes) >= S + 1 + b + 6
            /\ B # 0 /\ S # 0
        BY <3>6, <1>1 DEF l
      <4>3. At(bytes, 1, Field(8))
        <5>1. Len(Field(8)) = 2 /\ Field(8)[1] = Zero + 8 /\ Field(8)[2] = Equals /\ DOMAIN Field(8) = 1 .. 2
          BY FieldFacts
        <5>2. bytes[1] = f[1] /\ bytes[2] = f[2]
          BY <4>1, <1>1
        <5>3. \A i \in 1 .. 2 : bytes[1 + i - 1] = Field(8)[i]
          <6> SUFFICES ASSUME NEW i \in 1 .. 2 PROVE bytes[1 + i - 1] = Field(8)[i]
            OBVIOUS
          <6>1. 1 + i - 1 = i /\ (i = 1 \/ i = 2)
            OBVIOUS
          <6> QED BY <6>1, <5>1, <5>2, <1>3
        <5>4. 1 + Len(Field(8)) - 1 <= Len(bytes)
          <6> DEFINE w == Len(Field(8))
          <6>1. w = 2
            BY <5>1
          <6> HIDE DEF w
          <6>2. 1 + w - 1 <= l
            BY <6>1, <4>2, <1>1 DEF l
          <6> QED BY <6>2 DEF w, l
        <5> QED BY <5>1, <5>3, <5>4 DEF At
      <4>4. At(bytes, B + 1, Field(9))
        <5>1. Len(Field(9)) = 2 /\ Field(9)[1] = Zero + 9 /\ Field(9)[2] = Equals /\ DOMAIN Field(9) = 1 .. 2
          BY FieldFacts
        <5>2. bytes[B + 1] = f[B + 1] /\ bytes[B + 2] = f[B + 2]
          BY <4>1, <1>1
        <5>3. \A i \in 1 .. 2 : bytes[B + 1 + i - 1] = Field(9)[i]
          <6> SUFFICES ASSUME NEW i \in 1 .. 2 PROVE bytes[B + 1 + i - 1] = Field(9)[i]
            OBVIOUS
          <6>1. B + 1 + i - 1 = B + i /\ (i = 1 \/ i = 2)
            BY <1>1
          <6> QED BY <6>1, <5>1, <5>2, <1>3
        <5>4. B + 1 + Len(Field(9)) - 1 <= Len(bytes)
          <6> DEFINE w == Len(Field(9))
          <6>1. w = 2
            BY <5>1
          <6> HIDE DEF w
          <6>2. B + 1 + w - 1 <= l
            BY <6>1, <4>2, <1>1 DEF l
          <6> QED BY <6>2 DEF w, l
        <5> QED BY <5>1, <5>3, <5>4 DEF At
      <4>5. At(bytes, S + 1 + b, Field(10))
        <5>1. /\ Len(Field(10)) = 3 /\ Field(10)[1] = Zero + 1 /\ Field(10)[2] = Zero
              /\ Field(10)[3] = Equals /\ DOMAIN Field(10) = 1 .. 3
          BY FieldFacts
        <5>2. bytes[T] = f[T] /\ bytes[T + 1] = f[T + 1] /\ bytes[T + 2] = f[T + 2]
          BY <4>1, <1>1
        <5>3. \A i \in 1 .. 3 : bytes[T + i - 1] = Field(10)[i]
          <6> SUFFICES ASSUME NEW i \in 1 .. 3 PROVE bytes[T + i - 1] = Field(10)[i]
            OBVIOUS
          <6>1. (i = 1 /\ T + i - 1 = T) \/ (i = 2 /\ T + i - 1 = T + 1) \/ (i = 3 /\ T + i - 1 = T + 2)
            BY <1>1
          <6> QED BY <6>1, <5>1, <5>2, <1>3
        <5>4. T + Len(Field(10)) - 1 <= Len(bytes)
          <6> DEFINE w == Len(Field(10))
          <6>1. w = 3
            BY <5>1
          <6> HIDE DEF w
          <6>2. T + w - 1 <= l
            BY <6>1, <4>2, <1>1 DEF l
          <6> QED BY <6>2 DEF w, l
        <5>5. At(bytes, T, Field(10))
          BY <5>1, <5>3, <5>4 DEF At
        <5> QED BY <5>5, <1>1
      <4>6. \A i \in 3 .. 5 : IsDigit(bytes[S + 1 + b + i])
        <5> SUFFICES ASSUME NEW i \in 3 .. 5 PROVE IsDigit(bytes[T + i])
          BY <1>1
        <5>1. T + i \in 1 .. T + 6
          BY <1>1
        <5> QED BY <5>1, <4>1, <1>3
      <4>7. bytes[S + 1 + b + 6] = SOH
        <5>1. T + 6 \in 1 .. T + 6 /\ S + 1 + b + 6 = T + 6
          BY <1>1
        <5> QED BY <5>1, <4>1, <1>3
      <4>8. FrameEnd(bytes) = S + 1 + b + 6
        BY <2>1, <3>1, <3>3, <3>4, <4>2, <4>3, <4>4, <4>5, <4>6, <4>7 DEF FrameEnd
      <4>9. FrameEnd(bytes) = T + 6 /\ l >= T + 6
        BY <3>6, <4>8, <1>1
      <4> QED BY <4>9, <1>1 DEF f, l
    <3>7. l < T + 6 \/ l >= T + 6
      BY <1>1
    <3> QED BY <3>5, <3>6, <3>7
  <2>4. l < S \/ l >= S
    BY <1>1
  <2> QED BY <2>2, <2>3, <2>4
<1>9. l < B \/ l >= B
  BY <1>1
<1> QED BY <1>7, <1>8, <1>9

-----------------------------------------------------------------------------
(* The stream, message by message.                                         *)
LEMMA WrittenFacts ==
    ASSUME sent \in Seq(Messages)
    PROVE  /\ Written(0) = <<>>
           /\ \A k \in 0 .. Len(sent) : Written(k) \in Seq(Byte)
           /\ \A k \in 1 .. Len(sent) : Written(k) = Written(k - 1) \o ToWire(sent[k])
<1> DEFINE N == Len(sent)
           V == Seq(Byte)
           step == [i \in 1 .. N |-> [v \in V |-> v \o ToWire(sent[i])]]
           Def(f) == f = [i \in 0 .. N |-> IF i = 0 THEN <<>> ELSE f[i - 1] \o ToWire(sent[i])]
<1>1. N \in Nat /\ \A i \in 1 .. N : sent[i] \in Messages
  BY ElementOfSeq
<1>2. \A i \in 1 .. N : \A v \in V : v \o ToWire(sent[i]) \in V
  <2> SUFFICES ASSUME NEW i \in 1 .. N, NEW v \in V PROVE v \o ToWire(sent[i]) \in V
    OBVIOUS
  <2>1. ToWire(sent[i]) \in V
    BY <1>1, ToWireLayout
  <2> QED BY <2>1, ConcatProperties
<1>3. <<>> \in V
  OBVIOUS
<1> HIDE DEF N, V
<1>4. step \in Steppers(N, V)
  BY <1>2 DEF Steppers
<1>5. \E g : Stepwise(g, N, V, <<>>, step)
  <2> HIDE DEF step
  <2> QED BY <1>1, <1>3, <1>4, StepByStep
<1>6. PICK g \in [0 .. N -> V] :
        \A i \in 0 .. N : g[i] = IF i = 0 THEN <<>> ELSE step[i][g[i - 1]]
  <2> HIDE DEF step
  <2> QED BY <1>5 DEF Stepwise
<1>7. \A i \in 0 .. N : g[i] = IF i = 0 THEN <<>> ELSE g[i - 1] \o ToWire(sent[i])
  <2> SUFFICES ASSUME NEW i \in 0 .. N, i # 0 PROVE g[i] = g[i - 1] \o ToWire(sent[i])
    BY <1>6
  <2>1. i \in 1 .. N /\ i - 1 \in 0 .. N /\ g[i - 1] \in V
    BY <1>1
  <2> QED BY <1>6, <2>1
<1>8. Def(g)
  <2> DEFINE h == [i \in 0 .. N |-> IF i = 0 THEN <<>> ELSE g[i - 1] \o ToWire(sent[i])]
  <2>1. h = [i \in 0 .. N |-> g[i]]
    BY <1>7
  <2>2. g = [i \in 0 .. N |-> g[i]]
    OBVIOUS
  <2> QED BY <2>1, <2>2
<1> DEFINE bytes == CHOOSE f : Def(f)
<1>9. Def(bytes)
  BY <1>8
<1>10. \A k : Written(k) = bytes[k]
  BY DEF Written, N
<1> HIDE DEF bytes
<1>11. \A i \in 0 .. N : bytes[i] = IF i = 0 THEN <<>> ELSE bytes[i - 1] \o ToWire(sent[i])
  BY <1>9
<1> DEFINE T == {n \in Nat : n <= N => bytes[n] \in V}
<1>12. 0 \in T
  BY <1>3, <1>11
<1>13. ASSUME NEW n \in T PROVE n + 1 \in T
  <2> SUFFICES ASSUME n + 1 <= N PROVE bytes[n + 1] \in V
    OBVIOUS
  <2>1. n + 1 \in 0 .. N /\ n + 1 \in 1 .. N /\ n + 1 # 0 /\ (n + 1) - 1 = n /\ bytes[n] \in V
    BY <1>1
  <2> QED BY <2>1, <1>2, <1>11
<1>14. T = Nat
  <2>1. T \in SUBSET Nat
    OBVIOUS
  <2> HIDE DEF T
  <2> QED BY <1>12, <1>13, <2>1, SetInduction
<1>15. \A k \in 0 .. N : bytes[k] \in V
  BY <1>1, <1>14
<1>16. \A k \in 1 .. N : bytes[k] = bytes[k - 1] \o ToWire(sent[k])
  <2> SUFFICES ASSUME NEW k \in 1 .. N PROVE bytes[k] = bytes[k - 1] \o ToWire(sent[k])
    OBVIOUS
  <2>1. k \in 0 .. N /\ k # 0
    BY <1>1
  <2> HIDE DEF Def
  <2> QED BY <2>1, <1>11
<1>17. bytes[0] = <<>>
  BY <1>1, <1>11
<1> QED BY <1>10, <1>15, <1>16, <1>17 DEF N, V

(* Concatenation is associative.                                           *)
LEMMA BytesAssoc ==
    \A a, b, c \in Seq(Byte) : (a \o b) \o c = a \o (b \o c)
<1> SUFFICES ASSUME NEW a \in Seq(Byte), NEW b \in Seq(Byte), NEW c \in Seq(Byte)
             PROVE  (a \o b) \o c = a \o (b \o c)
  OBVIOUS
<1> QED BY ConcatAssociative

(* What was written up to message j begins what was written up to k.       *)
LEMMA WrittenPrefix ==
    ASSUME sent \in Seq(Messages), NEW k \in 0 .. Len(sent), NEW j \in 0 .. k
    PROVE  \E rest \in Seq(Byte) : Written(k) = Written(j) \o rest
<1> DEFINE N == Len(sent)
           Prefix(i, n) == \E rest \in Seq(Byte) : Written(n) = Written(i) \o rest
           T == {n \in Nat : n <= N => \A i \in 0 .. n : Prefix(i, n)}
<1>1. N \in Nat /\ \A i \in 1 .. N : sent[i] \in Messages /\ ToWire(sent[i]) \in Seq(Byte)
  BY ElementOfSeq, ToWireLayout
<1>2. \A n \in 0 .. N : Prefix(n, n)
  <2> SUFFICES ASSUME NEW n \in 0 .. N PROVE Prefix(n, n)
    OBVIOUS
  <2>1. Written(n) \in Seq(Byte)
    BY WrittenFacts
  <2>2. <<>> \in Seq(Byte) /\ Written(n) = Written(n) \o <<>>
    BY <2>1, ConcatEmptySeq, EmptySeq
  <2> QED BY <2>2
<1>3. 0 \in T
  <2>1. \A i \in 0 .. 0 : i = 0
    OBVIOUS
  <2> HIDE DEF Prefix
  <2> QED BY <1>1, <1>2, <2>1
<1>4. ASSUME NEW n \in T PROVE n + 1 \in T
  <2> SUFFICES ASSUME n + 1 <= N, NEW i \in 0 .. n + 1 PROVE Prefix(i, n + 1)
    <3> HIDE DEF Prefix
    <3> QED OBVIOUS
  <2>1. CASE i = n + 1
    <3>1. n + 1 \in 0 .. N
      BY <1>1
    <3> HIDE DEF Prefix
    <3> QED BY <2>1, <3>1, <1>2
  <2>2. CASE i # n + 1
    <3>1. /\ i \in 0 .. n /\ i \in 0 .. N /\ n <= N /\ n + 1 \in 1 .. N /\ (n + 1) - 1 = n
          /\ n \in 0 .. N
      BY <2>2, <1>1
    <3>2. Prefix(i, n)
      <4> HIDE DEF Prefix
      <4> QED BY <3>1
    <3>3. PICK rest \in Seq(Byte) : Written(n) = Written(i) \o rest
      BY <3>2
    <3> DEFINE t == ToWire(sent[n + 1])
    <3>4. Written(n + 1) = Written(n) \o t /\ t \in Seq(Byte) /\ Written(i) \in Seq(Byte)
      BY <3>1, <1>1, WrittenFacts
    <3> HIDE DEF t
    <3>5. (Written(i) \o rest) \o t = Written(i) \o (rest \o t)
      BY <3>4, BytesAssoc, Zenon
    <3>6. rest \o t \in Seq(Byte)
      BY <3>4, ConcatProperties
    <3> QED BY <3>3, <3>4, <3>5, <3>6
  <2> QED BY <2>1, <2>2
<1>5. T = Nat
  <2> HIDE DEF Prefix
  <2>1. T \in SUBSET Nat
    OBVIOUS
  <2> HIDE DEF T
  <2> QED BY <1>3, <1>4, <2>1, SetInduction
<1>6. k \in T /\ k <= N
  <2>1. k \in Nat /\ k <= N
    BY <1>1
  <2> HIDE DEF T
  <2> QED BY <1>5, <2>1
<1>7. Prefix(j, k)
  <2> HIDE DEF Prefix
  <2> QED BY <1>6
<1> QED BY <1>7

-----------------------------------------------------------------------------
(* The invariant of the reading loop.  What was cut off, what is in the    *)
(* buffer and what was not read yet are together what was written; what    *)
(* was cut off are whole messages.                                         *)
FramingTypeOK ==
    /\ sent \in Bursts
    /\ wire \in Seq(Byte)
    /\ buf \in Seq(Byte)
    /\ phase \in {"read", "cut", "done"}
    /\ Len(cut) \in 0 .. Len(sent)

CutAsSent == cut = [k \in 1 .. Len(cut) |-> ToWire(sent[k])]

StreamKept == Written(Len(cut)) \o (buf \o wire) = Written(Len(sent))

NoneComplete == phase = "read" => FrameEnd(buf) = NoFrame

FramingInv == FramingTypeOK /\ CutAsSent /\ StreamKept /\ NoneComplete

(* What is sent are messages, and their bytes are bytes.                   *)
LEMMA SentFacts ==
    ASSUME FramingTypeOK
    PROVE  /\ sent \in Seq(Messages) /\ Len(sent) \in Nat /\ DOMAIN sent = 1 .. Len(sent)
           /\ \A k \in 1 .. Len(sent) : sent[k] \in Messages /\ ToWire(sent[k]) \in Seq(Byte)
<1>1. sent \in Seq(Messages)
  BY FramingAssumption DEF FramingTypeOK
<1> QED BY <1>1, ElementOfSeq, LenProperties, ToWireLayout

(* There is no frame in an empty buffer.                                   *)
LEMMA EmptyNoFrame == FrameEnd(<<>>) = NoFrame
<1> DEFINE e == <<>>
<1>1. e \in Seq(Byte) /\ Len(e) = 0
  OBVIOUS
<1> HIDE DEF e
<1>2. ~(Len(e) >= 3)
  BY <1>1
<1>3. FrameEnd(e) = NoFrame
  BY <1>2 DEF FrameEnd
<1> QED BY <1>3 DEF e

(* With every message cut off the buffer is empty.                         *)
LEMMA AllCut ==
    ASSUME FramingTypeOK, StreamKept, Len(cut) = Len(sent)
    PROVE  buf = <<>> /\ wire = <<>> /\ FrameEnd(buf) = NoFrame
<1> DEFINE w == Written(Len(sent))
           r == buf \o wire
<1>1. w \in Seq(Byte)
  <2>1. Len(sent) \in 0 .. Len(sent)
    BY SentFacts
  <2> QED BY <2>1, SentFacts, WrittenFacts
<1>2. buf \in Seq(Byte) /\ wire \in Seq(Byte) /\ r \in Seq(Byte)
  BY ConcatProperties DEF FramingTypeOK
<1>3. w \o r = w
  BY DEF StreamKept
<1>4. r = <<>>
  <2> HIDE DEF w, r
  <2> QED BY <1>1, <1>2, <1>3, ConcatEqualIffEmpty
<1>5. buf = <<>> /\ wire = <<>>
  BY <1>2, <1>4, ConcatEqualIffEmpty
<1> QED BY <1>5, EmptyNoFrame

(* Otherwise the buffer and what follows begin with the next message.      *)
LEMMA NextMessage ==
    ASSUME FramingTypeOK, StreamKept, Len(cut) < Len(sent)
    PROVE  LET t == ToWire(sent[Len(cut) + 1]) IN
           /\ FrameEnd(buf) = IF Len(buf) >= Len(t) THEN Len(t) ELSE NoFrame
           /\ Len(buf) >= Len(t) =>
                /\ SubSeq(buf, 1, Len(t)) = t
                /\ SubSeq(buf, Len(t) + 1, Len(buf)) \in Seq(Byte)
                /\ Written(Len(cut) + 1) \o (SubSeq(buf, Len(t) + 1, Len(buf)) \o wire)
                     = Written(Len(sent))
<1> DEFINE c == Len(cut)
           n == Len(sent)
           m == sent[c + 1]
           t == ToWire(m)
           w == Written(c)
           r == SubSeq(buf, Len(t) + 1, Len(buf))
<1>1. /\ c \in Nat /\ n \in Nat /\ c + 1 \in 1 .. n /\ c + 1 \in 0 .. n /\ c \in 0 .. n
      /\ n \in 0 .. n /\ (c + 1) - 1 = c
  BY SentFacts DEF FramingTypeOK
<1>2. m \in Messages /\ t \in Seq(Byte) /\ buf \in Seq(Byte) /\ wire \in Seq(Byte)
  BY <1>1, SentFacts DEF FramingTypeOK
<1>3. /\ w \in Seq(Byte) /\ Written(c + 1) = w \o t
  BY <1>1, SentFacts, WrittenFacts
<1>4. PICK rest \in Seq(Byte) : Written(n) = Written(c + 1) \o rest
  BY <1>1, SentFacts, WrittenPrefix
<1>5. w \o (buf \o wire) = Written(n)
  BY DEF StreamKept
<1> HIDE DEF c, n, w, m
<1>6. buf \o wire = t \o rest
  <2> DEFINE x == buf \o wire
             y == t \o rest
  <2>1. x \in Seq(Byte) /\ y \in Seq(Byte)
    BY <1>2, <1>4, ConcatProperties
  <2>2. (w \o t) \o rest = w \o (t \o rest)
    BY <1>2, <1>3, <1>4, BytesAssoc, Zenon
  <2>3. w \o x = w \o y
    BY <1>3, <1>4, <1>5, <2>2
  <2> HIDE DEF x, y
  <2>4. x = y
    BY <1>3, <2>1, <2>3, ConcatSimplifications
  <2> QED BY <2>4 DEF x, y
<1>7. Agrees(buf, m)
  <2> SUFFICES ASSUME NEW i \in 1 .. Len(buf), i <= Len(t) PROVE buf[i] = t[i]
    BY DEF Agrees
  <2>1. i \in 1 .. Len(t)
    BY <1>2
  <2>2. (buf \o wire)[i] = buf[i]
    BY <1>2, ConcatFacts DEF Joined
  <2>3. (t \o rest)[i] = t[i]
    BY <1>2, <1>4, <2>1, ConcatFacts DEF Joined
  <2> QED BY <1>6, <2>2, <2>3
<1>8. FrameEnd(buf) = IF Len(buf) >= Len(t) THEN Len(t) ELSE NoFrame
  BY <1>2, <1>7, FrameEndFacts
<1>9. ASSUME Len(buf) >= Len(t)
      PROVE  /\ SubSeq(buf, 1, Len(t)) = t /\ r \in Seq(Byte)
             /\ Written(c + 1) \o (r \o wire) = Written(n)
  <2> HIDE DEF t
  <2>1. Len(t) \in Nat /\ Len(buf) \in Nat /\ \A i \in 1 .. Len(buf) : buf[i] \in Byte
    BY <1>2, ElementOfSeq
  <2> DEFINE s == SubSeq(buf, 1, Len(t))
  <2>2. /\ s \in Seq(Byte) /\ Len(s) = Len(t) /\ \A i \in 1 .. Len(t) : s[i] = buf[i]
    <3> DEFINE k == Len(t)
    <3>1. \A i \in 1 .. k : buf[i] \in Byte
      BY <1>9, <2>1
    <3>2. k \in Int /\ 1 \in Int
      BY <2>1
    <3>3. /\ SubSeq(buf, 1, k) \in Seq(Byte)
          /\ Len(SubSeq(buf, 1, k)) = IF 1 <= k THEN k - 1 + 1 ELSE 0
          /\ \A i \in 1 .. k - 1 + 1 : SubSeq(buf, 1, k)[i] = buf[1 + i - 1]
      <4> HIDE DEF k
      <4> QED BY <3>1, <3>2, SubSeqProperties
    <3>4. k \in Nat /\ k - 1 + 1 = k /\ (IF 1 <= k THEN k - 1 + 1 ELSE 0) = k
      BY <2>1
    <3>5. \A i \in 1 .. k : 1 + i - 1 = i
      BY <3>2
    <3> HIDE DEF k
    <3>6. /\ SubSeq(buf, 1, k) \in Seq(Byte) /\ Len(SubSeq(buf, 1, k)) = k
          /\ \A i \in 1 .. k : SubSeq(buf, 1, k)[i] = buf[i]
      BY <3>3, <3>4, <3>5
    <3> QED BY <3>6 DEF k
  <2>3. s = t
    <3>1. \A i \in 1 .. Len(s) : s[i] = t[i]
      <4> SUFFICES ASSUME NEW i \in 1 .. Len(t) PROVE buf[i] = t[i]
        BY <2>2
      <4>1. i \in 1 .. Len(buf) /\ i <= Len(t)
        BY <1>9, <2>1
      <4> QED BY <1>7, <4>1 DEF Agrees, t
    <3> HIDE DEF s
    <3> QED BY <1>2, <2>2, <3>1, SeqEqual
  <2>4. r \in Seq(Byte) /\ buf = s \o r
    <3>1. /\ 1 \in 1 .. Len(buf) + 1 /\ Len(t) \in 1 - 1 .. Len(buf) /\ Len(buf) \in Len(t) .. Len(buf)
      BY <1>9, <2>1
    <3>2. SubSeq(buf, 1, Len(t)) \o SubSeq(buf, Len(t) + 1, Len(buf)) = SubSeq(buf, 1, Len(buf))
      BY <1>2, <3>1, ConcatAdjacentSubSeq
    <3>3. SubSeq(buf, 1, Len(buf)) = buf
      BY <1>2, SubSeqFull
    <3>4. \A i \in Len(t) + 1 .. Len(buf) : buf[i] \in Byte
      BY <2>1
    <3>5. r \in Seq(Byte)
      BY <2>1, <3>4, SubSeqProperties
    <3> QED BY <3>2, <3>3, <3>5
  <2> HIDE DEF s, r
  <2>5. r \o wire \in Seq(Byte)
    BY <1>2, <2>4, ConcatProperties
  <2>6. (w \o t) \o (r \o wire) = w \o (t \o (r \o wire))
    BY <1>2, <1>3, <2>5, BytesAssoc, Zenon
  <2>7. (t \o r) \o wire = t \o (r \o wire)
    <3>1. t \in Seq(Byte) /\ wire \in Seq(Byte)
      BY <1>2
    <3>2. r \in Seq(Byte)
      BY <2>4
    <3>3. \A a, b, d \in Seq(Byte) : (a \o b) \o d = a \o (b \o d)
      BY BytesAssoc
    <3> QED BY ONLY <3>1, <3>2, <3>3, Zenon
  <2>8. Written(c + 1) \o (r \o wire) = Written(n)
    BY ONLY <1>3, <1>5, <2>3, <2>4, <2>6, <2>7, Zenon
  <2> QED BY <2>3, <2>4, <2>8 DEF s
<1> QED BY <1>8, <1>9 DEF c, n, m

(* The invariant holds before the first read.                              *)
LEMMA InitialFraming == FramingInit => FramingInv
<1> SUFFICES ASSUME FramingInit PROVE FramingInv
  OBVIOUS
<1> DEFINE n == Len(sent)
           w == Written(n)
<1>1. sent \in Seq(Messages) /\ n \in Nat /\ 0 \in 0 .. n /\ n \in 0 .. n
  BY FramingAssumption DEF FramingInit
<1>2. w \in Seq(Byte) /\ Written(0) = <<>>
  BY <1>1, WrittenFacts
<1>3. Len(cut) = 0
  BY DEF FramingInit
<1>4. FramingTypeOK
  BY <1>1, <1>2, <1>3 DEF FramingInit, FramingTypeOK
<1>5. CutAsSent
  BY DEF FramingInit, CutAsSent
<1>6. StreamKept
  <2>1. <<>> \o (<<>> \o w) = w
    BY <1>2, ConcatEmptySeq
  <2> QED BY <1>2, <1>3, <2>1 DEF FramingInit, StreamKept
<1>7. NoneComplete
  BY EmptyNoFrame DEF FramingInit, NoneComplete
<1> QED BY <1>4, <1>5, <1>6, <1>7 DEF FramingInv

(* What was written is fixed with the messages.                            *)
LEMMA WrittenKept ==
    ASSUME sent' = sent
    PROVE  \A k : Written(k)' = Written(k)
BY DEF Written

(* A read, a frame cut off, the end of a round and the end of the loop     *)
(* preserve it.                                                            *)
LEMMA FramingStep == FramingInv /\ [FramingNext]_framingVars => FramingInv'
<1> SUFFICES ASSUME FramingInv, [FramingNext]_framingVars PROVE FramingInv'
  OBVIOUS
<1> USE DEF FramingInv
<1>1. ASSUME NEW n \in 1 .. ReadSize, ReadBytes(n) PROVE FramingInv'
  <2> DEFINE s == SubSeq(wire, 1, n)
             r == SubSeq(wire, n + 1, Len(wire))
  <2>1. /\ n \in Nat /\ Len(wire) \in Nat /\ n <= Len(wire) /\ n \in 1 .. Len(wire)
        /\ wire \in Seq(Byte) /\ buf \in Seq(Byte)
    BY <1>1, FramingAssumption DEF ReadBytes, FramingTypeOK
  <2>2. s \in Seq(Byte) /\ r \in Seq(Byte)
    <3>1. \A i \in 1 .. Len(wire) : wire[i] \in Byte
      BY <2>1, ElementOfSeq
    <3>2. (\A i \in 1 .. n : wire[i] \in Byte) /\ (\A i \in n + 1 .. Len(wire) : wire[i] \in Byte)
      BY <2>1, <3>1
    <3>3. s \in Seq(Byte)
      BY <2>1, <3>2, SubSeqProperties
    <3>4. r \in Seq(Byte)
      BY <2>1, <3>2, SubSeqProperties
    <3> QED BY <3>3, <3>4
  <2>3. s \o r = wire
    <3>1. /\ 1 \in 1 .. Len(wire) + 1 /\ n \in 1 - 1 .. Len(wire) /\ Len(wire) \in n .. Len(wire)
      BY <2>1
    <3>2. s \o r = SubSeq(wire, 1, Len(wire))
      BY <2>1, <3>1, ConcatAdjacentSubSeq
    <3> QED BY <2>1, <3>2, SubSeqFull
  <2>4. /\ buf' = buf \o s /\ wire' = r /\ phase' = "cut" /\ sent' = sent /\ cut' = cut
    BY <1>1 DEF ReadBytes
  <2> HIDE DEF s, r
  <2>5. (buf \o s) \o r = buf \o wire
    <3>1. \A a, b, d \in Seq(Byte) : (a \o b) \o d = a \o (b \o d)
      BY BytesAssoc
    <3>2. (buf \o s) \o r = buf \o (s \o r)
      BY <2>1, <2>2, <3>1, Zenon
    <3> QED BY <2>3, <3>2
  <2>6. FramingTypeOK'
    <3>1. buf \o s \in Seq(Byte)
      BY <2>1, <2>2, ConcatProperties
    <3> QED BY <2>2, <2>4, <3>1 DEF FramingTypeOK
  <2>7. CutAsSent'
    BY <2>4 DEF CutAsSent, ToWire, Summed
  <2>8. StreamKept'
    BY <2>4, <2>5, WrittenKept DEF StreamKept
  <2>9. NoneComplete'
    BY <2>4 DEF NoneComplete
  <2> QED BY <2>6, <2>7, <2>8, <2>9
<1>2. CASE CutsOff
  <2> DEFINE c == Len(cut)
             t == ToWire(sent[c + 1])
             r == SubSeq(buf, Len(t) + 1, Len(buf))
  <2>1. c \in Nat /\ Len(sent) \in Nat /\ c < Len(sent)
    <3>1. Len(cut) # Len(sent)
      BY <1>2, AllCut DEF CutsOff
    <3> QED BY <3>1, SentFacts DEF FramingTypeOK
  <2>2. /\ FrameEnd(buf) = IF Len(buf) >= Len(t) THEN Len(t) ELSE NoFrame
        /\ Len(buf) >= Len(t) =>
             /\ SubSeq(buf, 1, Len(t)) = t /\ r \in Seq(Byte)
             /\ Written(c + 1) \o (r \o wire) = Written(Len(sent))
    BY <2>1, NextMessage
  <2>3. FrameEnd(buf) # NoFrame
    BY <1>2 DEF CutsOff
  <2>4. Len(buf) >= Len(t) /\ FrameEnd(buf) = Len(t)
    <3> HIDE DEF t, r
    <3> QED BY <2>2, <2>3
  <2>5. /\ cut' = Append(cut, t) /\ buf' = r
        /\ sent' = sent /\ wire' = wire /\ phase' = "cut"
    BY <1>2, <2>2, <2>4 DEF CutsOff
  <2>6. /\ cut = [k \in 1 .. c |-> ToWire(sent[k])]
    BY DEF CutAsSent
  <2>7. cut' = [k \in 1 .. c + 1 |-> ToWire(sent[k])] /\ Len(cut') = c + 1
    <3> DEFINE f == [k \in 1 .. c |-> ToWire(sent[k])]
               g == [k \in 1 .. c + 1 |-> ToWire(sent[k])]
    <3>1. \A k \in 1 .. c : ToWire(sent[k]) \in Seq(Byte)
      BY <2>1, SentFacts
    <3>2. t \in Seq(Byte)
      BY <2>1, SentFacts
    <3>3. cut \in Seq(Seq(Byte))
      BY <2>1, <2>6, <3>1
    <3>4. /\ Append(cut, t) \in Seq(Seq(Byte)) /\ Len(Append(cut, t)) = c + 1
          /\ Append(cut, t)[c + 1] = t /\ \A k \in 1 .. c : Append(cut, t)[k] = cut[k]
      BY <3>2, <3>3, AppendProperties
    <3>5. \A k \in 1 .. c + 1 : Append(cut, t)[k] = ToWire(sent[k])
      <4> SUFFICES ASSUME NEW k \in 1 .. c + 1 PROVE Append(cut, t)[k] = ToWire(sent[k])
        OBVIOUS
      <4>1. CASE k = c + 1
        BY <3>4, <4>1
      <4>2. CASE k # c + 1
        <5>1. k \in 1 .. c
          BY <2>1, <4>2
        <5>2. cut[k] = ToWire(sent[k])
          BY <2>6, <5>1
        <5> QED BY <3>4, <5>1, <5>2
      <4> QED BY <4>1, <4>2
    <3>6. g \in Seq(Seq(Byte)) /\ Len(g) = c + 1
      <4>1. \A k \in 1 .. c + 1 : ToWire(sent[k]) \in Seq(Byte)
        BY <2>1, SentFacts
      <4> QED BY <2>1, <4>1
    <3>7. Append(cut, t) = g
      BY <3>4, <3>5, <3>6, SeqEqual
    <3> QED BY <2>5, <3>4, <3>7
  <2>8. FramingTypeOK'
    <3>1. Len(cut') \in 0 .. Len(sent)
      BY <2>1, <2>7
    <3> QED BY <2>2, <2>4, <2>5, <3>1 DEF FramingTypeOK
  <2>9. CutAsSent'
    <3> HIDE DEF t
    <3> QED BY <2>5, <2>7 DEF CutAsSent, ToWire, Summed
  <2>10. StreamKept'
    <3> HIDE DEF t
    <3> QED BY <2>2, <2>4, <2>5, <2>7, WrittenKept DEF StreamKept
  <2>11. NoneComplete'
    BY <2>5 DEF NoneComplete
  <2> QED BY <2>8, <2>9, <2>10, <2>11
<1>3. CASE Incomplete
  <2>1. sent' = sent /\ wire' = wire /\ buf' = buf /\ cut' = cut /\ phase' = "read"
        /\ FrameEnd(buf) = NoFrame
    BY <1>3 DEF Incomplete
  <2>2. FramingTypeOK' /\ CutAsSent'
    BY <2>1 DEF FramingTypeOK, CutAsSent, ToWire, Summed
  <2>3. StreamKept'
    BY <2>1, WrittenKept DEF StreamKept
  <2>4. NoneComplete'
    BY <2>1 DEF NoneComplete
  <2> QED BY <2>2, <2>3, <2>4
<1>4. CASE ReadEnds \/ UNCHANGED framingVars
  <2>1. /\ sent' = sent /\ wire' = wire /\ buf' = buf /\ cut' = cut
        /\ phase' \in {phase, "done"}
    BY <1>4 DEF ReadEnds, framingVars
  <2>2. FramingTypeOK' /\ CutAsSent'
    BY <2>1 DEF FramingTypeOK, CutAsSent, ToWire, Summed
  <2>3. StreamKept'
    BY <2>1, WrittenKept DEF StreamKept
  <2>4. NoneComplete'
    BY <2>1 DEF NoneComplete
  <2> QED BY <2>2, <2>3, <2>4
<1> QED BY <1>1, <1>2, <1>3, <1>4 DEF FramingNext

(* A message of which every byte has arrived is not left in the buffer     *)
(* when the loop reads again.                                              *)
LEMMA FramingInvImplies == FramingInv => FramesAsSent
<1> SUFFICES ASSUME FramingInv PROVE FramesAsSent
  OBVIOUS
<1> USE DEF FramingInv
<1> DEFINE c == Len(cut)
           n == Len(sent)
           arrived == Len(Written(n)) - Len(wire)
<1>1. ASSUME phase = "read", NEW k \in DOMAIN sent, Len(Written(k)) <= arrived
      PROVE  k <= c
  <2>1. /\ sent \in Seq(Messages) /\ c \in Nat /\ n \in Nat /\ k \in 1 .. n
        /\ c \in 0 .. n /\ k \in 0 .. n /\ n \in 0 .. n
    BY SentFacts DEF FramingTypeOK
  <2> SUFFICES ASSUME k > c PROVE FALSE
    BY <2>1
  <2>2. c < n /\ c + 1 \in 1 .. n /\ c + 1 \in 0 .. k /\ c + 1 \in 0 .. n /\ (c + 1) - 1 = c
    BY <2>1
  <2> DEFINE t == ToWire(sent[c + 1])
  <2>3. FrameEnd(buf) = IF Len(buf) >= Len(t) THEN Len(t) ELSE NoFrame
    BY <2>2, NextMessage
  <2>4. t \in Seq(Byte) /\ Len(t) \in Nat /\ Len(t) # 0
    <3>1. sent[c + 1] \in Messages
      BY <2>1, <2>2, SentFacts
    <3>2. Trailer(sent[c + 1]) \in Nat
      BY <3>1, PartFacts
    <3>3. t \in Seq(Byte) /\ Len(t) = Trailer(sent[c + 1]) + 6
      BY <3>1, ToWireLayout
    <3> HIDE DEF t, c
    <3> QED BY <3>2, <3>3
  <2>5. /\ Written(c) \in Seq(Byte) /\ Written(c + 1) = Written(c) \o t
        /\ Written(c + 1) \in Seq(Byte)
    BY <2>1, <2>2, WrittenFacts
  <2>6. PICK rest \in Seq(Byte) : Written(k) = Written(c + 1) \o rest
    BY <2>1, <2>2, WrittenPrefix
  <2>7. buf \in Seq(Byte) /\ wire \in Seq(Byte) /\ buf \o wire \in Seq(Byte)
    BY ConcatProperties DEF FramingTypeOK
  <2>8. Written(n) = Written(c) \o (buf \o wire)
    BY DEF StreamKept
  <2> HIDE DEF t, c, n
  <2>9. Len(Written(k)) = Len(Written(c)) + Len(t) + Len(rest)
    <3>1. /\ Len(Written(c + 1)) = Len(Written(c)) + Len(t)
          /\ Len(Written(c + 1) \o rest) = Len(Written(c + 1)) + Len(rest)
      BY <2>4, <2>5, ConcatProperties
    <3> QED BY <2>6, <3>1
  <2>10. Len(Written(n)) = Len(Written(c)) + Len(buf) + Len(wire)
    BY <2>5, <2>7, <2>8, ConcatProperties
  <2>11. Len(buf) >= Len(t)
    <3>1. Len(Written(c)) \in Nat /\ Len(rest) \in Nat /\ Len(buf) \in Nat /\ Len(wire) \in Nat
      BY <2>5, <2>6, <2>7, LenProperties
    <3> QED BY <1>1, <2>4, <2>9, <2>10, <3>1
  <2> QED BY <1>1, <2>3, <2>4, <2>11 DEF NoneComplete, NoFrame
<1> QED BY <1>1 DEF FramesAsSent, CutAsSent

(* The reading loop's invariant holds throughout: the frames cut off, the  *)
(* buffer and the bytes to come are the stream that the peer wrote, and no *)
(* complete frame is in the buffer when readLoop reads again.              *)
THEOREM FramingCorrect == FramingSpec => []FramingInv
BY InitialFraming, FramingStep, PTL DEF FramingSpec

(* readLoop cuts off the frames that ToWire wrote, in their order, and has *)
(* cut off every one that has arrived before it reads again: for any       *)
(* messages, whatever their bodies hold, and any division of the stream    *)
(* into reads.                                                             *)
THEOREM FramesCutAsSent == FramingSpec => []FramesAsSent
BY FramingCorrect, FramingInvImplies, PTL
=============================================================================
