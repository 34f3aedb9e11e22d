------------------------------- MODULE Session -------------------------------
(***************************************************************************)
(* One TCP session (engine/session/session.go): the readLoop and writeLoop *)
(* goroutines, the bounded sendCh between callers of Send and the          *)
(* writeLoop, and the shutdown that the loops (abort) and other goroutines *)
(* (Stop) race for.  mu guards only the two flags, so every step between   *)
(* two lock regions is an action of its own.                               *)
(***************************************************************************)
EXTENDS Naturals, Sequences

CONSTANTS
    Senders,     \* goroutines that call Send (engine users, heartbeat sender)
    Stoppers,    \* goroutines that call Stop (DetachSession, monitor)
    Reader,      \* the readLoop goroutine, which also calls Send from handlers
    Writer,      \* the writeLoop goroutine
    Capacity,    \* capacity of sendCh
    MaxSends,    \* bound: Send calls per goroutine
    MaxInbound   \* bound: frames the peer sends

Loops   == {Reader, Writer}
Threads == Senders \cup Stoppers \cup Loops

ASSUME SessionAssumption ==
    /\ Reader # Writer
    /\ Loops \cap (Senders \cup Stoppers) = {}
    /\ Senders \cap Stoppers = {}
    /\ Capacity \in Nat \ {0}
    /\ MaxSends \in Nat
    /\ MaxInbound \in Nat

VARIABLES
    closed,         \* Session.closed
    cancelled,      \* the session context is done
    connOpen,       \* our side of the connection is open
    sendCh,         \* frames buffered in the channel
    chClosed,       \* close(sendCh) has run
    onCloseCalled,  \* Session.onCloseCalled
    callbacks,      \* how often OnClose has been invoked
    inbound,        \* frames received from the peer so far
    parsed,         \* complete frames of the last Read not yet dispatched
    hold,           \* the frame writeLoop took from the channel, as a sequence
    sends,          \* Send calls made so far, per goroutine
    pc,             \* where each goroutine is
    accepted,       \* history: frames Send returned nil for, in channel order
    written         \* history: frames written and flushed

flags == <<closed, cancelled, connOpen, chClosed, onCloseCalled, callbacks>>
vars == <<closed, cancelled, connOpen, sendCh, chClosed, onCloseCalled, callbacks,
          inbound, parsed, hold, sends, pc, accepted, written>>

Frames == (Senders \cup {Reader}) \X (1 .. MaxSends)
Labels == {"idle", "enqueue", "select", "read", "dispatch", "write",
           "claim", "cancel", "closeConn", "closeChan", "wait", "notify",
           "callback", "done"}

TypeOK ==
    /\ closed \in BOOLEAN
    /\ cancelled \in BOOLEAN
    /\ connOpen \in BOOLEAN
    /\ sendCh \in Seq(Frames) /\ Len(sendCh) <= Capacity
    /\ chClosed \in BOOLEAN
    /\ onCloseCalled \in BOOLEAN
    /\ callbacks \in Nat
    /\ inbound \in 0 .. MaxInbound
    /\ parsed \in 0 .. MaxInbound
    /\ hold \in Seq(Frames) /\ Len(hold) <= 1
    /\ sends \in [Senders \cup {Reader} -> 0 .. MaxSends]
    /\ pc \in [Threads -> Labels]
    /\ accepted \in Seq(Frames)
    /\ written \in Seq(Frames)

(* NewSession and Start: the loops run, the callers are elsewhere. *)
Init ==
    /\ closed = FALSE
    /\ cancelled = FALSE
    /\ connOpen = TRUE
    /\ sendCh = <<>>
    /\ chClosed = FALSE
    /\ onCloseCalled = FALSE
    /\ callbacks = 0
    /\ inbound = 0
    /\ parsed = 0
    /\ hold = <<>>
    /\ sends = [s \in Senders \cup {Reader} |-> 0]
    /\ pc = [t \in Threads |-> IF t \in Loops THEN "select" ELSE "idle"]
    /\ accepted = <<>>
    /\ written = <<>>

Goto(t, from, to) ==
    /\ pc[t] = from
    /\ pc' = [pc EXCEPT ![t] = to]

-----------------------------------------------------------------------------
(* Send.  The reader sends from inside a handler and goes on dispatching.  *)
SendFrom(s) == IF s = Reader THEN "dispatch" ELSE "idle"

(* The closed flag is read under mu; a closed session answers at once.     *)
SendCheck(s) ==
    /\ sends[s] < MaxSends
    /\ s = Reader => parsed > 0
    /\ sends' = [sends EXCEPT ![s] = @ + 1]
    /\ Goto(s, SendFrom(s), IF closed THEN SendFrom(s) ELSE "enqueue")
    /\ UNCHANGED <<flags, sendCh, inbound, parsed, hold, accepted, written>>

SendEnqueue(s) ==
    /\ ~chClosed
    /\ Len(sendCh) < Capacity
    /\ sendCh' = Append(sendCh, <<s, sends[s]>>)
    /\ accepted' = Append(accepted, <<s, sends[s]>>)
    /\ Goto(s, "enqueue", SendFrom(s))
    /\ UNCHANGED <<flags, inbound, parsed, hold, sends, written>>

(* ctx.Done, or the recovered panic of a send on the closed channel.       *)
SendFails(s) ==
    /\ cancelled \/ chClosed
    /\ Goto(s, "enqueue", SendFrom(s))
    /\ UNCHANGED <<flags, sendCh, inbound, parsed, hold, sends, accepted, written>>

-----------------------------------------------------------------------------
(* readLoop: the context is only looked at between two reads.              *)
ReadSelect ==
    /\ Goto(Reader, "select", IF cancelled THEN "claim" ELSE "read")
    /\ UNCHANGED <<flags, sendCh, inbound, parsed, hold, sends, accepted, written>>

(* A Read brings any number of complete frames; with none of them, or on a *)
(* timeout, the loop goes round.                                           *)
ReadData ==
    /\ connOpen
    /\ \E n \in 0 .. MaxInbound - inbound :
          /\ inbound' = inbound + n
          /\ parsed' = n
          /\ Goto(Reader, "read", IF n = 0 THEN "select" ELSE "dispatch")
    /\ UNCHANGED <<flags, sendCh, hold, sends, accepted, written>>

(* EOF, a reset by the peer, or our own Close of the connection.           *)
ReadError ==
    /\ Goto(Reader, "read", "claim")
    /\ UNCHANGED <<flags, sendCh, inbound, parsed, hold, sends, accepted, written>>

(* The handler of the next frame returns.                                  *)
Dispatched ==
    /\ parsed > 0
    /\ parsed' = parsed - 1
    /\ Goto(Reader, "dispatch", IF parsed = 1 THEN "select" ELSE "dispatch")
    /\ UNCHANGED <<flags, sendCh, inbound, hold, sends, accepted, written>>

-----------------------------------------------------------------------------
(* writeLoop: with several cases ready the select takes any of them.       *)
WriteTake ==
    /\ sendCh # <<>>
    /\ hold' = <<Head(sendCh)>>
    /\ sendCh' = Tail(sendCh)
    /\ Goto(Writer, "select", "write")
    /\ UNCHANGED <<flags, inbound, parsed, sends, accepted, written>>

WriteExit ==
    /\ cancelled \/ (chClosed /\ sendCh = <<>>)
    /\ Goto(Writer, "select", "claim")
    /\ UNCHANGED <<flags, sendCh, inbound, parsed, hold, sends, accepted, written>>

WriteOK ==
    /\ connOpen
    /\ written' = written \o hold
    /\ hold' = <<>>
    /\ Goto(Writer, "write", "select")
    /\ UNCHANGED <<flags, sendCh, inbound, parsed, sends, accepted>>

(* Slips: a failed write that goes on with the next frame; a writeLoop     *)
(* that returns without abort.                                             *)
WriteErrorSkips ==
    /\ Goto(Writer, "write", "select")
    /\ UNCHANGED <<flags, sendCh, inbound, parsed, hold, sends, accepted, written>>

WriteErrorReturns ==
    /\ Goto(Writer, "write", "done")
    /\ UNCHANGED <<flags, sendCh, inbound, parsed, hold, sends, accepted, written>>

(* A write or flush error or the write deadline closes the connection.     *)
WriteError ==
    /\ connOpen' = FALSE
    /\ Goto(Writer, "write", "claim")
    /\ UNCHANGED <<closed, cancelled, chClosed, onCloseCalled, callbacks,
                   sendCh, inbound, parsed, hold, sends, accepted, written>>

-----------------------------------------------------------------------------
(* Shutdown: abort of a loop and Stop of anyone else share its steps.      *)
StopCall(t) ==
    /\ Goto(t, "idle", "claim")
    /\ UNCHANGED <<flags, sendCh, inbound, parsed, hold, sends, accepted, written>>

(* Slips: a later Stop that does not wait; no test of closed; an abort     *)
(* that waits for the loops, itself among them.                            *)
ClaimNoWait(t) ==
    /\ closed' = TRUE
    /\ Goto(t, "claim", IF ~closed THEN "cancel" ELSE "notify")
    /\ UNCHANGED <<cancelled, connOpen, chClosed, onCloseCalled, callbacks,
                   sendCh, inbound, parsed, hold, sends, accepted, written>>

ClaimAlways(t) ==
    /\ closed' = TRUE
    /\ Goto(t, "claim", "cancel")
    /\ UNCHANGED <<cancelled, connOpen, chClosed, onCloseCalled, callbacks,
                   sendCh, inbound, parsed, hold, sends, accepted, written>>

ClaimWaits(t) ==
    /\ closed' = TRUE
    /\ Goto(t, "claim", IF ~closed THEN "cancel" ELSE "wait")
    /\ UNCHANGED <<cancelled, connOpen, chClosed, onCloseCalled, callbacks,
                   sendCh, inbound, parsed, hold, sends, accepted, written>>

(* The first closer proceeds; a later abort returns, a later Stop waits.   *)
Claim(t) ==
    /\ closed' = TRUE
    /\ Goto(t, "claim", IF ~closed THEN "cancel"
                        ELSE IF t \in Loops THEN "done" ELSE "wait")
    /\ UNCHANGED <<cancelled, connOpen, chClosed, onCloseCalled, callbacks,
                   sendCh, inbound, parsed, hold, sends, accepted, written>>

Cancel(t) ==
    /\ cancelled' = TRUE
    /\ Goto(t, "cancel", "closeConn")
    /\ UNCHANGED <<closed, connOpen, chClosed, onCloseCalled, callbacks,
                   sendCh, inbound, parsed, hold, sends, accepted, written>>

CloseConn(t) ==
    /\ connOpen' = FALSE
    /\ Goto(t, "closeConn", "closeChan")
    /\ UNCHANGED <<closed, cancelled, chClosed, onCloseCalled, callbacks,
                   sendCh, inbound, parsed, hold, sends, accepted, written>>

(* Slips: the channel left open; an abort that goes on as Stop does.       *)
ChanLeftOpen(t) ==
    /\ Goto(t, "closeChan", IF t \in Loops THEN "notify" ELSE "wait")
    /\ UNCHANGED <<flags, sendCh, inbound, parsed, hold, sends, accepted, written>>

CloseChanWaits(t) ==
    /\ chClosed' = TRUE
    /\ Goto(t, "closeChan", "wait")
    /\ UNCHANGED <<closed, cancelled, connOpen, onCloseCalled, callbacks,
                   sendCh, inbound, parsed, hold, sends, accepted, written>>

CloseChan(t) ==
    /\ chClosed' = TRUE
    /\ Goto(t, "closeChan", IF t \in Loops THEN "notify" ELSE "wait")
    /\ UNCHANGED <<closed, cancelled, connOpen, onCloseCalled, callbacks,
                   sendCh, inbound, parsed, hold, sends, accepted, written>>

(* wg.Wait: the deferred abort of a loop returns before its wg.Done.       *)
LoopsDone == \A l \in Loops : pc[l] = "done"

Wait(t) ==
    /\ LoopsDone
    /\ Goto(t, "wait", "notify")
    /\ UNCHANGED <<flags, sendCh, inbound, parsed, hold, sends, accepted, written>>

(* A slip: onCloseCalled not tested.                                       *)
OnCloseAlways(t) ==
    /\ onCloseCalled' = TRUE
    /\ Goto(t, "notify", "callback")
    /\ UNCHANGED <<closed, cancelled, connOpen, chClosed, callbacks,
                   sendCh, inbound, parsed, hold, sends, accepted, written>>

OnCloseOnce(t) ==
    /\ onCloseCalled' = TRUE
    /\ Goto(t, "notify", IF onCloseCalled THEN "done" ELSE "callback")
    /\ UNCHANGED <<closed, cancelled, connOpen, chClosed, callbacks,
                   sendCh, inbound, parsed, hold, sends, accepted, written>>

OnClose(t) ==
    /\ callbacks' = callbacks + 1
    /\ Goto(t, "callback", "done")
    /\ UNCHANGED <<closed, cancelled, connOpen, chClosed, onCloseCalled,
                   sendCh, inbound, parsed, hold, sends, accepted, written>>

-----------------------------------------------------------------------------
Send(s)     == SendCheck(s) \/ SendEnqueue(s) \/ SendFails(s)
Shutdown(t) == \/ Claim(t) \/ Cancel(t) \/ CloseConn(t) \/ CloseChan(t)
               \/ Wait(t) \/ OnCloseOnce(t) \/ OnClose(t)
ReadLoop    == ReadSelect \/ ReadData \/ ReadError \/ Dispatched
WriteLoop   == WriteTake \/ WriteExit \/ WriteOK \/ WriteError

Next ==
    \/ \E s \in Senders \cup {Reader} : Send(s)
    \/ \E t \in Stoppers : StopCall(t)
    \/ \E t \in Stoppers \cup Loops : Shutdown(t)
    \/ ReadLoop
    \/ WriteLoop

Spec == Init /\ [][Next]_vars

(* The Go scheduler runs every goroutine that can take a step.  A Read and *)
(* a Write return (both carry a deadline), but nothing says that they      *)
(* succeed; nobody has to call Send or Stop.                               *)
Fairness ==
    /\ WF_vars(ReadLoop)
    /\ WF_vars(WriteLoop)
    /\ \A s \in Senders \cup {Reader} : WF_vars(SendEnqueue(s) \/ SendFails(s))
    /\ \A t \in Stoppers \cup Loops : WF_vars(Shutdown(t))

FairSpec == Spec /\ Fairness

-----------------------------------------------------------------------------
(* Nobody is left inside the session: the loops are out and the channel is *)
(* closed, so every later Send fails.                                      *)
Down == LoopsDone /\ chClosed

Link == INSTANCE FrameLink WITH down <- Down

(* The session implements the FIFO link: what reaches the wire is a prefix *)
(* of what Send accepted, in order, through every race of Send, abort and  *)
(* Stop, and nothing moves once the session is down.                       *)
ImplementsLink == Link!Spec

(* OnClose is invoked at most once (session.go:35), however many of the    *)
(* loops and of the Stop callers see the session end.                      *)
OnCloseAtMostOnce == callbacks <= 1

(* "Stop signals shutdown and waits for goroutines to finish"              *)
(* (session.go:128): once a Stop has returned no handler runs and no frame *)
(* is written, and the owner has been or is being told.  The connection    *)
(* and the channel may still be open then, if another goroutine claimed    *)
(* the close and has not got round to them.                                *)
StoppedMeansQuiet ==
    \A t \in Stoppers : pc[t] = "done" => LoopsDone /\ closed /\ onCloseCalled

(* A claimed close is carried through: the session is marked closed only   *)
(* while its closer is on the way to, or past, closing the connection and  *)
(* the channel.                                                            *)
CloseCarriedThrough ==
    closed => \/ cancelled /\ ~connOpen /\ chClosed
              \/ \E t \in Stoppers \cup Loops :
                    pc[t] \in {"cancel", "closeConn", "closeChan"}

(* Only the first closer closes the channel, and it cancels the context    *)
(* and closes the connection first: no second close(sendCh) is ever tried. *)
OneCloser ==
    \A t, u \in Stoppers \cup Loops :
        /\ pc[t] \in {"cancel", "closeConn", "closeChan"}
        /\ t # u
        => pc[u] \notin {"cancel", "closeConn", "closeChan"} /\ ~chClosed

(* Stop returns, also while a handler is blocked in Send on a full channel *)
(* and while another goroutine is closing the session.                     *)
StopReturns == \A t \in Stoppers : pc[t] = "claim" ~> pc[t] = "done"

(* A Send blocked on a full channel comes back: with room, or with an      *)
(* error when the writer gives the connection up.                          *)
SendReturns == \A s \in Senders : pc[s] = "enqueue" ~> pc[s] = "idle"

(* However a session ends, the owner learns of it: a lost connection leads *)
(* to the OnClose callback even if nobody calls Stop.                      *)
EndIsReported == ~connOpen ~> callbacks = 1
=============================================================================
