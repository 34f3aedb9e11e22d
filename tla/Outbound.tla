------------------------------ MODULE Outbound ------------------------------
(***************************************************************************)
(* How numbered messages leave an engine and how a peer that missed some   *)
(* is caught up: FixEngine.SendMessage and SessionSend (engine/engine.go)  *)
(* and the Logon, TestRequest, Logout, ResendRequest and SequenceReset     *)
(* handlers (engine/handler/handlers.go), which run one at a time in the   *)
(* readLoop.                                                               *)
(*                                                                         *)
(* SendMessage takes the number, asks ToApp and enqueues in three separate *)
(* steps, so other senders and the resend loop come in between.  Queue and *)
(* wire are the FIFO link of module FrameLink, emptied when the session is *)
(* lost.  The peer is external: it processes messages in sequence, asks    *)
(* for a resend at a gap, drops a duplicate marked PossDup, and gives the  *)
(* session up when an unmarked number is lower than expected.  A peer that *)
(* checks what it receives refuses a message that does not name the engine *)
(* as its sender or has no SendingTime; neither holds of a gap fill here.  *)
(***************************************************************************)
EXTENDS Naturals, Sequences, FiniteSets

CONSTANTS
    Senders,      \* goroutines that call SendMessage
    Reader,       \* the readLoop, which runs the handlers
    MaxSeq,       \* bound: numbers handed out
    MaxLosses,    \* bound: how often the session is lost
    MaxUpsets,    \* bound: resets received, failed saves, refusals of FromAdmin, ToAdmin
    NewSeqNos,    \* NewSeqNo of the SequenceReset messages received
    Peers,        \* "checks": a peer that checks the header; "trusts": one that does not
    Faults        \* "write": SaveSessionSeq may fail; "app", "admin": ToApp may
                  \* refuse, FromAdmin and ToAdmin may refuse

Threads == Senders \cup {Reader}

ASSUME OutboundAssumption ==
    /\ Reader \notin Senders
    /\ MaxSeq \in Nat \ {0}
    /\ MaxLosses \in Nat
    /\ MaxUpsets \in Nat
    /\ NewSeqNos \subseteq 1 .. MaxSeq
    /\ Peers \subseteq {"checks", "trusts"}
    /\ Faults \subseteq {"write", "app", "admin"}

VARIABLES
    outSeq,    \* SeqManager.out
    pc,        \* where each thread is in SendMessage
    held,      \* the message a thread has stamped and not yet enqueued
    up,        \* the session is attached and open
    queue,     \* messages enqueued that the peer has not received
    unflushed, \* queue is in the buffer of a connection no session has written to
    stored,    \* numbers of the messages in Store; only an application saves any
    resend,    \* the loop of the ResendRequest handler: next and last number
    request,   \* a ResendRequest on its way: first and EndSeqNo; 0, 0 if none
    peerIs,    \* which of Peers the peer is; "unknown" until it receives a fill
    expected,  \* peer: the next number
    asked,     \* peer: the number its last request is to get past; 0 if none
    processed, \* peer: numbers whose application message it has processed
    received,  \* peer: numbers received unmarked
    tooLow,    \* peer: an unmarked number was lower than expected
    losses,
    upsets,
    sent,      \* history: application messages SendMessage returned nil for
    overtaken, \* history: a number was resent while its sender still held it
    renumbered,\* history: a number was handed out again
    refused    \* history: FromAdmin or ToAdmin refused

peer    == <<expected, asked, processed, received, tooLow, peerIs>>
bounds  == <<losses, upsets>>
history == <<sent, overtaken, renumbered, refused>>
vars == <<outSeq, pc, held, up, queue, unflushed, stored, resend, request, peer, bounds,
          history>>

(* "replay" and "fill" carry PossDupFlag=Y; a fill's NewSeqNo is in new.   *)
(* A header is good if it names the engine as the sender and has a         *)
(* SendingTime.  SendMessage sees to both.  A fill has neither: the        *)
(* handler gives NewSequenceResetMessage its own CompID for the target's,  *)
(* and SessionSend stamps nothing.                                         *)
Numbers  == 0 .. MaxSeq
Message  == [num : Numbers, kind : {"app", "admin", "replay", "fill"},
             new : 0 .. MaxSeq + 1, good : BOOLEAN]
New(n, k) == [num |-> n, kind |-> k, new |-> n + 1, good |-> k # "fill"]
Nothing  == New(0, "admin")
Range0   == [first : 0 .. MaxSeq + 1, last : Numbers]
NoRange  == [first |-> 0, last |-> 0]

TypeOK ==
    /\ outSeq \in Numbers
    /\ pc \in [Threads -> {"idle", "toApp", "send"}]
    /\ held \in [Threads -> Message]
    /\ \A t \in Threads : pc[t] = "idle" <=> held[t] = Nothing
    /\ up \in BOOLEAN
    /\ queue \in Seq(Message)
    /\ unflushed \in BOOLEAN /\ peerIs \in Peers \cup {"unknown"}
    /\ stored \subseteq Numbers
    /\ resend \in Range0 /\ request \in Range0
    /\ expected \in 1 .. MaxSeq + 1
    /\ asked \in Numbers
    /\ processed \subseteq Numbers /\ received \subseteq Numbers
    /\ tooLow \in BOOLEAN
    /\ losses \in 0 .. MaxLosses /\ upsets \in 0 .. MaxUpsets
    /\ sent \subseteq Numbers
    /\ overtaken \in BOOLEAN /\ renumbered \in BOOLEAN
    /\ refused \in BOOLEAN

Init ==
    /\ outSeq = 0
    /\ pc = [t \in Threads |-> "idle"]
    /\ held = [t \in Threads |-> Nothing]
    /\ up = TRUE
    /\ queue = <<>> /\ unflushed = FALSE
    /\ peerIs = "unknown"
    /\ stored = {}
    /\ resend = NoRange /\ request = NoRange
    /\ expected = 1 /\ asked = 0
    /\ processed = {} /\ received = {}
    /\ tooLow = FALSE
    /\ losses = 0 /\ upsets = 0
    /\ sent = {}
    /\ overtaken = FALSE /\ renumbered = FALSE /\ refused = FALSE

(* The readLoop is between two messages of a live session.                 *)
ReaderFree == up /\ pc[Reader] = "idle" /\ resend = NoRange

-----------------------------------------------------------------------------
(* SendMessage: IncrementOutgoing, or 1 when it fails to save, although    *)
(* the counter has moved on.  The readLoop sends the admin answers of the  *)
(* TestRequest and Logout handlers.                                        *)
Stamp(t, kind, saved) ==
    /\ pc[t] = "idle"
    /\ t = Reader => ReaderFree /\ kind = "admin"
    /\ saved \/ ("write" \in Faults /\ upsets < MaxUpsets)
    /\ outSeq < MaxSeq
    /\ outSeq' = outSeq + 1
    /\ held' = [held EXCEPT ![t] = New(IF saved THEN outSeq + 1 ELSE 1, kind)]
    /\ pc' = [pc EXCEPT ![t] = IF kind = "app" THEN "toApp" ELSE "send"]
    /\ renumbered' = (renumbered \/ ~saved)
    /\ upsets' = IF saved THEN upsets ELSE upsets + 1
    /\ UNCHANGED <<up, queue, unflushed, stored, resend, request, peer, losses, sent,
                   overtaken, refused>>

(* A slip: the number of a refused message given back.                     *)
ToAppRollback(t, accept, store) ==
    /\ pc[t] = "toApp"
    /\ store => accept
    /\ accept \/ "app" \in Faults
    /\ pc' = [pc EXCEPT ![t] = IF accept THEN "send" ELSE "idle"]
    /\ held' = IF accept THEN held ELSE [held EXCEPT ![t] = Nothing]
    /\ outSeq' = IF accept THEN outSeq ELSE outSeq - 1
    /\ stored' = IF store THEN stored \cup {held[t].num} ELSE stored
    /\ UNCHANGED <<up, queue, unflushed, resend, request, peer, bounds, history>>

(* ToApp: the application may refuse, and may store the message.           *)
ToApp(t, accept, store) ==
    /\ pc[t] = "toApp"
    /\ store => accept
    /\ accept \/ "app" \in Faults
    /\ pc' = [pc EXCEPT ![t] = IF accept THEN "send" ELSE "idle"]
    /\ held' = IF accept THEN held ELSE [held EXCEPT ![t] = Nothing]
    /\ stored' = IF store THEN stored \cup {held[t].num} ELSE stored
    /\ UNCHANGED <<outSeq, up, queue, unflushed, resend, request, peer, bounds, history>>

(* With a session Send enqueues.  Without one SendMessage fails, or writes *)
(* into the buffer of a connection and returns nil: that of the old one,   *)
(* which nobody flushes, or of the one that is about to be attached, which *)
(* the session's first write flushes.                                      *)
Send(t, ok, kept) ==
    /\ pc[t] = "send"
    /\ up => kept
    /\ kept => ok
    /\ pc' = [pc EXCEPT ![t] = "idle"]
    /\ held' = [held EXCEPT ![t] = Nothing]
    /\ queue' = IF kept THEN Append(queue, held[t]) ELSE queue
    /\ unflushed' = (~up /\ (kept \/ unflushed))
    /\ sent' = IF ok /\ held[t].kind = "app" THEN sent \cup {held[t].num} ELSE sent
    /\ UNCHANGED <<outSeq, up, stored, resend, request, peer, bounds, overtaken,
                   renumbered, refused>>

-----------------------------------------------------------------------------
(* A slip: 0 taken for the number to be handed out next.                   *)
LastAskedNext(e) == IF e = 0 THEN outSeq + 1 ELSE e

(* The ResendRequest handler.  EndSeqNo 0 stands for the number handed out *)
(* last by now.                                                            *)
LastAsked(e) == IF e = 0 THEN outSeq ELSE e

ResendStart ==
    /\ request # NoRange
    /\ ReaderFree
    /\ resend' = IF request.first <= LastAsked(request.last)
                   THEN [first |-> request.first, last |-> LastAsked(request.last)]
                   ELSE NoRange
    /\ request' = NoRange
    /\ UNCHANGED <<outSeq, pc, held, up, queue, unflushed, stored, peer, bounds, history>>

(* FromAdmin refuses the request: it goes unanswered.                      *)
ResendRefused ==
    /\ "admin" \in Faults
    /\ upsets < MaxUpsets
    /\ request # NoRange
    /\ ReaderFree
    /\ upsets' = upsets + 1
    /\ request' = NoRange
    /\ refused' = TRUE
    /\ UNCHANGED <<outSeq, pc, held, up, queue, unflushed, stored, resend, peer, losses, sent,
                   overtaken, renumbered>>

(* Slips: stored messages not replayed; NewSeqNo set to the filled number. *)
ResentFill(n) == New(n, "fill")
ResentSame(n) == [New(n, IF n \in stored THEN "replay" ELSE "fill") EXCEPT !.new = n]

(* A stored application message is replayed, anything else gap-filled.     *)
Resent(n) == New(n, IF n \in stored THEN "replay" ELSE "fill")

(* One turn of the loop.  A fill ToAdmin refuses is left out; a message    *)
(* the closing session does not take is only logged.                       *)
ResendStep(accept) ==
    LET n == resend.first IN
    /\ resend # NoRange
    /\ accept \/ ("admin" \in Faults /\ n \notin stored /\ upsets < MaxUpsets)
    /\ queue' = IF up /\ accept THEN Append(queue, Resent(n)) ELSE queue
    /\ unflushed' = (unflushed /\ ~(up /\ accept))
    /\ resend' = IF n < resend.last THEN [resend EXCEPT !.first = n + 1] ELSE NoRange
    /\ overtaken' = (overtaken \/ \E t \in Threads : held[t].num = n)
    /\ refused' = (refused \/ ~accept)
    /\ upsets' = IF accept THEN upsets ELSE upsets + 1
    /\ UNCHANGED <<outSeq, pc, held, up, stored, request, peer, losses, sent, renumbered>>

-----------------------------------------------------------------------------
(* SequenceReset: the handler moves the outgoing counter.                  *)
SequenceReset(n) ==
    /\ ReaderFree
    /\ upsets < MaxUpsets
    /\ upsets' = upsets + 1
    /\ outSeq' = n - 1
    /\ renumbered' = TRUE
    /\ UNCHANGED <<pc, held, up, queue, unflushed, stored, resend, request, peer, losses, sent,
                   overtaken, refused>>

(* A Logon with ResetSeqNumFlag: the peer counts from 1 again, the handler *)
(* sets the outgoing counter to 1.                                         *)
LogonReset ==
    /\ ReaderFree
    /\ upsets < MaxUpsets
    /\ upsets' = upsets + 1
    /\ outSeq' = 1
    /\ expected' = 1 /\ asked' = 0 /\ processed' = {} /\ received' = {}
    /\ request' = NoRange
    /\ sent' = {}
    /\ renumbered' = (renumbered \/ queue # <<>> \/ \E t \in Threads : pc[t] # "idle")
    /\ UNCHANGED <<pc, held, up, queue, unflushed, stored, resend, tooLow, peerIs, losses,
                   overtaken, refused>>

-----------------------------------------------------------------------------
(* The session is lost with all that was on the way; another is attached   *)
(* once the readLoop of the old one is out.                                *)
SessionLost ==
    /\ up
    /\ losses < MaxLosses
    /\ losses' = losses + 1
    /\ up' = FALSE
    /\ queue' = <<>> /\ unflushed' = FALSE
    /\ request' = NoRange
    /\ asked' = 0
    /\ UNCHANGED <<outSeq, pc, held, stored, resend, expected, processed, received, tooLow,
                   peerIs, upsets, history>>

Reattached ==
    /\ ~up
    /\ resend = NoRange
    /\ pc[Reader] = "idle"
    /\ up' = TRUE
    /\ UNCHANGED <<outSeq, pc, held, queue, unflushed, stored, resend, request, peer,
                   bounds, history>>

-----------------------------------------------------------------------------
(* The peer receives the next message.                                     *)
PeerInOrder(m) ==
    /\ m.num = expected
    /\ expected' = m.new
    /\ asked' = IF m.new > asked THEN 0 ELSE asked
    /\ processed' = IF m.kind \in {"app", "replay"} THEN processed \cup {m.num}
                    ELSE processed
    /\ UNCHANGED <<tooLow, request>>

(* A gap: ask for everything, or up to the message just seen.              *)
PeerGap(m) ==
    /\ m.num > expected
    /\ IF asked = 0
         THEN /\ asked' = m.num
              /\ \E e \in {0, m.num} : request' = [first |-> expected, last |-> e]
         ELSE UNCHANGED <<asked, request>>
    /\ UNCHANGED <<expected, processed, tooLow>>

PeerLow(m) ==
    /\ m.num < expected
    /\ tooLow' = (m.kind \in {"app", "admin"})
    /\ UNCHANGED <<expected, asked, processed, request>>

(* What the peer does with a bad header it does every time.                *)
Shows(kind) ==
    /\ peerIs \in {"unknown", kind}
    /\ kind \in Peers
    /\ peerIs' = kind

(* A message whose header a checking peer refuses is answered with a       *)
(* Reject and not counted.  (The peer may end the session over it.)        *)
PeerRejects(m) ==
    /\ ~m.good /\ Shows("checks")
    /\ UNCHANGED <<expected, asked, processed, tooLow, request>>

PeerTakes(m) ==
    /\ IF m.good THEN UNCHANGED peerIs ELSE Shows("trusts")
    /\ PeerInOrder(m) \/ PeerGap(m) \/ PeerLow(m)

PeerReceive ==
    LET m == Head(queue) IN
    /\ ~tooLow /\ ~unflushed
    /\ queue # <<>>
    /\ queue' = Tail(queue)
    /\ received' = IF m.kind \in {"app", "admin"} THEN received \cup {m.num} ELSE received
    /\ PeerRejects(m) \/ PeerTakes(m)
    /\ UNCHANGED <<outSeq, pc, held, up, unflushed, stored, resend, bounds, sent, overtaken,
                   renumbered, refused>>

-----------------------------------------------------------------------------
SendMessage(t) ==
    \/ \E kind \in {"app", "admin"}, saved \in BOOLEAN : Stamp(t, kind, saved)
    \/ \E accept, store \in BOOLEAN : ToApp(t, accept, store)
    \/ \E ok, kept \in BOOLEAN : Send(t, ok, kept)

Handlers ==
    \/ ResendStart
    \/ ResendRefused
    \/ \E accept \in BOOLEAN : ResendStep(accept)
    \/ \E n \in NewSeqNos : SequenceReset(n)
    \/ LogonReset

Next ==
    \/ \E t \in Threads : SendMessage(t)
    \/ Handlers
    \/ SessionLost
    \/ Reattached
    \/ PeerReceive

Spec == Init /\ [][Next]_vars

-----------------------------------------------------------------------------
Unmarked(m) == m.kind \in {"app", "admin"}

(* However senders race, no number goes out unmarked twice: as long as     *)
(* every save succeeds and nothing resets the counter, an unmarked number  *)
(* is in one sender's hands, or once on the way, or was received.          *)
NumberedOnce ==
    ~renumbered =>
        /\ \A i, j \in DOMAIN queue :
             (i # j /\ Unmarked(queue[i]) /\ Unmarked(queue[j]))
                => queue[i].num # queue[j].num
        /\ \A i \in DOMAIN queue : Unmarked(queue[i]) =>
             /\ queue[i].num \notin received
             /\ \A t \in Threads : held[t].num # queue[i].num

(* A peer that asks for a resend never has to give the session up, except  *)
(* when the resend loop covered a number a sender had taken and not yet    *)
(* enqueued, or numbers were handed out again.                             *)
TooLowExplained == tooLow => overtaken \/ renumbered

(* A resend never takes the peer past a number that was not handed out.    *)
PeerNotAhead == ~renumbered => expected <= outSeq + 1

(* The resend loop replays what the Store has: the peer never gets past an *)
(* application message that was sent and stored without processing it.     *)
StoredNotSkipped ==
    (~renumbered /\ ~overtaken) =>
        \A n \in sent \cap stored : n < expected => n \in processed

(* The peer's request is answered: nothing of the answer is still to come. *)
Answered ==
    /\ request = NoRange /\ resend = NoRange
    /\ \A i \in DOMAIN queue : Unmarked(queue[i])

(* A gap is healed: an answer takes the peer past the number that showed   *)
(* the gap, unless the session was given up, a callback refused, numbers   *)
(* were handed out again, or the peer is one that checks headers and has   *)
(* refused a gap fill.                                                     *)
GapHealed ==
    (asked # 0 /\ Answered) => (tooLow \/ refused \/ renumbered \/ peerIs = "checks")

(* What the handler's comment says of its fills ("send SequenceReset as    *)
(* GapFill to advance"): an answer takes the peer past the gap whatever    *)
(* the gap consists of.  It does not when the peer checks headers, even if *)
(* no sender held a number of the gap.                                     *)
FillsAdvance ==
    (asked # 0 /\ Answered) => (tooLow \/ refused \/ renumbered \/ overtaken)
=============================================================================
