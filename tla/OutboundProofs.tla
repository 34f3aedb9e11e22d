---------------------------- MODULE OutboundProofs ----------------------------
(* Proofs about the outgoing side of a session, for any number of senders,   *)
(* any bounds and any combination of faults.                                 *)
EXTENDS Outbound, TLAPS

(* What a sender holds is what it stamped. *)
HeldIsStamped ==
    \A t \in Threads :
        /\ Unmarked(held[t])
        /\ held[t].new = held[t].num + 1
        /\ pc[t] # "idle" => held[t].num >= 1

(* A message on the way moves the peer by one. *)
QueuedMovesByOne ==
    \A i \in DOMAIN queue :
        /\ queue[i].new = queue[i].num + 1
        /\ Unmarked(queue[i]) => queue[i].num >= 1

(* The resend loop has something left to do. *)
ResendIsUnderWay == resend # NoRange => resend.first <= resend.last

Shape == TypeOK /\ HeldIsStamped /\ QueuedMovesByOne /\ ResendIsUnderWay

(* Until numbers are handed out again, every number anywhere was handed out. *)
AllHandedOut ==
    ~renumbered =>
        /\ expected <= outSeq + 1
        /\ \A t \in Threads : held[t].num <= outSeq
        /\ \A i \in DOMAIN queue : queue[i].num <= outSeq
        /\ resend.last <= outSeq /\ request.last <= outSeq
        /\ \A n \in received : 1 <= n /\ n <= outSeq

(* And an unmarked number is in one place. *)
HeldOnce ==
    ~renumbered =>
        \A t \in Threads : pc[t] # "idle" =>
            /\ held[t].num \notin received
            /\ \A u \in Threads \ {t} : held[u].num # held[t].num

IInv == Shape /\ AllHandedOut /\ HeldOnce /\ NumberedOnce

(* As long as no resend overtook a sender either, *)
Undisturbed == ~renumbered /\ ~overtaken

(* a sender's number is still new to the peer and to the queue, and a number *)
(* goes out unmarked before it goes out again: the peer is not past it.      *)
UnmarkedFirst ==
    Undisturbed =>
        /\ \A t \in Threads : pc[t] # "idle" =>
              /\ held[t].num >= expected
              /\ \A i \in DOMAIN queue : queue[i].num # held[t].num
        /\ \A i \in DOMAIN queue : Unmarked(queue[i]) => queue[i].num >= expected
        /\ \A i, j \in DOMAIN queue :
              (Unmarked(queue[i]) /\ queue[j].num = queue[i].num) => i <= j

(* And what takes the peer past a number that was sent and stored is the     *)
(* message itself or its replay.                                             *)
SentOnce ==
    Undisturbed =>
        /\ \A n \in sent : n <= outSeq
        /\ \A t \in Threads : pc[t] # "idle" => held[t].num \notin sent
        /\ \A i \in DOMAIN queue : /\ queue[i].kind = "admin" => queue[i].num \notin sent
                                   /\ queue[i].kind = "fill" => queue[i].num \notin stored

PeerInv == UnmarkedFirst /\ SentOnce /\ TooLowExplained /\ StoredNotSkipped
-----------------------------------------------------------------------------
(* What Append and Tail do to the messages on the way. *)
LEMMA AppendMessage ==
    ASSUME NEW S, NEW q \in Seq(S), NEW m \in S
    PROVE  /\ Append(q, m) \in Seq(S)
           /\ DOMAIN Append(q, m) = DOMAIN q \cup {Len(q) + 1}
           /\ Len(q) + 1 \notin DOMAIN q
           /\ Append(q, m)[Len(q) + 1] = m
           /\ \A i \in DOMAIN q : Append(q, m)[i] = q[i]
OBVIOUS

LEMMA TailMessages ==
    ASSUME NEW S, NEW q \in Seq(S), q # <<>>
    PROVE  /\ Head(q) \in S
           /\ 1 \in DOMAIN q /\ Head(q) = q[1]
           /\ Tail(q) \in Seq(S)
           /\ \A i \in DOMAIN Tail(q) : i \in Nat /\ i >= 1 /\ i + 1 \in DOMAIN q
                                          /\ Tail(q)[i] = q[i + 1]
OBVIOUS

(* A message made for a number of the session is one, and moves by one. *)
LEMMA NewMessage ==
    ASSUME NEW n \in Numbers, NEW k \in {"app", "admin", "replay", "fill"}
    PROVE  /\ New(n, k) \in Message
           /\ New(n, k).num = n /\ New(n, k).kind = k /\ New(n, k).new = n + 1
BY OutboundAssumption DEF OutboundAssumption, New, Message, Numbers

(* Nothing has been numbered yet. *)
LEMMA InitIInv == Init => IInv
<1> SUFFICES ASSUME Init PROVE IInv
  OBVIOUS
<1> USE OutboundAssumption DEF OutboundAssumption
<1>1. Nothing \in Message /\ Nothing.num = 0 /\ Nothing.new = 1 /\ Unmarked(Nothing)
  BY NewMessage DEF Nothing, Numbers, Unmarked
<1>2. TypeOK
  <2>1. held \in [Threads -> Message] /\ pc \in [Threads -> {"idle", "toApp", "send"}]
    BY <1>1 DEF Init
  <2>2. NoRange \in Range0
    BY DEF NoRange, Range0, Numbers
  <2>3. losses \in 0 .. MaxLosses /\ upsets \in 0 .. MaxUpsets
    BY DEF Init
  <2>4. queue \in Seq(Message)
    BY DEF Init
  <2>5. /\ outSeq \in Numbers /\ expected \in 1 .. MaxSeq + 1 /\ asked \in Numbers
        /\ stored \subseteq Numbers /\ processed \subseteq Numbers
        /\ received \subseteq Numbers /\ sent \subseteq Numbers
    BY DEF Init, Numbers
  <2>6. \A t \in Threads : pc[t] = "idle" <=> held[t] = Nothing
    BY DEF Init
  <2>7. /\ up \in BOOLEAN /\ tooLow \in BOOLEAN /\ unflushed \in BOOLEAN
        /\ peerIs \in Peers \cup {"unknown"}
        /\ overtaken \in BOOLEAN /\ renumbered \in BOOLEAN
        /\ refused \in BOOLEAN
    BY DEF Init
  <2>8. resend \in Range0 /\ request \in Range0
    BY <2>2 DEF Init
  <2> QED BY <2>1, <2>3, <2>4, <2>5, <2>6, <2>7, <2>8 DEF TypeOK
<1>3. HeldIsStamped /\ QueuedMovesByOne /\ ResendIsUnderWay
  BY <1>1 DEF Init, HeldIsStamped, QueuedMovesByOne, ResendIsUnderWay
<1>4. AllHandedOut /\ HeldOnce /\ NumberedOnce
  BY <1>1 DEF Init, AllHandedOut, HeldOnce, NumberedOnce, NoRange
<1> QED BY <1>2, <1>3, <1>4 DEF IInv, Shape
-----------------------------------------------------------------------------
(* SendMessage takes a number: the next one, unless the save failed.        *)
LEMMA StampStep ==
    ASSUME IInv, NEW t \in Threads, NEW kind \in {"app", "admin"}, NEW saved \in BOOLEAN,
           Stamp(t, kind, saved)
    PROVE  IInv'
<1> DEFINE n == IF saved THEN outSeq + 1 ELSE 1
<1> USE OutboundAssumption DEF OutboundAssumption, IInv, Shape
<1>1. n \in Numbers /\ n >= 1 /\ (saved => n = outSeq + 1)
  BY DEF Stamp, TypeOK, Numbers
<1>2. /\ New(n, kind) \in Message /\ New(n, kind).num = n
      /\ New(n, kind).kind = kind /\ New(n, kind).new = n + 1
  BY <1>1, NewMessage
<1> HIDE DEF n
<1>3. /\ held' = [held EXCEPT ![t] = New(n, kind)]
      /\ held' \in [Threads -> Message]
  BY <1>2 DEF Stamp, TypeOK, n
<1>4. /\ pc' \in [Threads -> {"idle", "toApp", "send"}]
      /\ pc'[t] # "idle" /\ \A u \in Threads \ {t} : pc'[u] = pc[u]
  BY DEF Stamp, TypeOK
<1>5. Nothing.num = 0
  BY DEF Nothing, New
<1>6. TypeOK'
  <2>1. outSeq' \in Numbers
    BY DEF Stamp, TypeOK, Numbers
  <2>2. \A u \in Threads : pc'[u] = "idle" <=> held'[u] = Nothing
    BY <1>1, <1>2, <1>3, <1>4, <1>5 DEF TypeOK
  <2>3. renumbered' \in BOOLEAN
    BY DEF Stamp
  <2>4. upsets' \in 0 .. MaxUpsets
    BY DEF Stamp, TypeOK
  <2> QED BY <1>3, <1>4, <2>1, <2>2, <2>3, <2>4 DEF Stamp, TypeOK, peer
<1>7. HeldIsStamped'
  BY <1>1, <1>2, <1>3, <1>4 DEF HeldIsStamped, Unmarked, TypeOK
<1>8. QueuedMovesByOne' /\ ResendIsUnderWay'
  BY DEF Stamp, QueuedMovesByOne, ResendIsUnderWay
<1>9. CASE saved
  <2>1. outSeq' = outSeq + 1 /\ n = outSeq + 1 /\ renumbered' = renumbered
    BY <1>1, <1>9 DEF Stamp, TypeOK
  <2>2. AllHandedOut'
    <3> SUFFICES ASSUME ~renumbered PROVE AllHandedOut'
      BY <2>1 DEF AllHandedOut
    <3>1. UNCHANGED <<queue, resend, request, peer>>
      BY DEF Stamp
    <3>2. \A u \in Threads : held'[u].num <= outSeq'
      BY <1>2, <1>3, <2>1 DEF AllHandedOut, TypeOK, Numbers, Message
    <3>3. \A i \in DOMAIN queue : queue[i].num <= outSeq'
      <4>1. \A i \in DOMAIN queue : queue[i] \in Message
        BY DEF TypeOK
      <4> QED BY <2>1, <4>1 DEF AllHandedOut, TypeOK, Numbers, Message
    <3>4. resend.last <= outSeq' /\ request.last <= outSeq'
      BY <2>1 DEF AllHandedOut, TypeOK, Numbers, Range0
    <3>5. expected <= outSeq' + 1 /\ \A k \in received : 1 <= k /\ k <= outSeq'
      BY <2>1 DEF AllHandedOut, TypeOK, Numbers
    <3> QED BY <3>1, <3>2, <3>3, <3>4, <3>5 DEF AllHandedOut, peer
  <2>3. HeldOnce'
    BY <1>2, <1>3, <1>4, <2>1 DEF HeldOnce, AllHandedOut, Stamp, peer, TypeOK, Numbers, Message
  <2>4. NumberedOnce'
    BY <1>2, <1>3, <2>1 DEF NumberedOnce, AllHandedOut, Stamp, peer, TypeOK, Numbers, Message
  <2> QED BY <1>6, <1>7, <1>8, <2>2, <2>3, <2>4
<1>10. CASE ~saved
  <2>1. renumbered'
    BY <1>10 DEF Stamp
  <2> QED BY <1>6, <1>7, <1>8, <2>1 DEF AllHandedOut, HeldOnce, NumberedOnce
<1> QED BY <1>9, <1>10

(* ToApp lets a message go on or drops it with its number.                  *)
LEMMA ToAppStep ==
    ASSUME IInv, NEW t \in Threads, NEW accept \in BOOLEAN, NEW store \in BOOLEAN,
           ToApp(t, accept, store)
    PROVE  IInv'
<1> USE OutboundAssumption DEF OutboundAssumption, IInv, Shape
<1>1. /\ Nothing \in Message /\ Nothing.num = 0 /\ Nothing.new = 1
      /\ Unmarked(Nothing)
  BY NewMessage DEF Nothing, Numbers, Unmarked
<1>2. /\ held' \in [Threads -> Message]
      /\ \A u \in Threads \ {t} : held'[u] = held[u] /\ pc'[u] = pc[u]
      /\ held'[t] = IF accept THEN held[t] ELSE Nothing
      /\ pc'[t] = IF accept THEN "send" ELSE "idle"
      /\ pc[t] # "idle"
  BY <1>1 DEF ToApp, TypeOK
<1>3. TypeOK'
  <2>1. pc' \in [Threads -> {"idle", "toApp", "send"}]
    BY DEF ToApp, TypeOK
  <2>2. \A u \in Threads : pc'[u] = "idle" <=> held'[u] = Nothing
    BY <1>2 DEF TypeOK
  <2>3. stored' \subseteq Numbers
    BY DEF ToApp, TypeOK, Message
  <2> QED BY <1>2, <2>1, <2>2, <2>3 DEF ToApp, TypeOK, peer, bounds, history
<1>4. HeldIsStamped'
  BY <1>1, <1>2 DEF HeldIsStamped
<1>5. QueuedMovesByOne' /\ ResendIsUnderWay'
  BY DEF ToApp, QueuedMovesByOne, ResendIsUnderWay
<1>6. AllHandedOut'
  BY <1>1, <1>2 DEF AllHandedOut, ToApp, peer, history, TypeOK, Numbers
<1>7. HeldOnce'
  BY <1>1, <1>2 DEF HeldOnce, HeldIsStamped, ToApp, peer, history, TypeOK, Numbers, Message
<1>8. NumberedOnce'
  BY <1>1, <1>2 DEF NumberedOnce, QueuedMovesByOne, ToApp, peer, history
<1> QED BY <1>3, <1>4, <1>5, <1>6, <1>7, <1>8

(* Send puts the message on the way, or loses it with the session.          *)
LEMMA SendStep ==
    ASSUME IInv, NEW t \in Threads, NEW ok \in BOOLEAN, NEW kept \in BOOLEAN, Send(t, ok, kept)
    PROVE  IInv'
<1> USE OutboundAssumption DEF OutboundAssumption, IInv, Shape
<1>1. /\ Nothing \in Message /\ Nothing.num = 0 /\ Nothing.new = 1
      /\ Unmarked(Nothing)
  BY NewMessage DEF Nothing, Numbers, Unmarked
<1>2. /\ held' \in [Threads -> Message]
      /\ \A u \in Threads \ {t} : held'[u] = held[u] /\ pc'[u] = pc[u]
      /\ held'[t] = Nothing /\ pc'[t] = "idle" /\ pc[t] # "idle"
      /\ held[t] \in Message
  BY <1>1 DEF Send, TypeOK
<1>3. /\ queue' \in Seq(Message)
      /\ \/ queue' = queue
         \/ /\ DOMAIN queue' = DOMAIN queue \cup {Len(queue) + 1}
            /\ Len(queue) + 1 \notin DOMAIN queue
            /\ queue'[Len(queue) + 1] = held[t]
            /\ \A i \in DOMAIN queue : queue'[i] = queue[i]
  BY <1>2, AppendMessage DEF Send, TypeOK
<1>4. TypeOK'
  <2>1. pc' \in [Threads -> {"idle", "toApp", "send"}]
    BY DEF Send, TypeOK
  <2>2. \A u \in Threads : pc'[u] = "idle" <=> held'[u] = Nothing
    BY <1>2 DEF TypeOK
  <2>3. sent' \subseteq Numbers /\ unflushed' \in BOOLEAN
    BY <1>2 DEF Send, TypeOK, Message
  <2> QED BY <1>2, <1>3, <2>1, <2>2, <2>3 DEF Send, TypeOK, peer, bounds
<1>5. HeldIsStamped'
  BY <1>1, <1>2 DEF HeldIsStamped
<1>6. QueuedMovesByOne' /\ ResendIsUnderWay'
  BY <1>2, <1>3 DEF Send, QueuedMovesByOne, ResendIsUnderWay, HeldIsStamped
<1>7. AllHandedOut'
  BY <1>1, <1>2, <1>3 DEF AllHandedOut, Send, peer, TypeOK, Numbers
<1>8. HeldOnce'
  BY <1>1, <1>2 DEF HeldOnce, HeldIsStamped, Send, peer, TypeOK, Numbers, Message
<1>9. NumberedOnce'
  <2> SUFFICES ASSUME ~renumbered PROVE NumberedOnce'
    BY DEF NumberedOnce, Send
  <2>1. /\ held[t].num \notin received
        /\ \A u \in Threads : held'[u].num # held[t].num
        /\ held[t].num >= 1
    BY <1>1, <1>2 DEF HeldOnce, HeldIsStamped
  <2>2. \A i \in DOMAIN queue : Unmarked(queue[i]) =>
          /\ queue[i].num # held[t].num /\ queue[i].num \notin received
          /\ \A u \in Threads : held'[u].num # queue[i].num
    BY <1>1, <1>2 DEF NumberedOnce, QueuedMovesByOne
  <2>3. received' = received
    BY DEF Send, peer
  <2> QED BY <1>3, <2>1, <2>2, <2>3 DEF NumberedOnce
<1> QED BY <1>4, <1>5, <1>6, <1>7, <1>8, <1>9
-----------------------------------------------------------------------------
(* The answer to a ResendRequest stays within what has been handed out.     *)
LEMMA ResendStartStep == ASSUME IInv, ResendStart PROVE IInv'
<1> USE OutboundAssumption DEF OutboundAssumption, IInv, Shape
<1>1. LastAsked(request.last) \in Numbers
  BY DEF LastAsked, TypeOK, Range0
<1>2. /\ resend' \in Range0 /\ request' \in Range0
      /\ request'.last = 0
      /\ resend' # NoRange => resend'.first <= resend'.last
      /\ resend'.last = LastAsked(request.last) \/ resend'.last = 0
  BY <1>1 DEF ResendStart, TypeOK, Range0, NoRange, Numbers
<1>3. TypeOK'
  BY <1>2 DEF ResendStart, TypeOK, peer, bounds, history
<1>4. UNCHANGED <<outSeq, pc, held, queue, expected, received, renumbered>>
  BY DEF ResendStart, peer, history
<1>5. HeldIsStamped' /\ QueuedMovesByOne' /\ ResendIsUnderWay'
  BY <1>2, <1>4 DEF HeldIsStamped, QueuedMovesByOne, ResendIsUnderWay
<1>6. AllHandedOut'
  <2> SUFFICES ASSUME ~renumbered PROVE AllHandedOut'
    BY <1>4 DEF AllHandedOut
  <2>1. LastAsked(request.last) <= outSeq /\ outSeq >= 0
    BY DEF AllHandedOut, LastAsked, TypeOK, Numbers
  <2>2. resend'.last <= outSeq /\ request'.last <= outSeq
    BY <1>2, <2>1
  <2> QED BY <1>4, <2>2 DEF AllHandedOut
<1>7. HeldOnce' /\ NumberedOnce'
  BY <1>4 DEF HeldOnce, NumberedOnce
<1> QED BY <1>3, <1>5, <1>6, <1>7

(* Each turn of the resend loop sends a message marked as a duplicate.      *)
LEMMA ResendStepStep ==
    ASSUME IInv, NEW accept \in BOOLEAN, ResendStep(accept) PROVE IInv'
<1> DEFINE n == resend.first
<1> USE OutboundAssumption DEF OutboundAssumption, IInv, Shape
<1>1. n \in Numbers /\ n <= resend.last /\ resend.last \in Numbers
  BY DEF ResendStep, TypeOK, ResendIsUnderWay, Range0, Numbers
<1>2. /\ Resent(n) \in Message
      /\ Resent(n).num = n /\ Resent(n).new = n + 1 /\ ~Unmarked(Resent(n))
  BY <1>1, NewMessage DEF Resent, Unmarked
<1>3. /\ resend' \in Range0
      /\ resend' # NoRange => resend'.first <= resend'.last
      /\ resend'.last = resend.last \/ resend'.last = 0
  <2>1. CASE n < resend.last
    <3>1. resend' = [resend EXCEPT !.first = n + 1]
      BY <2>1 DEF ResendStep
    <3>2. resend' \in Range0
      <4>1. n + 1 \in 0 .. MaxSeq + 1
        BY <1>1 DEF Numbers
      <4>2. resend \in Range0
        BY DEF TypeOK
      <4> HIDE DEF n
      <4> QED BY <3>1, <4>1, <4>2 DEF Range0
    <3>3. resend'.last = resend.last /\ resend'.first = n + 1
      BY <3>1 DEF TypeOK, Range0
    <3> QED BY <1>1, <2>1, <3>2, <3>3 DEF Numbers
  <2>2. CASE ~(n < resend.last)
    BY <2>2 DEF ResendStep, Range0, NoRange, Numbers
  <2> QED BY <2>1, <2>2
<1> HIDE DEF n
<1>4. /\ queue' \in Seq(Message)
      /\ \/ queue' = queue
         \/ /\ DOMAIN queue' = DOMAIN queue \cup {Len(queue) + 1}
            /\ Len(queue) + 1 \notin DOMAIN queue
            /\ queue'[Len(queue) + 1] = Resent(n)
            /\ \A i \in DOMAIN queue : queue'[i] = queue[i]
  BY <1>2, AppendMessage DEF ResendStep, TypeOK, n
<1>5. UNCHANGED <<outSeq, pc, held, request, expected, received, renumbered>>
  BY DEF ResendStep, peer
<1>6. TypeOK'
  <2>1. overtaken' \in BOOLEAN /\ refused' \in BOOLEAN /\ unflushed' \in BOOLEAN
    BY DEF ResendStep
  <2>2. upsets' \in 0 .. MaxUpsets
    BY DEF ResendStep, TypeOK
  <2> QED BY <1>3, <1>4, <2>1, <2>2 DEF ResendStep, TypeOK, peer
<1>7. HeldIsStamped' /\ QueuedMovesByOne' /\ ResendIsUnderWay'
  BY <1>2, <1>3, <1>4, <1>5 DEF HeldIsStamped, QueuedMovesByOne, ResendIsUnderWay
<1>8. AllHandedOut'
  BY <1>1, <1>2, <1>3, <1>4, <1>5 DEF AllHandedOut, TypeOK, Numbers
<1>9. HeldOnce'
  BY <1>5 DEF HeldOnce
<1>10. NumberedOnce'
  BY <1>2, <1>4, <1>5 DEF NumberedOnce
<1> QED BY <1>6, <1>7, <1>8, <1>9, <1>10

-----------------------------------------------------------------------------
(* A reset from the peer's Logon comes when nothing is on its way, or hands *)
(* numbers out again.                                                       *)
LEMMA LogonResetStep == ASSUME IInv, LogonReset PROVE IInv'
<1> USE OutboundAssumption DEF OutboundAssumption, IInv, Shape
<1>1. TypeOK'
  <2>1. renumbered' \in BOOLEAN
    BY DEF LogonReset
  <2>2. NoRange \in Range0
    BY DEF NoRange, Range0, Numbers
  <2>3. upsets' \in 0 .. MaxUpsets
    BY DEF LogonReset, TypeOK
  <2>4. outSeq' \in Numbers /\ expected' \in 1 .. MaxSeq + 1 /\ asked' \in Numbers
    BY DEF LogonReset, Numbers
  <2> QED BY <2>1, <2>2, <2>3, <2>4 DEF LogonReset, TypeOK
<1>2. HeldIsStamped' /\ QueuedMovesByOne' /\ ResendIsUnderWay'
  BY DEF LogonReset, HeldIsStamped, QueuedMovesByOne, ResendIsUnderWay
<1>3. CASE renumbered'
  BY <1>1, <1>2, <1>3 DEF AllHandedOut, HeldOnce, NumberedOnce
<1>4. CASE ~renumbered'
  <2>1. queue' = <<>> /\ \A t \in Threads : pc'[t] = "idle" /\ held'[t] = Nothing
    BY <1>4 DEF LogonReset, TypeOK
  <2>2. Nothing.num = 0
    BY DEF Nothing, New
  <2>3. resend'.last = 0 /\ request'.last = 0
    BY DEF LogonReset, ReaderFree, NoRange
  <2>4. AllHandedOut'
    BY <2>1, <2>2, <2>3 DEF AllHandedOut, LogonReset
  <2> QED BY <1>1, <1>2, <2>1, <2>4 DEF HeldOnce, NumberedOnce
<1> QED BY <1>3, <1>4

(* The other handlers, the loss of a session and its return.                *)
LEMMA OtherSteps ==
    ASSUME IInv,
           \/ ResendRefused
           \/ \E n \in NewSeqNos : SequenceReset(n)
           \/ SessionLost
           \/ Reattached
           \/ UNCHANGED vars
    PROVE  IInv'
<1> USE OutboundAssumption DEF OutboundAssumption, IInv, Shape
<1>1. NoRange \in Range0 /\ NoRange.last = 0
  BY DEF NoRange, Range0, Numbers
<1>2. CASE ResendRefused
  <2>1. TypeOK'
    <3>1. upsets' \in 0 .. MaxUpsets
      BY <1>2 DEF ResendRefused, TypeOK
    <3> QED BY <1>1, <1>2, <3>1 DEF ResendRefused, TypeOK, peer
  <2> QED BY <1>1, <1>2, <2>1 DEF ResendRefused, peer, HeldIsStamped, QueuedMovesByOne,
             ResendIsUnderWay, AllHandedOut, HeldOnce, NumberedOnce, TypeOK, Numbers
<1>3. ASSUME NEW n \in NewSeqNos, SequenceReset(n) PROVE IInv'
  <2>1. TypeOK'
    <3>1. upsets' \in 0 .. MaxUpsets /\ outSeq' \in Numbers
      BY <1>3 DEF SequenceReset, TypeOK, Numbers
    <3> QED BY <1>3, <3>1 DEF SequenceReset, TypeOK, peer
  <2> QED BY <1>3, <2>1 DEF SequenceReset, HeldIsStamped, QueuedMovesByOne,
             ResendIsUnderWay, AllHandedOut, HeldOnce, NumberedOnce
<1>4. CASE SessionLost
  <2>1. TypeOK'
    <3>1. losses' \in 0 .. MaxLosses /\ asked' \in Numbers
      BY <1>4 DEF SessionLost, TypeOK, Numbers
    <3>2. up' \in BOOLEAN /\ unflushed' \in BOOLEAN /\ request' \in Range0
      BY <1>1, <1>4 DEF SessionLost
    <3>3. queue' \in Seq(Message)
      BY <1>4 DEF SessionLost
    <3> QED BY <1>4, <3>1, <3>2, <3>3 DEF SessionLost, TypeOK, history
  <2>2. queue' = <<>> /\ UNCHANGED <<outSeq, pc, held, resend, expected, received, renumbered>>
    BY <1>4 DEF SessionLost, history
  <2>3. request'.last = 0
    BY <1>1, <1>4 DEF SessionLost
  <2>4. HeldIsStamped' /\ QueuedMovesByOne' /\ ResendIsUnderWay'
    BY <2>2 DEF HeldIsStamped, QueuedMovesByOne, ResendIsUnderWay
  <2>5. AllHandedOut'
    BY <2>2, <2>3 DEF AllHandedOut, TypeOK, Numbers
  <2>6. HeldOnce' /\ NumberedOnce'
    BY <2>2 DEF HeldOnce, NumberedOnce
  <2> QED BY <2>1, <2>4, <2>5, <2>6
<1>5. CASE Reattached
  <2>1. TypeOK'
    BY <1>5 DEF Reattached, TypeOK, peer, bounds, history
  <2> QED BY <1>5, <2>1 DEF Reattached, peer, history, HeldIsStamped, QueuedMovesByOne,
             ResendIsUnderWay, AllHandedOut, HeldOnce, NumberedOnce
<1>6. CASE UNCHANGED vars
  <2>1. TypeOK'
    BY <1>6 DEF vars, TypeOK, peer, bounds, history
  <2> QED BY <1>6, <2>1 DEF vars, peer, history, HeldIsStamped, QueuedMovesByOne,
             ResendIsUnderWay, AllHandedOut, HeldOnce, NumberedOnce
<1> QED BY <1>2, <1>3, <1>4, <1>5, <1>6

-----------------------------------------------------------------------------
(* The peer only moves past what it received.                               *)
LEMMA PeerReceiveStep == ASSUME IInv, PeerReceive PROVE IInv'
<1> DEFINE m == Head(queue)
<1> USE OutboundAssumption DEF OutboundAssumption, IInv, Shape
<1>1. /\ m \in Message /\ 1 \in DOMAIN queue /\ m = queue[1]
      /\ queue' \in Seq(Message)
      /\ \A i \in DOMAIN queue' : i \in Nat /\ i >= 1 /\ i + 1 \in DOMAIN queue
                                     /\ queue'[i] = queue[i + 1]
  BY TailMessages DEF PeerReceive, TypeOK
<1>2. /\ m.num \in Numbers /\ m.new = m.num + 1 /\ (Unmarked(m) => m.num >= 1)
      /\ ~renumbered => m.num <= outSeq
  BY <1>1 DEF QueuedMovesByOne, AllHandedOut, Message
<1>3. received' = IF Unmarked(m) THEN received \cup {m.num} ELSE received
  BY DEF PeerReceive, Unmarked
<1>4. PeerRejects(m) \/ PeerInOrder(m) \/ PeerGap(m) \/ PeerLow(m)
  BY DEF PeerReceive, PeerTakes
<1>5. UNCHANGED <<outSeq, pc, held, up, unflushed, stored, resend, bounds, sent,
                  overtaken, renumbered, refused>>
  BY DEF PeerReceive
<1> HIDE DEF m
<1>6. /\ expected' \in 1 .. MaxSeq + 1
      /\ expected' = expected \/ expected' = m.num + 1
  BY <1>2, <1>4 DEF PeerRejects, PeerInOrder, PeerGap, PeerLow, TypeOK, Numbers
<1>7. /\ request' \in Range0
      /\ request' = request \/ request'.last = 0 \/ request'.last = m.num
  BY <1>2, <1>4 DEF PeerRejects, PeerInOrder, PeerGap, PeerLow, TypeOK, Range0, Numbers
<1>8. TypeOK'
  <2>1. asked' \in Numbers
    BY <1>2, <1>4 DEF PeerRejects, PeerInOrder, PeerGap, PeerLow, TypeOK, Numbers
  <2>2. processed' \subseteq Numbers /\ received' \subseteq Numbers
    BY <1>2, <1>3, <1>4 DEF PeerRejects, PeerInOrder, PeerGap, PeerLow, TypeOK
  <2>3. tooLow' \in BOOLEAN
    <3>1. CASE PeerLow(m)
      BY <3>1 DEF PeerLow
    <3>2. CASE PeerRejects(m) \/ PeerInOrder(m) \/ PeerGap(m)
      BY <3>2 DEF PeerRejects, PeerInOrder, PeerGap, TypeOK
    <3> QED BY <1>4, <3>1, <3>2
  <2>4. peerIs' \in Peers \cup {"unknown"}
    BY DEF PeerReceive, PeerRejects, PeerTakes, Shows, TypeOK
  <2> QED BY <1>1, <1>5, <1>6, <1>7, <2>1, <2>2, <2>3, <2>4 DEF TypeOK, bounds
<1>9. HeldIsStamped' /\ QueuedMovesByOne' /\ ResendIsUnderWay'
  BY <1>1, <1>5 DEF HeldIsStamped, QueuedMovesByOne, ResendIsUnderWay
<1>10. AllHandedOut'
  BY <1>1, <1>2, <1>3, <1>5, <1>6, <1>7 DEF AllHandedOut, TypeOK, Numbers
<1>11. ASSUME ~renumbered, Unmarked(m)
       PROVE  /\ \A i \in DOMAIN queue' : Unmarked(queue'[i]) => queue'[i].num # m.num
              /\ \A t \in Threads : held[t].num # m.num
  BY <1>1, <1>11 DEF NumberedOnce
<1>12. HeldOnce'
  BY <1>3, <1>5, <1>11 DEF HeldOnce
<1>13. NumberedOnce'
  BY <1>1, <1>3, <1>5, <1>11 DEF NumberedOnce
<1> QED BY <1>8, <1>9, <1>10, <1>12, <1>13

-----------------------------------------------------------------------------
(* The invariant holds throughout. *)
LEMMA Inductive == Spec => []IInv
<1>1. IInv /\ [Next]_vars => IInv'
  BY StampStep, ToAppStep, SendStep, ResendStartStep, ResendStepStep, LogonResetStep,
     OtherSteps, PeerReceiveStep DEF Next, SendMessage, Handlers
<1> QED BY InitIInv, <1>1, PTL DEF Spec

(* Every variable of the outgoing side keeps to its type. *)
THEOREM OutboundTypeCorrect == Spec => []TypeOK
<1>1. IInv => TypeOK
  BY DEF IInv, Shape
<1> QED BY <1>1, Inductive, PTL

(* However SendMessage calls and handlers interleave, a number goes out     *)
(* unmarked at most once (engine.go:311-352), until a failed save or a      *)
(* reset hands numbers out again.                                           *)
THEOREM NoNumberTwice == Spec => []NumberedOnce
<1>1. IInv => NumberedOnce
  BY DEF IInv
<1> QED BY <1>1, Inductive, PTL

(* The answer to a ResendRequest (handlers.go:139-267) never takes the peer *)
(* past the last number handed out.                                         *)
THEOREM ResendStaysBehind == Spec => []PeerNotAhead
<1>1. IInv => PeerNotAhead
  BY DEF IInv, AllHandedOut, PeerNotAhead
<1> QED BY <1>1, Inductive, PTL

-----------------------------------------------------------------------------
(* What the peer has seen of a number its sender still holds.                *)

LEMMA StampBehind ==
    ASSUME IInv, PeerInv, NEW t \in Threads, NEW kind \in {"app", "admin"}, NEW saved \in BOOLEAN,
           Stamp(t, kind, saved)
    PROVE  PeerInv'
<1>1. UNCHANGED <<queue, expected, processed, stored, sent, tooLow, overtaken>>
  BY DEF Stamp, peer
<1>2. CASE ~Undisturbed'
  BY <1>1, <1>2 DEF PeerInv, UnmarkedFirst, SentOnce, StoredNotSkipped, TooLowExplained,
     Undisturbed, Stamp
<1>3. CASE Undisturbed'
  <2>1. Undisturbed /\ saved
    BY <1>3 DEF Undisturbed, Stamp
  <2>2. outSeq' = outSeq + 1 /\ outSeq \in Nat
    BY DEF Stamp, IInv, Shape, TypeOK, Numbers
  <2>3. /\ held'[t].num = outSeq + 1
        /\ \A u \in Threads \ {t} : held'[u] = held[u] /\ pc'[u] = pc[u]
    BY <2>1 DEF Stamp, New, IInv, Shape, TypeOK
  <2>4. expected <= outSeq + 1 /\ \A i \in DOMAIN queue : queue[i].num <= outSeq
    BY <2>1 DEF IInv, AllHandedOut, Undisturbed
  <2>5. \A i \in DOMAIN queue : queue[i].num # outSeq + 1
    BY <2>2, <2>4 DEF IInv, Shape, TypeOK, Message, Numbers
  <2>6. \A n \in sent : n <= outSeq /\ n # outSeq + 1 /\ n <= outSeq'
    BY <2>1, <2>2 DEF PeerInv, SentOnce, IInv, Shape, TypeOK, Numbers
  <2>7. UnmarkedFirst'
    BY <1>1, <2>1, <2>2, <2>3, <2>4, <2>5 DEF PeerInv, UnmarkedFirst
  <2>8. SentOnce'
    BY <1>1, <2>1, <2>3, <2>6 DEF PeerInv, SentOnce
  <2>9. TooLowExplained' /\ StoredNotSkipped'
    BY <1>1, <2>1, <2>7 DEF PeerInv, TooLowExplained, StoredNotSkipped, Undisturbed
  <2> QED BY <2>7, <2>8, <2>9 DEF PeerInv
<1> QED BY <1>2, <1>3

LEMMA ToAppBehind ==
    ASSUME IInv, PeerInv, NEW t \in Threads, NEW accept \in BOOLEAN, NEW store \in BOOLEAN,
           ToApp(t, accept, store)
    PROVE  PeerInv'
<1>1. UNCHANGED <<outSeq, queue, expected, processed, sent, tooLow, overtaken, renumbered>>
  BY DEF ToApp, peer, history
<1>2. /\ \A u \in Threads : pc'[u] # "idle" => pc[u] # "idle" /\ held'[u] = held[u]
      /\ pc[t] # "idle"
  BY DEF ToApp, IInv, Shape, TypeOK
<1>3. stored' = stored \/ stored' = stored \cup {held[t].num}
  BY DEF ToApp
<1>4. TooLowExplained' /\ UnmarkedFirst'
  BY <1>1, <1>2 DEF PeerInv, TooLowExplained, UnmarkedFirst, Undisturbed
<1>5. Undisturbed => /\ \A i \in DOMAIN queue : queue[i].num # held[t].num
                     /\ held[t].num >= expected
  BY <1>2 DEF PeerInv, UnmarkedFirst
<1>6. SentOnce'
  BY <1>1, <1>2, <1>3, <1>5 DEF PeerInv, SentOnce, Undisturbed
<1>7. held[t].num \in Nat /\ expected \in Nat
  BY DEF IInv, Shape, TypeOK, Message, Numbers
<1>8. StoredNotSkipped'
  BY <1>1, <1>3, <1>5, <1>7 DEF PeerInv, StoredNotSkipped, Undisturbed
<1> QED BY <1>4, <1>6, <1>8 DEF PeerInv

LEMMA SendBehind ==
    ASSUME IInv, PeerInv, NEW t \in Threads, NEW ok \in BOOLEAN, NEW kept \in BOOLEAN,
           Send(t, ok, kept)
    PROVE  PeerInv'
<1>1. UNCHANGED <<outSeq, expected, processed, stored, tooLow, overtaken, renumbered>>
  BY DEF Send, peer
<1>2. /\ \A u \in Threads : pc'[u] # "idle" => u # t /\ pc[u] # "idle" /\ held'[u] = held[u]
      /\ pc[t] # "idle" /\ held[t] \in Message
  BY DEF Send, IInv, Shape, TypeOK
<1>3. \/ queue' = queue
      \/ /\ DOMAIN queue' = DOMAIN queue \cup {Len(queue) + 1}
         /\ Len(queue) + 1 \notin DOMAIN queue
         /\ queue'[Len(queue) + 1] = held[t]
         /\ \A i \in DOMAIN queue : queue'[i] = queue[i]
  BY <1>2, AppendMessage DEF Send, IInv, Shape, TypeOK
<1>4. \/ sent' = sent
      \/ held[t].kind = "app" /\ sent' = sent \cup {held[t].num}
  BY DEF Send
<1>5. TooLowExplained'
  BY <1>1 DEF PeerInv, TooLowExplained
<1>6. CASE ~Undisturbed
  BY <1>1, <1>5, <1>6 DEF PeerInv, UnmarkedFirst, SentOnce, StoredNotSkipped, Undisturbed
<1>7. CASE Undisturbed
  <2>1. /\ \A i \in DOMAIN queue : queue[i].num # held[t].num
        /\ held[t].num >= expected /\ held[t].num \in Nat /\ expected \in Nat
        /\ held[t].num <= outSeq
        /\ held[t].num \notin sent
    BY <1>2, <1>7 DEF PeerInv, UnmarkedFirst, SentOnce, Undisturbed, IInv, Shape, TypeOK,
       Message, Numbers, AllHandedOut
  <2>2. \A u \in Threads : pc'[u] # "idle" => held'[u].num # held[t].num
    BY <1>2, <1>7 DEF IInv, HeldOnce, Undisturbed
  <2>3. held[t].kind \in {"app", "admin"}
    BY DEF IInv, Shape, HeldIsStamped, Unmarked
  <2>4. UnmarkedFirst'
    <3>1. \A u \in Threads : pc'[u] # "idle" =>
             /\ held'[u].num >= expected'
             /\ \A i \in DOMAIN queue' : queue'[i].num # held'[u].num
      BY <1>1, <1>2, <1>3, <1>7, <2>2 DEF PeerInv, UnmarkedFirst
    <3>2. \A i \in DOMAIN queue' : Unmarked(queue'[i]) => queue'[i].num >= expected'
      BY <1>1, <1>3, <1>7, <2>1 DEF PeerInv, UnmarkedFirst
    <3>3. \A i, j \in DOMAIN queue' :
             (Unmarked(queue'[i]) /\ queue'[j].num = queue'[i].num) => i <= j
      <4>1. CASE queue' = queue
        BY <1>7, <4>1 DEF PeerInv, UnmarkedFirst
      <4>2. CASE queue' # queue
        BY <1>3, <1>7, <2>1, <4>2 DEF PeerInv, UnmarkedFirst, IInv, Shape, TypeOK
      <4> QED BY <4>1, <4>2
    <3> QED BY <3>1, <3>2, <3>3 DEF UnmarkedFirst
  <2>5. SentOnce'
    <3>1. \A n \in sent' : n <= outSeq'
      BY <1>1, <1>4, <1>7, <2>1 DEF PeerInv, SentOnce
    <3>2. \A u \in Threads : pc'[u] # "idle" => held'[u].num \notin sent'
      BY <1>2, <1>4, <1>7, <2>2 DEF PeerInv, SentOnce
    <3>3. \A i \in DOMAIN queue' : /\ queue'[i].kind = "admin" => queue'[i].num \notin sent'
                                   /\ queue'[i].kind = "fill" => queue'[i].num \notin stored'
      <4>1. \A i \in DOMAIN queue : /\ queue[i].kind = "admin" => queue[i].num \notin sent
                                    /\ queue[i].kind = "fill" => queue[i].num \notin stored
        BY <1>7 DEF PeerInv, SentOnce
      <4>2. \A i \in DOMAIN queue : queue[i].kind = "admin" => queue[i].num \notin sent'
        BY <1>4, <2>1, <4>1
      <4>3. held[t].kind = "admin" => held[t].num \notin sent'
        BY <1>4, <2>1
      <4>4. held[t].kind # "fill"
        BY <2>3
      <4> QED BY <1>1, <1>3, <4>1, <4>2, <4>3, <4>4
    <3> QED BY <3>1, <3>2, <3>3 DEF SentOnce
  <2>6. StoredNotSkipped'
    BY <1>1, <1>4, <1>7, <2>1 DEF PeerInv, StoredNotSkipped, Undisturbed
  <2> QED BY <1>5, <2>4, <2>5, <2>6 DEF PeerInv
<1> QED BY <1>6, <1>7

LEMMA ResendStepBehind ==
    ASSUME IInv, PeerInv, NEW accept \in BOOLEAN, ResendStep(accept) PROVE PeerInv'
<1> DEFINE n == resend.first
<1>1. /\ UNCHANGED <<outSeq, pc, held, expected, processed, stored, sent, tooLow, renumbered>>
      /\ overtaken => overtaken'
  BY DEF ResendStep, peer
<1>2. Undisturbed' => Undisturbed /\ \A t \in Threads : held[t].num # n
  BY DEF ResendStep, Undisturbed
<1>3. n \in Numbers
  <2>1. n \in 0 .. MaxSeq + 1 /\ n <= resend.last /\ resend.last \in Numbers
    BY DEF ResendStep, IInv, Shape, TypeOK, ResendIsUnderWay, Range0
  <2> QED BY <2>1, OutboundAssumption DEF OutboundAssumption, Numbers
<1>4. /\ Resent(n) \in Message
      /\ Resent(n).num = n /\ ~Unmarked(Resent(n))
      /\ Resent(n).kind = IF n \in stored THEN "replay" ELSE "fill"
  BY <1>3, NewMessage DEF Resent, Unmarked
<1> HIDE DEF n
<1>5. \/ queue' = queue
      \/ /\ DOMAIN queue' = DOMAIN queue \cup {Len(queue) + 1}
         /\ Len(queue) + 1 \notin DOMAIN queue
         /\ queue'[Len(queue) + 1] = Resent(n)
         /\ \A i \in DOMAIN queue : queue'[i] = queue[i]
  BY <1>4, AppendMessage DEF ResendStep, n, IInv, Shape, TypeOK
<1>6. TooLowExplained'
  BY <1>1 DEF PeerInv, TooLowExplained
<1>7. CASE ~Undisturbed'
  BY <1>6, <1>7 DEF PeerInv, UnmarkedFirst, SentOnce, StoredNotSkipped, Undisturbed
<1>8. CASE Undisturbed'
  <2>1. \A i, j \in DOMAIN queue' :
           (Unmarked(queue'[i]) /\ queue'[j].num = queue'[i].num) => i <= j
    <3>1. CASE queue' = queue
      BY <1>2, <1>8, <3>1 DEF PeerInv, UnmarkedFirst
    <3>2. CASE queue' # queue
      <4>1. \A i \in DOMAIN queue : i \in Nat /\ i <= Len(queue) + 1
        BY DEF IInv, Shape, TypeOK
      <4> QED BY <1>2, <1>4, <1>5, <1>8, <3>2, <4>1 DEF PeerInv, UnmarkedFirst
    <3> QED BY <3>1, <3>2
  <2>2. UnmarkedFirst'
    BY <1>1, <1>2, <1>4, <1>5, <1>8, <2>1 DEF PeerInv, UnmarkedFirst
  <2>3. SentOnce'
    BY <1>1, <1>2, <1>4, <1>5, <1>8 DEF PeerInv, SentOnce
  <2>4. StoredNotSkipped'
    BY <1>1, <1>2, <1>8 DEF PeerInv, StoredNotSkipped, Undisturbed
  <2> QED BY <1>6, <2>2, <2>3, <2>4 DEF PeerInv
<1> QED BY <1>7, <1>8

LEMMA OthersBehind ==
    ASSUME IInv, PeerInv,
           \/ ResendStart \/ ResendRefused \/ LogonReset
           \/ \E n \in NewSeqNos : SequenceReset(n)
           \/ SessionLost \/ Reattached
           \/ UNCHANGED vars
    PROVE  PeerInv'
<1>1. CASE ResendStart \/ ResendRefused \/ Reattached \/ UNCHANGED vars
  <2>1. UNCHANGED <<outSeq, pc, held, queue, expected, processed, stored, sent, tooLow,
                    overtaken, renumbered>>
    BY <1>1 DEF ResendStart, ResendRefused, Reattached, vars, peer, history
  <2> QED BY <2>1 DEF PeerInv, UnmarkedFirst, SentOnce, TooLowExplained, StoredNotSkipped,
             Undisturbed
<1>2. CASE \E n \in NewSeqNos : SequenceReset(n)
  <2>1. renumbered'
    BY <1>2 DEF SequenceReset
  <2> QED BY <2>1 DEF PeerInv, UnmarkedFirst, SentOnce, TooLowExplained, StoredNotSkipped,
             Undisturbed
<1>3. CASE LogonReset
  <2>1. UNCHANGED <<tooLow, overtaken>> /\ (renumbered => renumbered')
    BY <1>3 DEF LogonReset
  <2>2. TooLowExplained'
    BY <2>1 DEF PeerInv, TooLowExplained
  <2>3. ~renumbered' => queue' = <<>> /\ sent' = {} /\ \A t \in Threads : pc'[t] = "idle"
    BY <1>3 DEF LogonReset
  <2> QED BY <2>2, <2>3 DEF PeerInv, UnmarkedFirst, SentOnce, StoredNotSkipped, Undisturbed
<1>4. CASE SessionLost
  <2>1. /\ queue' = <<>>
        /\ UNCHANGED <<outSeq, pc, held, expected, processed, stored, sent, tooLow,
                       overtaken, renumbered>>
    BY <1>4 DEF SessionLost, history
  <2> QED BY <2>1 DEF PeerInv, UnmarkedFirst, SentOnce, TooLowExplained, StoredNotSkipped,
             Undisturbed
<1> QED BY <1>1, <1>2, <1>3, <1>4

LEMMA PeerReceiveBehind == ASSUME IInv, PeerInv, PeerReceive PROVE PeerInv'
<1> DEFINE m == Head(queue)
<1>1. /\ m \in Message /\ 1 \in DOMAIN queue /\ m = queue[1]
      /\ \A i \in DOMAIN queue' : i \in Nat /\ i >= 1 /\ i + 1 \in DOMAIN queue
                                     /\ queue'[i] = queue[i + 1]
  BY TailMessages DEF PeerReceive, IInv, Shape, TypeOK
<1>2. PeerRejects(m) \/ PeerInOrder(m) \/ PeerGap(m) \/ PeerLow(m)
  BY DEF PeerReceive, PeerTakes
<1>3. /\ UNCHANGED <<outSeq, pc, held, stored, sent, overtaken, renumbered>>
      /\ ~tooLow
  BY DEF PeerReceive
<1>4. m.num \in Nat /\ m.new = m.num + 1 /\ expected \in Nat
  BY <1>1 DEF IInv, Shape, QueuedMovesByOne, TypeOK, Message, Numbers
<1> HIDE DEF m
<1>5. CASE ~Undisturbed
  <2>1. TooLowExplained'
    BY <1>3, <1>5 DEF TooLowExplained, Undisturbed
  <2> QED BY <1>3, <1>5, <2>1 DEF PeerInv, UnmarkedFirst, SentOnce, StoredNotSkipped, Undisturbed
<1>6. CASE Undisturbed
  <2>1. ~tooLow'
    <3>1. PeerLow(m) => ~Unmarked(m)
      BY <1>1, <1>4, <1>6 DEF PeerLow, PeerInv, UnmarkedFirst
    <3> QED BY <1>2, <1>3, <3>1 DEF PeerRejects, PeerInOrder, PeerGap, PeerLow, Unmarked
  <2>2. \/ expected' = expected
        \/ m.num = expected /\ expected' = expected + 1
    BY <1>2, <1>4 DEF PeerRejects, PeerInOrder, PeerGap, PeerLow
  <2>3. \A t \in Threads : pc[t] # "idle" => held[t].num # m.num
    BY <1>1, <1>6 DEF PeerInv, UnmarkedFirst
  <2>4. \A i \in DOMAIN queue' : Unmarked(queue'[i]) => queue'[i].num # m.num
    BY <1>1, <1>6 DEF PeerInv, UnmarkedFirst
  <2>5. UnmarkedFirst'
    <3>1. \A t \in Threads : held[t].num \in Nat
      BY DEF IInv, Shape, TypeOK, Message, Numbers
    <3>2. \A i \in DOMAIN queue : queue[i].num \in Nat
      <4>1. \A i \in DOMAIN queue : queue[i] \in Message
        BY DEF IInv, Shape, TypeOK
      <4> QED BY <4>1 DEF Message, Numbers
    <3>3. \A t \in Threads : pc'[t] # "idle" =>
             /\ held'[t].num >= expected'
             /\ \A i \in DOMAIN queue' : queue'[i].num # held'[t].num
      BY <1>1, <1>3, <1>4, <1>6, <2>2, <2>3, <3>1 DEF PeerInv, UnmarkedFirst
    <3>4. \A i \in DOMAIN queue' : Unmarked(queue'[i]) => queue'[i].num >= expected'
      BY <1>1, <1>4, <1>6, <2>2, <2>4, <3>2 DEF PeerInv, UnmarkedFirst
    <3>5. \A i, j \in DOMAIN queue' :
             (Unmarked(queue'[i]) /\ queue'[j].num = queue'[i].num) => i <= j
      BY <1>1, <1>6 DEF PeerInv, UnmarkedFirst
    <3> QED BY <3>3, <3>4, <3>5 DEF UnmarkedFirst
  <2>6. SentOnce'
    BY <1>1, <1>3, <1>6 DEF PeerInv, SentOnce
  <2>7. StoredNotSkipped'
    <3>1. processed \subseteq processed'
      BY <1>2 DEF PeerRejects, PeerInOrder, PeerGap, PeerLow
    <3>2. CASE expected' = expected
      BY <1>3, <1>6, <3>1, <3>2 DEF PeerInv, StoredNotSkipped, Undisturbed
    <3>3. CASE m.num = expected /\ expected' = expected + 1
      <4>1. PeerInOrder(m)
        BY <1>2, <1>4, <3>3 DEF PeerRejects, PeerGap, PeerLow
      <4>2. m.num \in sent \cap stored => m.kind \in {"app", "replay"}
        <5>1. /\ m.kind = "admin" => m.num \notin sent
              /\ m.kind = "fill" => m.num \notin stored
          <6>1. \A i \in DOMAIN queue : /\ queue[i].kind = "admin" => queue[i].num \notin sent
                                        /\ queue[i].kind = "fill" => queue[i].num \notin stored
            BY <1>6 DEF PeerInv, SentOnce
          <6> QED BY <1>1, <6>1
        <5>2. m.kind \in {"app", "admin", "replay", "fill"}
          BY <1>1 DEF Message
        <5> QED BY <5>1, <5>2
      <4>3. m.num \in sent \cap stored => m.num \in processed'
        BY <4>1, <4>2 DEF PeerInOrder
      <4>4. \A k \in sent : k \in Nat
        BY DEF IInv, Shape, TypeOK, Numbers
      <4> QED BY <1>3, <1>4, <1>6, <3>1, <3>3, <4>3, <4>4 DEF PeerInv, StoredNotSkipped,
                 Undisturbed
    <3> QED BY <2>2, <3>2, <3>3
  <2> QED BY <2>1, <2>5, <2>6, <2>7 DEF PeerInv, TooLowExplained
<1> QED BY <1>5, <1>6

LEMMA InitPeerInv == Init => PeerInv
BY DEF Init, PeerInv, UnmarkedFirst, SentOnce, TooLowExplained, StoredNotSkipped

LEMMA PeerInductive == Spec => []PeerInv
<1>1. IInv /\ PeerInv /\ [Next]_vars => PeerInv'
  BY StampBehind, ToAppBehind, SendBehind, ResendStepBehind, OthersBehind, PeerReceiveBehind
     DEF Next, SendMessage, Handlers
<1> QED BY InitPeerInv, Inductive, <1>1, PTL DEF Spec

(* The peer gives the session up over a low number only if the answer to a   *)
(* ResendRequest covered a number a sender had taken and not yet enqueued    *)
(* (engine.go:311-352 takes, asks and enqueues in three steps), or numbers   *)
(* were handed out again.                                                    *)
THEOREM LowNumberExplained == Spec => []TooLowExplained
<1>1. PeerInv => TooLowExplained
  BY DEF PeerInv
<1> QED BY <1>1, PeerInductive, PTL

(* A resend (handlers.go:139-267) never takes the peer past an application   *)
(* message that was sent and stored without handing it over.                 *)
THEOREM StoredIsHandedOver == Spec => []StoredNotSkipped
<1>1. PeerInv => StoredNotSkipped
  BY DEF PeerInv
<1> QED BY <1>1, PeerInductive, PTL
=============================================================================
