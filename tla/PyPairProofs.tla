---------------------------- MODULE PyPairProofs ----------------------------
(* What holds of two engines of the Python package against each other, for  *)
(* any number of connections, restarts, timers and losses: neither expects   *)
(* a number beyond the other's next, and neither is logged on alone.         *)
EXTENDS PyPair, PyEngineProofs

(* A message that engines of this kind send to one whose peer, the sender,  *)
(* comes to n next: it has a number below n and no PossDupFlag, a            *)
(* SequenceReset is a gap fill up to n at most, and a ResendRequest asks for *)
(* everything from its first number on. *)
Fair(m, n) ==
    /\ ~m.poss /\ 1 <= m.seq /\ m.seq < n
    /\ m.type = "SequenceReset" => m.fill /\ 1 <= m.new /\ m.new <= n
    /\ m.type = "ResendRequest" => m.end = 0

FairlySent(f) == \A i \in 1 .. Len(f.sent) : Fair(f.sent[i], f.store.out)
Unlogged(f)   == \A i \in 1 .. Len(f.sent) : f.sent[i].type # "Logon"

(* A step from e to f whose engine stays connected: what it sends is fair   *)
(* and no Logon, it takes no number back and does not begin to wait for a    *)
(* Logon. *)
Polite(e, f) ==
    f.net = "up" =>
        /\ e.net = "up"
        /\ f.store.out >= e.store.out
        /\ FairlySent(e) => FairlySent(f)
        /\ Unlogged(e) => Unlogged(f)
        /\ f.st = "AWAITING_LOGON" => e.st = "AWAITING_LOGON"

LEMMA PoliteChain ==
    ASSUME NEW e \in Engines, NEW f \in Engines, NEW g \in Engines,
           Polite(e, f), Polite(f, g)
    PROVE  Polite(e, g)
<1>1. e.store.out \in Int /\ f.store.out \in Int /\ g.store.out \in Int
  BY CounterFacts
<1> QED BY <1>1 DEF Polite

LEMMA FairLater ==
    ASSUME NEW m \in Messages, NEW n \in Nat, NEW k \in Nat, Fair(m, n), n <= k
    PROVE  Fair(m, k)
BY DEF Fair, Messages, Digits, Bad

(* A step that sends nothing. *)
LEMMA Silent ==
    ASSUME NEW e \in Engines, NEW f \in Engines, f.sent = e.sent, f.net = e.net,
           f.store.out >= e.store.out,
           f.st = "AWAITING_LOGON" => e.st = "AWAITING_LOGON"
    PROVE  Polite(e, f)
<1>1. e.store.out \in Nat /\ f.store.out \in Nat
  BY CounterFacts
<1>2. ASSUME FairlySent(e) PROVE FairlySent(f)
  <2> SUFFICES ASSUME NEW i \in 1 .. Len(f.sent) PROVE Fair(f.sent[i], f.store.out)
    BY DEF FairlySent
  <2>1. e.sent[i] \in Messages /\ Fair(e.sent[i], e.store.out)
    BY <1>2, SentFacts DEF FairlySent
  <2> QED BY <1>1, <2>1, FairLater
<1> QED BY <1>2 DEF Polite, Unlogged

LEMMA Itself ==
    ASSUME NEW e \in Engines PROVE Polite(e, e)
<1>1. e.store.out \in Int
  BY CounterFacts
<1> QED BY <1>1 DEF Polite

LEMMA OnPolite ==
    ASSUME NEW e \in Engines, NEW event, event # "client_accepted_awaiting_logon"
    PROVE  Polite(e, On(e, event)) /\ On(e, event) \in Engines
<1> DEFINE f == On(e, event)
<1>1. /\ f \in Engines /\ f.st = OnEvent(e.st, event)
      /\ f.net = e.net /\ f.store = e.store /\ f.sent = e.sent
  BY OnFacts
<1>2. e.st \in States /\ e.store.out \in Int
  BY CounterFacts DEF Engines
<1>3. OnEvent(e.st, event) = "AWAITING_LOGON" => e.st = "AWAITING_LOGON"
  BY <1>2 DEF OnEvent, States, Disconnected, Connecting, LogonInProgress, AwaitingLogon,
              Active, LogoutInProgress, Reconnecting
<1> HIDE DEF f
<1>4. Polite(e, f)
  <2>1. f.store.out >= e.store.out
    BY <1>1, <1>2
  <2> QED BY <1>1, <1>3, <2>1, Silent
<1> QED BY <1>1, <1>4 DEF f

LEMMA ClosedPolite == ASSUME NEW e, NEW f, f.net # "up" PROVE Polite(e, f)
BY DEF Polite

-----------------------------------------------------------------------------
(* Sending a message without a number, which takes the next one.            *)
Decent(m, n) ==
    /\ m.seq = Bad /\ ~m.poss /\ (Resets(m) => n = 1)
    /\ m.type = "SequenceReset" => m.fill /\ 1 <= m.new /\ m.new <= n
    /\ m.type = "ResendRequest" => m.end = 0

LEMMA SendFair ==
    ASSUME NEW e \in Engines, NEW m \in Messages, Decent(m, e.store.out)
    PROVE  LET f == Send(e, m) IN
           /\ f \in Engines
           /\ m.type # "Logon" => Polite(e, f)
           /\ f.net = "up" => /\ e.net = "up" /\ f.store.out >= e.store.out
                              /\ FairlySent(e) => FairlySent(f)
                              /\ f.st = e.st
<1> DEFINE f == Send(e, m)
           numbered == [m EXCEPT !.seq = e.store.out]
<1>1. /\ Holds(e, f)
      /\ IF e.st # "DISCONNECTED" /\ e.net = "up"
           THEN f.sent = Append(e.sent, numbered) /\ f.store.out = e.store.out + 1 /\ f.st = e.st
           ELSE f.sent = e.sent
  BY SendFacts DEF Decent
<1>2. f \in Engines /\ e.store.out \in Nat /\ e.store.out >= 1 /\ f.store.out \in Nat
  BY <1>1, CounterFacts DEF Holds
<1>3. /\ numbered \in Messages /\ numbered.type = m.type /\ numbered.seq = e.store.out
      /\ numbered.poss = m.poss /\ numbered.fill = m.fill /\ numbered.new = m.new
      /\ numbered.end = m.end
  BY <1>2 DEF Messages, Digits
<1> HIDE DEF f, numbered
<1>4. CASE f.net = "up"
  <2>1. e.net = "up" /\ f.store.out >= e.store.out
        /\ (e.st = "DISCONNECTED" => f.st = "DISCONNECTED")
    BY <1>1, <1>4 DEF Holds, Numbered
  <2>2. CASE e.st = "DISCONNECTED"
    <3>1. f.sent = e.sent /\ f.st = e.st
      BY <1>1, <2>1, <2>2
    <3>2. Polite(e, f)
      BY <1>2, <1>4, <2>1, <3>1, Silent
    <3> QED BY <1>2, <1>4, <2>1, <3>1, <3>2 DEF Polite, f
  <2>3. CASE e.st # "DISCONNECTED"
    <3>1. /\ f.sent = Append(e.sent, numbered) /\ f.store.out = e.store.out + 1 /\ f.st = e.st
      BY <1>1, <2>1, <2>3
    <3>2. /\ e.sent \in Seq(Messages) /\ Len(e.sent) \in Nat /\ Len(f.sent) = Len(e.sent) + 1
          /\ f.sent[Len(e.sent) + 1] = numbered
          /\ \A i \in 1 .. Len(e.sent) : f.sent[i] = e.sent[i]
      <4>1. e.sent \in Seq(Messages)
        BY DEF Engines
      <4> QED BY <1>3, <3>1, <4>1, AppendProperties, LenProperties
    <3>3. Fair(numbered, f.store.out)
      BY <1>2, <1>3, <3>1 DEF Fair, Decent, Messages, Digits, Bad
    <3>4. \A i \in 1 .. Len(f.sent) : i \in 1 .. Len(e.sent) \/ i = Len(e.sent) + 1
      BY <3>2
    <3>5. ASSUME FairlySent(e) PROVE FairlySent(f)
      <4> SUFFICES ASSUME NEW i \in 1 .. Len(f.sent) PROVE Fair(f.sent[i], f.store.out)
        BY DEF FairlySent
      <4>1. CASE i = Len(e.sent) + 1
        BY <3>2, <3>3, <4>1
      <4>2. CASE i \in 1 .. Len(e.sent)
        <5>1. e.sent[i] \in Messages /\ Fair(e.sent[i], e.store.out) /\ f.sent[i] = e.sent[i]
          BY <3>2, <3>5, <4>2, SentFacts DEF FairlySent
        <5> QED BY <1>2, <2>1, <5>1, FairLater
      <4> QED BY <3>4, <4>1, <4>2
    <3>6. m.type # "Logon" /\ Unlogged(e) => Unlogged(f)
      BY <1>3, <3>2, <3>4 DEF Unlogged
    <3> QED BY <1>2, <1>4, <2>1, <3>1, <3>5, <3>6 DEF Polite, f
  <2> QED BY <2>2, <2>3
<1>5. CASE f.net # "up"
  BY <1>2, <1>5, ClosedPolite DEF f
<1> QED BY <1>4, <1>5

LEMMA SendPolite ==
    ASSUME NEW e \in Engines, NEW m \in Messages, Decent(m, e.store.out), m.type # "Logon"
    PROVE  Polite(e, Send(e, m)) /\ Send(e, m) \in Engines
BY SendFair

LEMMA SendPlainPolite ==
    ASSUME NEW e \in Engines,
           NEW type \in Types \ {"Logon", "SequenceReset", "ResendRequest"}
    PROVE  Polite(e, Send(e, fixmsg(type))) /\ Send(e, fixmsg(type)) \in Engines
<1>1. fixmsg(type) \in Messages /\ Decent(fixmsg(type), e.store.out) /\ fixmsg(type).type = type
  BY FixmsgFacts DEF Decent, Resets
<1> QED BY <1>1, SendPolite

LEMMA SendWithIdPolite ==
    ASSUME NEW e \in Engines, NEW id \in Nat,
           NEW type \in Types \ {"Logon", "SequenceReset", "ResendRequest"}
    PROVE  LET f == Send(e, [fixmsg(type) EXCEPT !.id = id]) IN Polite(e, f) /\ f \in Engines
<1> DEFINE m == [fixmsg(type) EXCEPT !.id = id]
<1>1. m \in Messages /\ m.type = type /\ m.seq = Bad /\ ~m.poss
  BY FixmsgFacts DEF Messages
<1> HIDE DEF m
<1>2. Decent(m, e.store.out)
  BY <1>1 DEF Decent, Resets
<1>3. Polite(e, Send(e, m)) /\ Send(e, m) \in Engines
  BY <1>1, <1>2, SendPolite
<1> QED BY <1>3 DEF m

LEMMA SendRejectPolite ==
    ASSUME NEW e \in Engines PROVE Polite(e, SendReject(e))
<1>1. "Reject" \in Types \ {"Logon", "SequenceReset", "ResendRequest"}
  BY DEF Types
<1> QED BY <1>1, SendPlainPolite DEF SendReject

LEMMA SendLogoutPolite ==
    ASSUME NEW e \in Engines PROVE Polite(e, SendLogout(e)) /\ SendLogout(e) \in Engines
<1>1. CASE e.st \in {"DISCONNECTED", "LOGOUT_IN_PROGRESS"}
  BY <1>1, Itself DEF SendLogout
<1>2. CASE e.st \notin {"DISCONNECTED", "LOGOUT_IN_PROGRESS"}
  <2> DEFINE f == On(e, "logout_initiated")
  <2>1. SendLogout(e) = Send(f, fixmsg("Logout"))
    BY <1>2 DEF SendLogout
  <2>2. Polite(e, f) /\ f \in Engines
    BY OnPolite
  <2> HIDE DEF f
  <2>3. "Logout" \in Types \ {"Logon", "SequenceReset", "ResendRequest"}
    BY DEF Types
  <2>4. Polite(f, Send(f, fixmsg("Logout"))) /\ Send(f, fixmsg("Logout")) \in Engines
    BY <2>2, <2>3, SendPlainPolite
  <2> QED BY <2>1, <2>2, <2>4, PoliteChain
<1> QED BY <1>1, <1>2

-----------------------------------------------------------------------------
(* The handlers of a fair message.                                          *)
(* Answering a ResendRequest: the gap fills stay below the counter, which   *)
(* each of them moves up. *)
LEMMA FilledPolite ==
    ASSUME NEW e \in Engines, NEW first \in Nat, NEW count \in Nat,
           first + count <= e.store.out
    PROVE  Polite(e, Filled(e, first, count))
<1>1. PICK after :
        /\ Filled(e, first, count) = after[count]
        /\ \A k \in 0 .. count :
             after[k] = IF k = 0 THEN e ELSE Send(after[k - 1], GapFill(first + k - 1))
  BY FilledOneByOne
<1> DEFINE T == {n \in Nat : n <= count =>
                   /\ after[n] \in Engines /\ Polite(e, after[n])
                   /\ e.store.out <= after[n].store.out}
<1>2. 0 \in T
  <2>1. after[0] = e /\ e.store.out \in Int
    BY <1>1, CounterFacts
  <2> QED BY <2>1, Itself
<1>3. ASSUME NEW n \in T PROVE n + 1 \in T
  <2> SUFFICES ASSUME n + 1 <= count
               PROVE  /\ after[n + 1] \in Engines /\ Polite(e, after[n + 1])
                      /\ e.store.out <= after[n + 1].store.out
    OBVIOUS
  <2> DEFINE g == after[n]
             m == GapFill(first + n)
  <2>1. g \in Engines /\ Polite(e, g) /\ e.store.out <= g.store.out /\ n \in Nat
    OBVIOUS
  <2>2. after[n + 1] = Send(g, m)
    BY <1>1
  <2> HIDE DEF g
  <2>3. /\ m \in Messages /\ m.type = "SequenceReset" /\ m.seq = Bad /\ ~m.poss
        /\ m.fill /\ m.new = first + n + 1
    BY GapFillFacts
  <2> HIDE DEF m
  <2>4. e.store.out \in Nat /\ g.store.out \in Nat
    BY <2>1, CounterFacts
  <2>5. Decent(m, g.store.out)
    BY <2>1, <2>3, <2>4 DEF Decent, Resets
  <2>6. Polite(g, Send(g, m)) /\ Send(g, m) \in Engines
    BY <2>1, <2>3, <2>5, SendPolite
  <2>7. g.store.out <= Send(g, m).store.out
    <3>1. Resets(m) => g.store.out = 1
      BY <2>3 DEF Resets
    <3> QED BY <2>1, <2>3, <3>1, SendFacts DEF Holds, Numbered
  <2>8. Send(g, m).store.out \in Nat
    BY <2>6, CounterFacts
  <2> QED BY <2>1, <2>2, <2>4, <2>6, <2>7, <2>8, PoliteChain
<1>4. T = Nat
  <2> HIDE DEF T
  <2>1. T \in SUBSET Nat
    BY DEF T
  <2> QED BY <1>2, <1>3, <2>1, SetInduction
<1> QED BY <1>1, <1>4

LEMMA HandleResendRequestPolite ==
    ASSUME NEW e \in Engines, NEW m \in Messages, m.end = 0
    PROVE  Polite(e, HandleResendRequest(e, m))
<1>0. e.store.out \in Nat /\ e.store.out >= 1 /\ LastAsked(e, m) = e.store.out - 1
  BY CounterFacts DEF LastAsked, LastOut
<1>1. CASE m.begin = Bad
  BY <1>1, SendRejectPolite DEF HandleResendRequest
<1>2. CASE m.begin # Bad /\ LastAsked(e, m) < m.begin
  <2>1. HandleResendRequest(e, m) = e
    BY <1>2 DEF HandleResendRequest, Bad
  <2> QED BY <2>1, Itself
<1>3. CASE m.begin # Bad /\ ~(LastAsked(e, m) < m.begin)
  <2>1. m.begin \in Nat
    BY <1>3 DEF Messages, Digits
  <2>2. HandleResendRequest(e, m) = Filled(e, m.begin, LastAsked(e, m) - m.begin + 1)
    BY <1>3 DEF HandleResendRequest, Bad
  <2>3. /\ LastAsked(e, m) - m.begin + 1 \in Nat
        /\ m.begin + (LastAsked(e, m) - m.begin + 1) <= e.store.out
    BY <1>0, <1>3, <2>1
  <2> QED BY <2>1, <2>2, <2>3, FilledPolite
<1> QED BY <1>1, <1>2, <1>3

LEMMA HandleTestRequestPolite ==
    ASSUME NEW e \in Engines, NEW m \in Messages
    PROVE  Polite(e, HandleTestRequest(e, m))
<1>1. m.id \in Nat /\ "Heartbeat" \in Types \ {"Logon", "SequenceReset", "ResendRequest"}
  BY DEF Messages, Types
<1> QED BY <1>1, SendRejectPolite, SendWithIdPolite DEF HandleTestRequest

LEMMA HandleHeartbeatPolite ==
    ASSUME NEW e \in Engines, NEW m \in Messages
    PROVE  Polite(e, HandleHeartbeat(e, m))
<1> DEFINE g == [e EXCEPT !.testId = None]
<1>1. g \in Engines /\ g.sent = e.sent /\ g.store = e.store /\ g.st = e.st /\ g.net = e.net
  BY DEF Engines, None
<1>2. HandleHeartbeat(e, m) = e \/ HandleHeartbeat(e, m) = g
  BY DEF HandleHeartbeat
<1> HIDE DEF g
<1>3. g.store.out >= e.store.out
  BY <1>1, CounterFacts
<1> QED BY <1>1, <1>2, <1>3, Itself, Silent

LEMMA HandleLogoutCloses ==
    ASSUME NEW e \in Engines PROVE HandleLogout(e).net = "down"
<1> DEFINE f == Disconnect(SendLogout(e))
<1>1. f \in Engines /\ f.net = "down"
  BY SendLogoutPolite, DisconnectFacts DEF Ended, Continues, Keeps, Holds
<1>2. HandleLogout(e) = [f EXCEPT !.wait = IF f.wait = "waiting" THEN "done" ELSE f.wait]
  BY DEF HandleLogout
<1> HIDE DEF f
<1> QED BY <1>1, <1>2 DEF Engines

LEMMA HandleOtherPolite ==
    ASSUME NEW e \in Engines, NEW m \in Messages
    PROVE  Polite(e, HandleOther(e, m))
<1> DEFINE g == [e EXCEPT !.buf = <<>>]
<1>1. HandleOther(e, m) = e \/ HandleOther(e, m) = SendReject(e) \/ HandleOther(e, m) = g
  BY DEF HandleOther
<1>2. g \in Engines /\ g.sent = e.sent /\ g.store = e.store /\ g.st = e.st /\ g.net = e.net
  <2>1. <<>> \in Seq(Messages)
    OBVIOUS
  <2> QED BY <2>1 DEF Engines
<1> HIDE DEF g
<1>3. g.store.out >= e.store.out
  BY <1>2, CounterFacts
<1> QED BY <1>1, <1>2, <1>3, Itself, Silent, SendRejectPolite

-----------------------------------------------------------------------------
(* A Logon: the acceptor that accepts it answers, and waits no longer;      *)
(* whatever else is done with it is polite. *)
Answers(e, f) ==
    /\ e.mode = "acceptor"
    /\ f.net = "up" =>
         /\ e.net = "up"
         /\ e.sent = <<>> => FairlySent(f)
         /\ f.st # "AWAITING_LOGON"

LEMMA HandleLogonPolite ==
    ASSUME NEW e \in Engines, NEW m \in Messages
    PROVE  Polite(e, HandleLogon(e, m)) \/ Answers(e, HandleLogon(e, m))
<1>1. CASE ~LogonAccepted(e, m)
  BY <1>1, SendLogoutPolite DEF HandleLogon
<1>2. CASE LogonAccepted(e, m) /\ e.mode # "acceptor"
  BY <1>2, OnPolite DEF HandleLogon
<1>3. CASE LogonAccepted(e, m) /\ e.mode = "acceptor"
  <2> DEFINE d == IF m.reset THEN [e EXCEPT !.store = ResetNumbers(e.store)] ELSE e
             answer == [fixmsg("Logon") EXCEPT !.reset = m.reset]
             f == Send(d, answer)
             g == On(f, "logon_received_valid")
             h == [g EXCEPT !.hb = TRUE]
  <2>1. HandleLogon(e, m) = h
    BY <1>3 DEF HandleLogon
  <2>2. /\ d \in Engines /\ d.net = e.net /\ d.sent = e.sent
        /\ m.reset => d.store.out = 1
    <3>1. e.store \in Stores /\ e.gap \in Nat
      BY DEF Engines
    <3>2. ResetNumbers(e.store) \in Stores /\ ResetNumbers(e.store).out = 1
      BY <3>1, StepFacts
    <3> QED BY <3>1, <3>2, ChangeFacts DEF SameSession
  <2> HIDE DEF d
  <2>3. /\ answer \in Messages /\ answer.type = "Logon" /\ answer.seq = Bad
        /\ answer.reset = m.reset /\ ~answer.poss
    <3>1. "Logon" \in Types /\ m.reset \in BOOLEAN
      BY DEF Types, Messages
    <3> QED BY <3>1, FixmsgFacts DEF Messages
  <2> HIDE DEF answer
  <2>4. Decent(answer, d.store.out)
    BY <2>2, <2>3 DEF Decent, Resets
  <2>5. /\ f \in Engines
        /\ f.net = "up" => d.net = "up" /\ (FairlySent(d) => FairlySent(f))
    BY <2>2, <2>3, <2>4, SendFair
  <2> HIDE DEF f
  <2>6. /\ g \in Engines /\ g.st = OnEvent(f.st, "logon_received_valid")
        /\ g.net = f.net /\ g.store = f.store /\ g.sent = f.sent
    BY <2>5, OnFacts
  <2>7. g.st # "AWAITING_LOGON"
    <3>1. f.st \in States
      BY <2>5 DEF Engines
    <3> QED BY <2>6, <3>1 DEF OnEvent, States, Disconnected, Connecting, LogonInProgress,
                AwaitingLogon, Active, LogoutInProgress, Reconnecting
  <2> HIDE DEF g
  <2>8. h.st = g.st /\ h.net = g.net /\ h.store = g.store /\ h.sent = g.sent
    BY <2>6 DEF Engines
  <2> HIDE DEF h
  <2>9. e.sent = <<>> => FairlySent(d)
    BY <2>2 DEF FairlySent
  <2>10. FairlySent(f) => FairlySent(h)
    BY <2>6, <2>8 DEF FairlySent
  <2> QED BY <1>3, <2>1, <2>2, <2>5, <2>6, <2>7, <2>8, <2>9, <2>10 DEF Answers
<1> QED BY <1>1, <1>2, <1>3

(* What precedes the handler changes the numbers expected, and no more. *)
LEMMA BeforehandPolite ==
    ASSUME NEW e \in Engines, NEW d, SameSession(e, d), d.store.out = e.store.out
    PROVE  d \in Engines /\ Polite(e, d)
<1>1. d.store.out >= e.store.out
  BY CounterFacts
<1> QED BY <1>1, Silent DEF SameSession

LEMMA PoliteAfter ==
    ASSUME NEW e \in Engines, NEW d, NEW f, SameSession(e, d),
           d.store.out = e.store.out, Polite(d, f) \/ f = d
    PROVE  Polite(e, f)
<1>1. CASE f = d
  BY <1>1, BeforehandPolite
<1>2. CASE Polite(d, f)
  <2>1. FairlySent(e) => FairlySent(d)
    BY DEF SameSession, FairlySent
  <2>2. Unlogged(e) => Unlogged(d)
    BY DEF SameSession, Unlogged
  <2> QED BY <1>2, <2>1, <2>2 DEF SameSession, Polite
<1> QED BY <1>1, <1>2

LEMMA AnswersAfter ==
    ASSUME NEW e \in Engines, NEW d, NEW f, SameSession(e, d), Answers(d, f)
    PROVE  Answers(e, f)
BY DEF SameSession, Answers

LEMMA ProcessPolite ==
    ASSUME NEW e \in Engines, NEW m \in Messages, NEW n, Fair(m, n), ~Fills(m)
    PROVE  LET f == Process(e, m) IN Polite(e, f) \/ (m.type = "Logon" /\ Answers(e, f))
<1>0. m.type \in Types /\ m.type # "SequenceReset"
  BY DEF Messages, Fair, Fills
<1>1. CASE m.type = "Logon"
  BY <1>1, HandleLogonPolite DEF Process
<1>2. CASE m.type = "TestRequest"
  BY <1>2, HandleTestRequestPolite DEF Process
<1>3. CASE m.type = "App"
  <2>1. /\ SameSession(e, HandleApp(e, m)) /\ HandleApp(e, m).store = e.store
    BY HandleAppFacts
  <2> QED BY <1>3, <2>1, BeforehandPolite DEF Process
<1>4. CASE m.type = "ResendRequest"
  <2>1. m.end = 0
    BY <1>4 DEF Fair
  <2> QED BY <1>4, <2>1, HandleResendRequestPolite DEF Process
<1>5. CASE m.type = "Reject"
  BY <1>5, Itself DEF Process, HandleReject
<1>6. CASE m.type = "Logout"
  <2>1. Process(e, m).net # "up"
    BY <1>6, HandleLogoutCloses DEF Process
  <2> QED BY <2>1, ClosedPolite
<1>7. CASE m.type = "Heartbeat"
  BY <1>7, HandleHeartbeatPolite DEF Process
<1>8. CASE m.type \in {"OtherAdmin", "OtherApp"}
  BY <1>8, HandleOtherPolite DEF Process
<1> QED BY <1>0, <1>1, <1>2, <1>3, <1>4, <1>5, <1>6, <1>7, <1>8 DEF Types

LEMMA TakenPolite ==
    ASSUME NEW e \in Engines, NEW m \in Messages, NEW n, Fair(m, n), ~Fills(m)
    PROVE  LET f == Taken(e, m) IN Polite(e, f) \/ (m.type = "Logon" /\ Answers(e, f))
<1> DEFINE f == IF m.seq = Expected(e) THEN [e EXCEPT !.gap = None] ELSE e
           g == IF m.type \in {"Logon", "Logout", "SequenceReset"} THEN f
                ELSE [f EXCEPT !.store = IncrementIn(f.store)]
<1>1. Taken(e, m) = Process(g, m)
  BY DEF Taken
<1>2. SameSession(e, f) /\ f.store = e.store
  <2>1. e.store \in Stores /\ None \in Nat
    BY DEF Engines, None
  <2> QED BY <2>1, ChangeFacts DEF SameSession
<1> HIDE DEF f
<1>3. SameSession(f, g) /\ g.store.out = f.store.out
  <2>1. f \in Engines /\ f.store \in Stores /\ f.gap \in Nat
    BY <1>2 DEF SameSession, Engines
  <2>2. IncrementIn(f.store) \in Stores /\ IncrementIn(f.store).out = f.store.out
    BY <2>1, StepFacts
  <2> QED BY <2>1, <2>2, ChangeFacts DEF SameSession
<1> HIDE DEF g
<1>4. SameSession(e, g) /\ g.store.out = e.store.out
  BY <1>2, <1>3 DEF SameSession
<1>5. g \in Engines
  BY <1>4 DEF SameSession
<1>6. Polite(g, Process(g, m)) \/ (m.type = "Logon" /\ Answers(g, Process(g, m)))
  BY <1>5, ProcessPolite
<1> QED BY <1>1, <1>4, <1>6, PoliteAfter, AnswersAfter

LEMMA ResetLogonPolite ==
    ASSUME NEW e \in Engines, NEW m \in Messages
    PROVE  Polite(e, ResetLogon(e, m)) \/ Answers(e, ResetLogon(e, m))
<1> DEFINE store == SetIn(e.store, 2)
           d == [e EXCEPT !.store = store]
<1>1. e.store \in Stores /\ e.gap \in Nat /\ 2 \in Digits
  BY DEF Engines, Digits
<1>2. ResetLogon(e, m) = HandleLogon(d, m)
  BY DEF ResetLogon
<1>3. store \in Stores /\ store.out = e.store.out
  BY <1>1, SetFacts
<1> HIDE DEF store
<1>4. SameSession(e, d) /\ d.store.out = e.store.out
  BY <1>1, <1>3, ChangeFacts
<1> HIDE DEF d
<1>5. Polite(d, HandleLogon(d, m)) \/ Answers(d, HandleLogon(d, m))
  BY <1>4, HandleLogonPolite DEF SameSession
<1> QED BY <1>2, <1>4, <1>5, PoliteAfter, AnswersAfter

LEMMA FilledToPolite ==
    ASSUME NEW e \in Engines, NEW m \in Messages
    PROVE  Polite(e, FilledTo(e, m))
<1> DEFINE store == SetIn(e.store, m.new)
           d == [e EXCEPT !.store = store]
<1>1. e.store \in Stores /\ e.gap \in Nat /\ m.new \in Digits
  BY DEF Engines, Messages
<1>2. FilledTo(e, m) = e \/ FilledTo(e, m) = d
  BY DEF FilledTo
<1>3. store \in Stores /\ store.out = e.store.out
  BY <1>1, SetFacts
<1> HIDE DEF store
<1>4. SameSession(e, d) /\ d.store.out = e.store.out
  BY <1>1, <1>3, ChangeFacts
<1> HIDE DEF d
<1> QED BY <1>2, <1>4, Itself, PoliteAfter DEF SameSession

LEMMA TooHighPolite ==
    ASSUME NEW e \in Engines, NEW m \in Messages
    PROVE  Polite(e, TooHigh(e))
<1>1. CASE e.gap = Expected(e)
  BY <1>1, Itself DEF TooHigh
<1>2. CASE e.gap # Expected(e)
  <2> DEFINE base == fixmsg("ResendRequest")
             ask == [base EXCEPT !.begin = e.store.in, !.end = 0]
             f == Send(e, ask)
             g == [f EXCEPT !.gap = e.store.in]
  <2>1. TooHigh(e) = g
    BY <1>2 DEF TooHigh, Expected
  <2>2. /\ base \in Messages /\ base.type = "ResendRequest" /\ base.seq = Bad /\ ~base.poss
    BY FixmsgFacts DEF Types
  <2> HIDE DEF base
  <2>3. e.store.in \in Nat
    BY CounterFacts
  <2>4. /\ ask \in Messages /\ ask.type = "ResendRequest" /\ ask.seq = Bad /\ ~ask.poss
        /\ ask.end = 0
    BY <2>2, <2>3 DEF Messages, Digits
  <2> HIDE DEF ask
  <2>5. Decent(ask, e.store.out)
    BY <2>4 DEF Decent, Resets
  <2>6. Polite(e, f) /\ f \in Engines
    BY <2>4, <2>5, SendPolite
  <2> HIDE DEF f
  <2>7. f.store \in Stores
    BY <2>6 DEF Engines
  <2>8. SameSession(f, g) /\ g.store = f.store
    BY <2>3, <2>6, <2>7, ChangeFacts
  <2> HIDE DEF g
  <2>9. g \in Engines /\ Polite(f, g)
    BY <2>6, <2>8, BeforehandPolite
  <2> QED BY <2>1, <2>6, <2>9, PoliteChain
<1> QED BY <1>1, <1>2

LEMMA ProcessSinglePolite ==
    ASSUME NEW e \in Engines, NEW m \in Messages, NEW n \in Nat, Fair(m, n)
    PROVE  LET f == ProcessSingle(e, m) IN
           Polite(e, f) \/ (m.type = "Logon" /\ Answers(e, f))
<1>1. m.seq # Bad
  BY DEF Fair, Bad, Messages, Digits
<1>2. CASE Fills(m)
  BY <1>1, <1>2, FilledToPolite DEF ProcessSingle, Fills
<1>3. CASE ~Fills(m) /\ m.type = "Logon" /\ m.reset
  <2>1. ProcessSingle(e, m) = ResetLogon(e, m)
    BY <1>1, <1>3 DEF ProcessSingle
  <2> QED BY <1>3, <2>1, ResetLogonPolite
<1>4. CASE ~Fills(m) /\ ~(m.type = "Logon" /\ m.reset)
  <2>1. \/ ProcessSingle(e, m) = TooHigh(e)
        \/ ProcessSingle(e, m) = SendLogout(e)
        \/ ProcessSingle(e, m) = Taken(e, m)
    <3>1. ProcessSingle(e, m) =
            CASE m.seq > Expected(e)            -> TooHigh(e)
              [] m.seq < Expected(e) /\ ~m.poss -> SendLogout(e)
              [] OTHER                          -> Taken(e, m)
      BY <1>1, <1>4 DEF ProcessSingle
    <3>2. ~(m.seq > Expected(e) /\ m.seq < Expected(e))
      <4>1. m.seq \in Int /\ Expected(e) \in Int
        BY <1>1, CounterFacts DEF Messages, Digits, Expected
      <4> QED BY <4>1
    <3> QED BY <3>1, <3>2
  <2> QED BY <1>4, <2>1, TooHighPolite, SendLogoutPolite, TakenPolite
<1> QED BY <1>2, <1>3, <1>4

-----------------------------------------------------------------------------
(* What a fair message makes of the engine that receives it: it is ACTIVE   *)
(* only if it was before or the message is a Logon, and then it expects no   *)
(* number beyond the sender's next. *)
LEMMA ActiveAfter ==
    ASSUME NEW e \in Engines, NEW m \in Messages, ProcessSingle(e, m).st = "ACTIVE"
    PROVE  e.st = "ACTIVE" \/ m.type = "Logon"
<1> DEFINE f == ProcessSingle(e, m)
<1>1. \/ PassedOver(e, m, f) \/ FilledUp(e, m, f) \/ BegunAnew(e, m, f)
      \/ Asked(e, m, f) \/ TakenUp(e, m, f)
  BY FiveOutcomes
<1>2. f.st = "ACTIVE"
  OBVIOUS
<1> HIDE DEF f
<1> QED BY <1>1, <1>2 DEF PassedOver, Continues, FilledUp, SameSession, BegunAnew, Asked, TakenUp

LEMMA ExpectedAfter ==
    ASSUME NEW e \in Engines, NEW m \in Messages, NEW n \in Nat, Fair(m, n),
           e.st = "ACTIVE" => e.store.in <= n,
           ProcessSingle(e, m).st = "ACTIVE"
    PROVE  ProcessSingle(e, m).store.in <= n
<1> DEFINE f == ProcessSingle(e, m)
<1>0. /\ m.seq \in Nat /\ m.seq >= 1 /\ m.seq < n /\ ~m.poss /\ m.seq # Bad
      /\ e.store.in \in Nat /\ f.st = "ACTIVE"
  BY CounterFacts DEF Fair, Bad, Messages, Digits
<1>1. CASE Fills(m)
  <2>1. f = FilledTo(e, m)
    BY <1>0, <1>1 DEF ProcessSingle, Fills
  <2>2. m.new \in Nat /\ m.new >= 1 /\ m.new <= n
    BY <1>1 DEF Fair, Fills, Messages, Digits, Bad
  <2> DEFINE store == SetIn(e.store, m.new)
             d == [e EXCEPT !.store = store]
  <2>3. f = e \/ f = d
    BY <2>1 DEF FilledTo
  <2>4. e.store \in Stores /\ m.new \in Digits /\ e.gap \in Nat
    BY DEF Engines, Messages
  <2>5. store \in Stores /\ store.in = m.new
    BY <2>2, <2>4, SetFacts
  <2> HIDE DEF store
  <2>6. SameSession(e, d) /\ d.store = store
    BY <2>4, <2>5, ChangeFacts
  <2> HIDE DEF d, f
  <2> QED BY <1>0, <2>2, <2>3, <2>5, <2>6 DEF f
<1>2. CASE ~Fills(m)
  <2>1. PassedOver(e, m, f) \/ BegunAnew(e, m, f) \/ Asked(e, m, f) \/ TakenUp(e, m, f)
    BY <1>2, FiveOutcomes DEF FilledUp
  <2> HIDE DEF f
  <2>2. CASE PassedOver(e, m, f)
    <3>1. e.st = "ACTIVE" /\ f.store.in = e.store.in
      BY <1>0, <2>2 DEF PassedOver, Continues, Keeps, Holds
    <3> QED BY <3>1 DEF f
  <2>3. CASE BegunAnew(e, m, f)
    <3>1. f.store.in \in {1, 2}
      BY <2>3 DEF BegunAnew, Keeps, Holds
    <3> QED BY <1>0, <3>1 DEF f
  <2>4. CASE Asked(e, m, f)
    <3>1. e.st = "ACTIVE" /\ f.store.in = e.store.in
      BY <1>0, <2>4 DEF Asked, Holds
    <3> QED BY <3>1 DEF f
  <2>5. CASE TakenUp(e, m, f)
    <3>1. m.type = "SequenceReset" => m.fill
      BY DEF Fair
    <3>2. PICK d : Keeps(d, f) /\ Counts(e, m, d)
      BY <2>5 DEF TakenUp
    <3>3. m.seq = e.store.in /\ f.store.in = d.store.in
      BY <1>0, <2>5, <3>2 DEF TakenUp, Keeps, Holds
    <3>4. d.store.in \in {e.store.in, e.store.in + 1}
      BY <3>1, <3>2 DEF Counts
    <3> QED BY <1>0, <3>3, <3>4 DEF f
  <2> QED BY <2>1, <2>2, <2>3, <2>4, <2>5
<1> QED BY <1>1, <1>2

-----------------------------------------------------------------------------
(* The invariant.  Only Connects brings the two networks up, so while both   *)
(* are up they are the ends of one connection. *)
BothUp == eng[I].net = "up" /\ eng[A].net = "up"

(* What has been sent to s and is not processed yet. *)
Underway(s) == Range(eng[s].buf) \cup Range(chan[s])

LogonTo(s) == \E m \in Underway(s) : m.type = "Logon"

PairTypes ==
    /\ eng \in [Sides -> Engines]
    /\ \A s \in Sides : eng[s].mode = s /\ eng[s].sent = <<>>
    /\ chan \in [Sides -> Seq(Messages)]
    /\ reading \in [Sides -> {"off", "wait", "busy"}]
    /\ reading[A] = "off" => eng[A].st = "DISCONNECTED"

AllFair ==
    BothUp => \A s \in Sides : \A m \in Underway(s) : Fair(m, NextOut(eng[Other(s)]))

(* The initiator's Logon is the first message, and nothing else is sent     *)
(* before it is processed. *)
LogonComesFirst ==
    BothUp /\ LogonTo(A) =>
        /\ eng[I].st = "LOGON_IN_PROGRESS" /\ eng[I].buf = <<>> /\ chan[I] = <<>>
        /\ eng[A].st = "AWAITING_LOGON"
        /\ \/ Len(eng[A].buf) = 1 /\ chan[A] = <<>>
           \/ eng[A].buf = <<>> /\ Len(chan[A]) = 1

(* The acceptor's Logon is an answer, and the initiator becomes ACTIVE by it. *)
LogonIsAnswered ==
    BothUp /\ (eng[I].st = "ACTIVE" \/ LogonTo(I)) =>
        eng[A].st # "AWAITING_LOGON" /\ ~LogonTo(A)

ActiveNotAhead ==
    BothUp => \A s \in Sides :
                eng[s].st = "ACTIVE" => Expected(eng[s]) <= NextOut(eng[Other(s)])

PairInv == PairTypes /\ AllFair /\ LogonComesFirst /\ LogonIsAnswered /\ ActiveNotAhead

LEMMA SidesFacts ==
    /\ I = "initiator" /\ A = "acceptor" /\ I # A /\ Sides = {I, A}
    /\ Other(I) = A /\ Other(A) = I
    /\ \A s \in Sides : Other(s) \in Sides /\ Other(s) # s /\ Other(Other(s)) = s
BY DEF Sides, Other, I, A

LEMMA Apart ==
    ASSUME PairTypes, ~BothUp
    PROVE  PairInv
BY DEF PairInv, AllFair, LogonComesFirst, LogonIsAnswered, ActiveNotAhead

LEMMA RangeFacts ==
    ASSUME NEW e \in Engines
    PROVE  /\ Range(e.sent) \subseteq Messages /\ Range(e.buf) \subseteq Messages
           /\ FairlySent(e) => \A m \in Range(e.sent) : Fair(m, e.store.out)
           /\ Unlogged(e) => \A m \in Range(e.sent) : m.type # "Logon"
<1>1. e.sent \in Seq(Messages) /\ e.buf \in Seq(Messages)
  BY DEF Engines
<1>2. Range(e.sent) = {e.sent[i] : i \in 1 .. Len(e.sent)}
  BY <1>1, RangeEquality
<1> QED BY <1>1, <1>2, RangeOfSeq DEF FairlySent, Unlogged

LEMMA UnderwayFacts ==
    ASSUME PairTypes, NEW s \in Sides PROVE Underway(s) \subseteq Messages
<1>1. eng[s] \in Engines /\ chan[s] \in Seq(Messages)
  BY DEF PairTypes
<1> QED BY <1>1, RangeFacts, RangeOfSeq DEF Underway

LEMMA EmptyRange == Range(<<>>) = {}
BY DEF Range

(* Side s goes on as f. *)
LEMMA BecomesFacts ==
    ASSUME PairTypes, NEW s \in Sides, NEW f \in Engines, f.mode = s, Becomes(s, f),
           reading' = reading, s = A /\ reading[A] = "off" => f.st = "DISCONNECTED"
    PROVE  /\ PairTypes'
           /\ LET g == eng'[s] IN
              /\ g.st = f.st /\ g.net = f.net /\ g.store = f.store /\ g.buf = f.buf
           /\ eng'[Other(s)] = eng[Other(s)] /\ chan'[s] = chan[s]
           /\ chan'[Other(s)] = chan[Other(s)] \/ chan'[Other(s)] = chan[Other(s)] \o f.sent
<1> DEFINE g == [f EXCEPT !.sent = <<>>, !.told = <<>>]
           o == Other(s)
<1>1. /\ g \in Engines /\ g.st = f.st /\ g.net = f.net /\ g.store = f.store /\ g.buf = f.buf
      /\ g.mode = s /\ g.sent = <<>>
  <2>1. <<>> \in Seq(Messages)
    OBVIOUS
  <2> QED BY <2>1 DEF Engines
<1>2. eng' = [eng EXCEPT ![s] = g]
  BY DEF Becomes
<1> HIDE DEF g
<1>3. o \in Sides /\ o # s /\ Sides = {s, o}
  BY SidesFacts
<1>4. \/ chan' = [chan EXCEPT ![o] = chan[o] \o f.sent]
      \/ chan' = chan
  BY DEF Becomes
<1> HIDE DEF o
<1>5. eng'[s] = g /\ eng'[o] = eng[o] /\ eng' \in [Sides -> Engines]
  BY <1>1, <1>2, <1>3 DEF PairTypes
<1>6. f.sent \in Seq(Messages) /\ chan \in [Sides -> Seq(Messages)]
  BY DEF Engines, PairTypes
<1>7. chan[o] \o f.sent \in Seq(Messages)
  BY <1>3, <1>6, ConcatProperties
<1>8. /\ chan' \in [Sides -> Seq(Messages)] /\ chan'[s] = chan[s]
      /\ chan'[o] = chan[o] \/ chan'[o] = chan[o] \o f.sent
  BY <1>3, <1>4, <1>6, <1>7
<1>9. PairTypes'
  <2>1. \A t \in Sides : eng'[t].mode = t /\ eng'[t].sent = <<>>
    BY <1>1, <1>3, <1>5 DEF PairTypes
  <2>2. reading'[A] = "off" => eng'[A].st = "DISCONNECTED"
    <3>1. A \in Sides
      BY SidesFacts
    <3> QED BY <1>1, <1>3, <1>5, <3>1 DEF PairTypes
  <2> QED BY <1>5, <1>8, <2>1, <2>2 DEF PairTypes
<1> QED BY <1>1, <1>5, <1>8, <1>9 DEF o

(* A step of one side that is polite.  Either no Logon is on its way to the *)
(* acceptor, or this step takes the last that was. *)
PoliteStep(s, f) ==
    /\ Polite(eng[s], f)
    /\ Range(f.buf) \subseteq Range(eng[s].buf)
    /\ BothUp /\ f.net = "up" =>
         /\ f.st = "ACTIVE" => /\ eng[s].st = "ACTIVE" \/ LogonTo(s)
                              /\ f.store.in <= NextOut(eng[Other(s)])
         /\ LogonTo(A) => s = A /\ f.buf = <<>> /\ chan[A] = <<>>

LEMMA PoliteKeeps ==
    ASSUME PairInv, NEW s \in Sides, NEW f \in Engines, f.mode = s, Becomes(s, f),
           reading' = reading, s = A /\ reading[A] = "off" => f.st = "DISCONNECTED",
           PoliteStep(s, f)
    PROVE  PairInv'
<1> DEFINE e == eng[s]
           o == Other(s)
<1>0. PairTypes /\ e \in Engines /\ e.sent = <<>> /\ eng[o] \in Engines
  BY SidesFacts DEF PairInv, PairTypes
<1>1. /\ PairTypes'
      /\ eng'[s].st = f.st /\ eng'[s].net = f.net /\ eng'[s].store = f.store
      /\ eng'[s].buf = f.buf /\ eng'[o] = eng[o] /\ chan'[s] = chan[s]
      /\ chan'[o] = chan[o] \/ chan'[o] = chan[o] \o f.sent
  BY <1>0, BecomesFacts
<1>2. s \in Sides /\ o \in Sides /\ o # s /\ Sides = {s, o} /\ Other(o) = s /\ Sides = {I, A}
      /\ I # A
  BY SidesFacts
<1>3. SUFFICES ASSUME BothUp' PROVE PairInv'
  BY <1>1, Apart, PTL
<1>4. BothUp /\ e.net = "up" /\ f.net = "up"
  BY <1>1, <1>2, <1>3 DEF BothUp, PoliteStep, Polite
<1>5. /\ f.store.out >= e.store.out /\ FairlySent(f) /\ Unlogged(f)
      /\ f.st = "AWAITING_LOGON" => e.st = "AWAITING_LOGON"
  BY <1>0, <1>4 DEF PoliteStep, Polite, FairlySent, Unlogged
<1>6. /\ f.st = "ACTIVE" => (e.st = "ACTIVE" \/ LogonTo(s)) /\ f.store.in <= NextOut(eng[o])
      /\ LogonTo(A) => s = A /\ f.buf = <<>> /\ chan[A] = <<>>
  BY <1>4 DEF PoliteStep
<1>7. /\ \A m \in Range(f.sent) : m \in Messages /\ Fair(m, f.store.out) /\ m.type # "Logon"
      /\ Range(f.buf) \subseteq Range(e.buf)
  BY <1>5, RangeFacts DEF PoliteStep
<1>8. Underway(s)' \subseteq Underway(s)
  BY <1>1, <1>7 DEF Underway
<1>9. Underway(o)' \subseteq Underway(o) \cup Range(f.sent)
  <2>1. chan[o] \in Seq(Messages) /\ f.sent \in Seq(Messages)
    BY <1>0, <1>2 DEF PairTypes, Engines
  <2>2. Range(chan[o] \o f.sent) = Range(chan[o]) \cup Range(f.sent)
    BY <2>1, RangeConcatenation
  <2> QED BY <1>1, <2>2 DEF Underway
<1>10. Underway(s) \subseteq Messages /\ Underway(o) \subseteq Messages
  BY <1>0, <1>2, UnderwayFacts
<1>11. /\ e.store.out \in Nat /\ f.store.out \in Nat /\ eng[o].store.out \in Nat
       /\ eng[o].store.in \in Nat /\ e.store.in \in Nat
  BY <1>0, CounterFacts
<1>12. LogonTo(s)' => LogonTo(s)
  BY <1>8 DEF LogonTo
<1>13. LogonTo(o)' => LogonTo(o)
  BY <1>7, <1>9 DEF LogonTo
<1>14. /\ AllFair /\ LogonComesFirst /\ LogonIsAnswered /\ ActiveNotAhead
  BY DEF PairInv
<1> HIDE DEF e, o
<1>15. AllFair'
  <2>1. ASSUME NEW m \in Underway(s)' PROVE Fair(m, NextOut(eng'[o]))
    <3>1. m \in Underway(s) /\ Fair(m, NextOut(eng[o]))
      BY <1>2, <1>4, <1>8, <1>14, <2>1 DEF AllFair, o
    <3> QED BY <1>1, <3>1
  <2>2. ASSUME NEW m \in Underway(o)' PROVE Fair(m, NextOut(eng'[s]))
    <3>1. CASE m \in Range(f.sent)
      BY <1>1, <1>7, <3>1 DEF NextOut
    <3>2. CASE m \in Underway(o)
      <4>1. m \in Messages /\ Fair(m, e.store.out)
        BY <1>2, <1>4, <1>10, <1>14, <3>2 DEF AllFair, NextOut, e
      <4>2. Fair(m, f.store.out)
        BY <1>5, <1>11, <4>1, FairLater
      <4> QED BY <1>1, <4>2 DEF NextOut
    <3> QED BY <1>9, <3>1, <3>2
  <2> QED BY <1>2, <2>1, <2>2 DEF AllFair, o
<1>16. LogonTo(A)' => LogonTo(A) /\ (LogonTo(I)' => LogonTo(I))
  BY <1>2, <1>12, <1>13
<1>17. ~LogonTo(A)'
  <2> SUFFICES ASSUME LogonTo(A)' PROVE FALSE
    OBVIOUS
  <2>1. s = A /\ f.buf = <<>> /\ chan[A] = <<>>
    BY <1>6, <1>16
  <2>2. Range(f.buf) = {} /\ Range(chan[A]) = {}
    BY <2>1, EmptyRange
  <2>3. Underway(A)' = {}
    BY <1>1, <2>1, <2>2 DEF Underway
  <2> QED BY <2>3 DEF LogonTo
<1>18. LogonComesFirst'
  BY <1>17 DEF LogonComesFirst
<1>19. LogonIsAnswered'
  <2> SUFFICES ASSUME eng'[I].st = "ACTIVE" \/ LogonTo(I)'
               PROVE  eng'[A].st # "AWAITING_LOGON"
    BY <1>17 DEF LogonIsAnswered
  <2>1. eng[I].st = "ACTIVE" \/ LogonTo(I)
    BY <1>1, <1>2, <1>6, <1>12, <1>13 DEF e, o
  <2>2. eng[A].st # "AWAITING_LOGON"
    BY <1>4, <1>14, <2>1 DEF LogonIsAnswered
  <2> QED BY <1>1, <1>2, <1>5, <2>2 DEF e
<1>20. ActiveNotAhead'
  <2>1. eng'[s].st = "ACTIVE" => Expected(eng'[s]) <= NextOut(eng'[o])
    BY <1>1, <1>6 DEF Expected
  <2>2. eng'[o].st = "ACTIVE" => Expected(eng'[o]) <= NextOut(eng'[s])
    <3> SUFFICES ASSUME eng[o].st = "ACTIVE" PROVE eng[o].store.in <= f.store.out
      BY <1>1 DEF Expected, NextOut
    <3>1. eng[o].store.in <= e.store.out
      BY <1>2, <1>4, <1>14 DEF ActiveNotAhead, Expected, NextOut, e
    <3> QED BY <1>5, <1>11, <3>1
  <2> QED BY <1>2, <2>1, <2>2 DEF ActiveNotAhead, o
<1> QED BY <1>1, <1>15, <1>18, <1>19, <1>20 DEF PairInv

-----------------------------------------------------------------------------
(* The receive loop.  A message that has been received is processed. *)
LEMMA SingleFacts ==
    ASSUME NEW e \in Engines, NEW m \in Messages
    PROVE  LET f == ProcessSingle(e, m) IN
           /\ f \in Engines /\ f.mode = e.mode /\ f.buf \in {e.buf, <<>>}
           /\ f.net = "up" => e.net = "up"
<1> DEFINE f == ProcessSingle(e, m)
<1>1. \/ PassedOver(e, m, f) \/ FilledUp(e, m, f) \/ BegunAnew(e, m, f)
      \/ Asked(e, m, f) \/ TakenUp(e, m, f)
  BY FiveOutcomes
<1> HIDE DEF f
<1>2. SameSession(e, f) \/ \E d : SameSession(e, d) /\ Holds(d, f)
  <2>1. SameSession(e, e)
    BY DEF SameSession
  <2> QED BY <1>1, <2>1 DEF PassedOver, FilledUp, BegunAnew, Asked, TakenUp, Continues, Keeps
<1>3. /\ f \in Engines /\ f.mode = e.mode /\ f.buf \in {e.buf, <<>>}
      /\ f.net = "up" => e.net = "up"
  <2>1. CASE SameSession(e, f)
    BY <2>1 DEF SameSession
  <2>2. ASSUME NEW d, SameSession(e, d), Holds(d, f)
        PROVE  /\ f \in Engines /\ f.mode = e.mode /\ f.buf \in {e.buf, <<>>}
               /\ f.net = "up" => e.net = "up"
    BY <2>2 DEF SameSession, Holds
  <2> QED BY <1>2, <2>1, <2>2
<1> QED BY <1>3 DEF f

LEMMA NextInvolved ==
    ASSUME NEW e \in Engines, e.buf # <<>>
    PROVE  LET f == ProcessNext(e)
               g == ProcessSingle(e, Head(e.buf)) IN
           /\ Head(e.buf) \in Messages /\ f \in Engines /\ f.mode = e.mode
           /\ f.net = "up" => e.net = "up"
           /\ f.st = g.st /\ f.net = g.net /\ f.store = g.store /\ f.sent = g.sent
           /\ f.buf \in {<<>>, Tail(e.buf)}
<1> DEFINE f == ProcessNext(e)
           g == ProcessSingle(e, Head(e.buf))
<1>1. Head(e.buf) \in Messages
  BY NextFacts
<1>2. g \in Engines /\ g.mode = e.mode /\ g.buf \in {e.buf, <<>>} /\ (g.net = "up" => e.net = "up")
  BY <1>1, SingleFacts
<1>3. /\ f \in Engines /\ f.mode = g.mode /\ f.st = g.st /\ f.net = g.net
      /\ f.store = g.store /\ f.sent = g.sent
      /\ g.buf = <<>> => f.buf = <<>>
      /\ f.buf \in {<<>>, Tail(g.buf)}
  BY <1>2, NextFacts
<1> HIDE DEF f, g
<1>4. f.buf \in {<<>>, Tail(e.buf)}
  BY <1>2, <1>3
<1> QED BY <1>1, <1>2, <1>3, <1>4 DEF f, g

(* The acceptor answers the initiator's Logon, the only message under way. *)
LEMMA AnswerKeeps ==
    ASSUME PairInv, NEW f \in Engines, f.mode = A, Becomes(A, f), reading' = reading,
           reading[A] # "off", BothUp => LogonTo(A),
           f.net = "up" => eng[A].net = "up", f.buf = <<>>, chan[A] = <<>>,
           Answers(eng[A], f), BothUp /\ f.st = "ACTIVE" => f.store.in <= NextOut(eng[I])
    PROVE  PairInv'
<1>0. A \in Sides /\ I \in Sides /\ Other(A) = I /\ Other(I) = A /\ A # I /\ Sides = {I, A}
  BY SidesFacts
<1>1. PairTypes /\ eng[A] \in Engines /\ eng[A].sent = <<>>
  BY <1>0 DEF PairInv, PairTypes
<1>2. /\ PairTypes'
      /\ eng'[A].st = f.st /\ eng'[A].net = f.net /\ eng'[A].store = f.store
      /\ eng'[A].buf = f.buf /\ eng'[I] = eng[I] /\ chan'[A] = chan[A]
      /\ chan'[I] = chan[I] \/ chan'[I] = chan[I] \o f.sent
  BY <1>0, <1>1, BecomesFacts
<1>3. SUFFICES ASSUME BothUp' PROVE PairInv'
  BY <1>2, Apart, PTL
<1>4. BothUp /\ f.net = "up"
  BY <1>0, <1>2, <1>3 DEF BothUp
<1>5. /\ eng[I].st = "LOGON_IN_PROGRESS" /\ eng[I].buf = <<>> /\ chan[I] = <<>>
      /\ eng[A].st = "AWAITING_LOGON"
  BY <1>4 DEF PairInv, LogonComesFirst
<1>6. FairlySent(f) /\ f.st # "AWAITING_LOGON"
  BY <1>1, <1>4 DEF Answers
<1>7. Underway(A)' = {}
  BY <1>2, EmptyRange DEF Underway
<1>8. Underway(I)' \subseteq Range(f.sent)
  <2>1. f.sent \in Seq(Messages)
    BY DEF Engines
  <2>2. chan'[I] = <<>> \/ chan'[I] = f.sent
    BY <1>2, <1>5, <2>1, ConcatEmptySeq
  <2> QED BY <1>2, <1>5, <2>2, EmptyRange DEF Underway
<1>9. AllFair'
  <2>1. ASSUME NEW m \in Underway(I)' PROVE Fair(m, NextOut(eng'[A]))
    BY <1>2, <1>6, <1>8, RangeFacts DEF NextOut
  <2> QED BY <1>0, <1>7, <2>1 DEF AllFair
<1>10. ~LogonTo(A)'
  BY <1>7 DEF LogonTo
<1>11. ActiveNotAhead'
  BY <1>0, <1>2, <1>4, <1>5 DEF ActiveNotAhead, Expected
<1> QED BY <1>2, <1>6, <1>9, <1>10, <1>11 DEF PairInv, LogonComesFirst, LogonIsAnswered

LEMMA HeadAndTail ==
    ASSUME NEW s \in Seq(Messages), s # <<>>
    PROVE  /\ Head(s) \in Range(s) /\ Range(Tail(s)) \subseteq Range(s)
           /\ Len(s) = 1 => Tail(s) = <<>>
<1>1. /\ Head(s) = s[1] /\ Len(s) \in Nat /\ Len(s) >= 1 /\ Tail(s) \in Seq(Messages)
      /\ Len(Tail(s)) = Len(s) - 1
      /\ \A i \in 1 .. Len(Tail(s)) : Tail(s)[i] = s[i + 1]
  BY HeadTailProperties, EmptySeq
<1>2. Range(s) = {s[i] : i \in 1 .. Len(s)} /\ Range(Tail(s)) = {Tail(s)[i] : i \in 1 .. Len(Tail(s))}
  BY <1>1, RangeEquality
<1>3. Head(s) \in Range(s)
  BY <1>1, <1>2
<1>4. ASSUME NEW i \in 1 .. Len(Tail(s)) PROVE Tail(s)[i] \in Range(s)
  <2>1. i + 1 \in 1 .. Len(s)
    BY <1>1
  <2> QED BY <1>1, <1>2, <2>1
<1> QED BY <1>1, <1>2, <1>3, <1>4, EmptySeq

LEMMA ProcessesKeeps ==
    ASSUME PairInv, NEW s \in Sides, Processes(s)
    PROVE  PairInv'
<1> DEFINE e == eng[s]
           o == Other(s)
           m == Head(e.buf)
           f == ProcessNext(e)
           g == ProcessSingle(e, m)
<1>1. /\ reading[s] = "busy" /\ e.buf # <<>> /\ Becomes(s, f) /\ reading' = reading
  BY DEF Processes
<1>2. /\ PairTypes /\ e \in Engines /\ e.sent = <<>> /\ e.mode = s /\ e.buf \in Seq(Messages)
      /\ eng[o] \in Engines
  BY SidesFacts DEF PairInv, PairTypes, Engines
<1>3. /\ m \in Messages /\ f \in Engines /\ f.mode = s /\ (f.net = "up" => e.net = "up")
      /\ f.st = g.st /\ f.net = g.net /\ f.store = g.store /\ f.sent = g.sent
      /\ f.buf \in {<<>>, Tail(e.buf)}
  BY <1>1, <1>2, NextInvolved
<1>4. /\ m \in Range(e.buf) /\ Range(f.buf) \subseteq Range(e.buf)
      /\ Len(e.buf) = 1 => f.buf = <<>>
  BY <1>1, <1>2, <1>3, HeadAndTail, EmptyRange
<1>5. s \in Sides /\ o \in Sides /\ I # A /\ Sides = {I, A} /\ Other(A) = I /\ A = "acceptor"
  BY SidesFacts
<1>6. CASE ~BothUp
  <2>1. PairTypes' /\ eng'[s].net = f.net /\ eng'[o] = eng[o]
    BY <1>1, <1>2, <1>3, BecomesFacts
  <2>2. ~BothUp'
    BY <1>3, <1>5, <1>6, <2>1, SidesFacts DEF BothUp
  <2> QED BY <2>1, <2>2, Apart, PTL
<1>7. CASE BothUp
  <2>1. Fair(m, NextOut(eng[o])) /\ m \in Underway(s)
    BY <1>4, <1>7 DEF PairInv, AllFair, Underway
  <2>2. NextOut(eng[o]) \in Nat
    BY <1>2, CounterFacts DEF NextOut
  <2>3. m.type = "Logon" => LogonTo(s)
    BY <2>1 DEF LogonTo
  <2>4. e.st = "ACTIVE" => e.store.in <= NextOut(eng[o])
    BY <1>7 DEF PairInv, ActiveNotAhead, Expected
  <2>5. f.st = "ACTIVE" => /\ e.st = "ACTIVE" \/ LogonTo(s)
                          /\ f.store.in <= NextOut(eng[o])
    BY <1>2, <1>3, <2>1, <2>2, <2>3, <2>4, ActiveAfter, ExpectedAfter
  <2>6. LogonTo(A) => s = A /\ f.buf = <<>> /\ chan[A] = <<>>
    <3> SUFFICES ASSUME LogonTo(A) PROVE s = A /\ f.buf = <<>> /\ chan[A] = <<>>
      OBVIOUS
    <3>1. /\ eng[I].buf = <<>>
          /\ \/ Len(eng[A].buf) = 1 /\ chan[A] = <<>>
             \/ eng[A].buf = <<>> /\ Len(chan[A]) = 1
      BY <1>7 DEF PairInv, LogonComesFirst
    <3>2. s = A
      BY <1>1, <1>5, <3>1
    <3> QED BY <1>1, <1>4, <3>1, <3>2
  <2>7. CASE Polite(e, g)
    <3>1. Polite(e, f)
      BY <1>3, <2>7 DEF Polite, FairlySent, Unlogged
    <3>2. PoliteStep(s, f)
      BY <1>4, <2>5, <2>6, <3>1 DEF PoliteStep
    <3> HIDE DEF f
    <3> QED BY <1>1, <1>3, <3>2, PoliteKeeps
  <2>8. CASE m.type = "Logon" /\ Answers(e, g)
    <3>1. Answers(e, f) /\ s = A
      BY <1>2, <1>3, <1>5, <2>8 DEF Answers, FairlySent
    <3>2. LogonTo(A) /\ f.buf = <<>> /\ chan[A] = <<>>
      BY <2>3, <2>6, <2>8, <3>1
    <3>3. f.st = "ACTIVE" => f.store.in <= NextOut(eng[I])
      BY <1>5, <2>5, <3>1
    <3> HIDE DEF f
    <3> QED BY <1>1, <1>3, <3>1, <3>2, <3>3, AnswerKeeps
  <2> QED BY <1>2, <1>3, <2>1, <2>2, <2>7, <2>8, ProcessSinglePolite
<1> QED BY <1>6, <1>7

-----------------------------------------------------------------------------
(* Timers and the application. *)
LEMMA TaskPolite ==
    ASSUME NEW e \in Engines, NEW id \in Nat
    PROVE  /\ Polite(e, HeartbeatDue(e)) /\ Polite(e, TestRequestDue(e, id))
           /\ Polite(e, AppSend(e, id))
<1>1. e.testId \in Nat
  BY DEF Engines
<1>2. {"Heartbeat", "TestRequest", "App"}
        \subseteq Types \ {"Logon", "SequenceReset", "ResendRequest"}
  BY DEF Types
<1>3. Polite(e, HeartbeatDue(e)) /\ Polite(e, AppSend(e, id))
  BY <1>1, <1>2, SendWithIdPolite DEF HeartbeatDue, AppSend
<1>4. Polite(e, TestRequestDue(e, id))
  <2> DEFINE f == Send(e, [fixmsg("TestRequest") EXCEPT !.id = id])
             g == [f EXCEPT !.testId = id]
  <2>1. Polite(e, f) /\ f \in Engines
    BY <1>2, SendWithIdPolite
  <2>2. TestRequestDue(e, id) = g
    BY DEF TestRequestDue
  <2> HIDE DEF f
  <2>3. g \in Engines /\ g.sent = f.sent /\ g.net = f.net /\ g.store = f.store /\ g.st = f.st
    BY <2>1 DEF Engines
  <2> HIDE DEF g
  <2>4. Polite(f, g)
    BY <2>1, <2>3, CounterFacts, Silent
  <2> QED BY <2>1, <2>2, <2>3, <2>4, PoliteChain
<1> QED BY <1>3, <1>4

LEMMA RequestLogoffPolite ==
    ASSUME NEW e \in Engines PROVE Polite(e, RequestLogoff(e))
<1> DEFINE g == [e EXCEPT !.wait = "waiting"]
<1>1. RequestLogoff(e) = SendLogout(g)
  BY DEF RequestLogoff
<1>2. g \in Engines /\ g.sent = e.sent /\ g.net = e.net /\ g.store = e.store /\ g.st = e.st
  BY DEF Engines
<1> HIDE DEF g
<1>3. Polite(e, g)
  BY <1>2, CounterFacts, Silent
<1> QED BY <1>1, <1>2, <1>3, SendLogoutPolite, PoliteChain

LEMMA TimeoutCloses ==
    ASSUME NEW e \in Engines PROVE HeartbeatTimeout(e).net = "down"
<1>1. NetDown(e) \in Engines /\ NetDown(e).net = "down"
  BY NetDownFacts
<1>2. On(NetDown(e), "disconnect").net = "down"
  BY <1>1, OnFacts
<1>3. Disconnect(e).net = "down"
  BY DisconnectFacts DEF Ended
<1> QED BY <1>2, <1>3 DEF HeartbeatTimeout

(* A side that goes on logged on, or goes down. *)
LEMMA TimerKeeps ==
    ASSUME PairInv, NEW s \in Sides, NEW f \in Engines, Becomes(s, f), reading' = reading,
           Continues(eng[s], f), Polite(eng[s], f),
           f.net = "up" => eng[s].st \in {"ACTIVE", "LOGOUT_IN_PROGRESS"}
    PROVE  PairInv'
<1> DEFINE e == eng[s]
<1>1. /\ e \in Engines /\ e.mode = s /\ eng[A] \in Engines
      /\ reading[A] = "off" => eng[A].st = "DISCONNECTED"
  BY SidesFacts DEF PairInv, PairTypes
<1>2. /\ f.mode = s /\ f.buf \in {e.buf, <<>>} /\ f.store.in = e.store.in
      /\ f.st = "ACTIVE" => e.st = "ACTIVE"
      /\ e.st = "DISCONNECTED" => f.st = "DISCONNECTED"
  BY <1>1 DEF Continues, Keeps, Holds
<1>3. Range(f.buf) \subseteq Range(e.buf)
  BY <1>2, EmptyRange
<1>4. s = A /\ reading[A] = "off" => f.st = "DISCONNECTED"
  BY <1>1, <1>2
<1>5. ASSUME BothUp, f.net = "up"
      PROVE  /\ f.st = "ACTIVE" => f.store.in <= NextOut(eng[Other(s)])
             /\ ~LogonTo(A)
  <2>1. f.st = "ACTIVE" => f.store.in <= NextOut(eng[Other(s)])
    BY <1>2, <1>5 DEF PairInv, ActiveNotAhead, Expected
  <2>2. ~LogonTo(A)
    BY <1>5, SidesFacts DEF PairInv, LogonComesFirst
  <2> QED BY <2>1, <2>2
<1>6. PoliteStep(s, f)
  BY <1>2, <1>3, <1>5 DEF PoliteStep
<1> QED BY <1>2, <1>4, <1>6, PoliteKeeps

LEMMA TimersKeep ==
    ASSUME PairInv, NEW s \in Sides,
           \/ Heartbeat(s) \/ Probes(s) \/ TimesOut(s) \/ Sends(s)
           \/ AsksToLogOff(s) \/ LoggedOff(s) \/ Disconnects(s)
    PROVE  PairInv'
<1> DEFINE e == eng[s]
<1>0. e \in Engines
  BY DEF PairInv, PairTypes
<1>1. ASSUME NEW f, Continues(e, f), Becomes(s, f), reading' = reading, Polite(e, f),
             f.net = "up" => e.st \in {"ACTIVE", "LOGOUT_IN_PROGRESS"}
      PROVE  PairInv'
  <2>1. f \in Engines
    BY <1>1 DEF Continues, Keeps, Holds
  <2> QED BY <1>1, <2>1, TimerKeeps
<1>2. CASE Heartbeat(s)
  <2>1. e.st = "ACTIVE" /\ Becomes(s, HeartbeatDue(e)) /\ reading' = reading
    BY <1>2 DEF Heartbeat, Beats, Timer
  <2> QED BY <1>0, <1>1, <2>1, TaskContinues, TaskPolite
<1>3. CASE Probes(s)
  <2>1. e.st = "ACTIVE" /\ Becomes(s, TestRequestDue(e, 1)) /\ reading' = reading
    BY <1>3 DEF Probes, Beats, Timer
  <2> QED BY <1>0, <1>1, <2>1, TaskContinues, TaskPolite
<1>4. CASE TimesOut(s)
  <2>1. e.st = "ACTIVE" /\ Becomes(s, HeartbeatTimeout(e)) /\ reading' = reading
    BY <1>4 DEF TimesOut, Beats, Timer
  <2>2. Continues(e, HeartbeatTimeout(e)) /\ HeartbeatTimeout(e).net = "down"
    BY <1>0, <2>1, HeartbeatTimeoutContinues, TimeoutCloses
  <2> QED BY <1>1, <2>1, <2>2, ClosedPolite
<1>5. CASE Sends(s)
  <2>1. e.st = "ACTIVE" /\ Becomes(s, AppSend(e, 1)) /\ reading' = reading
    BY <1>5 DEF Sends, Timer
  <2> QED BY <1>0, <1>1, <2>1, TaskContinues, TaskPolite
<1>6. CASE AsksToLogOff(s)
  <2>1. /\ e.st \in {"ACTIVE", "LOGOUT_IN_PROGRESS"} /\ Becomes(s, RequestLogoff(e))
        /\ reading' = reading
    BY <1>6 DEF AsksToLogOff, Timer
  <2> QED BY <1>0, <1>1, <2>1, LogoffContinues, RequestLogoffPolite
<1>7. CASE LoggedOff(s)
  <2>1. Becomes(s, LogoffOver(e)) /\ reading' = reading
    BY <1>7 DEF LoggedOff
  <2>2. [e EXCEPT !.wait = "none"] \in Engines
    BY <1>0 DEF Engines
  <2>3. Continues(e, LogoffOver(e)) /\ LogoffOver(e).net = "down"
    BY <1>0, <2>2, LogoffContinues, DisconnectFacts DEF LogoffOver, Ended
  <2> QED BY <1>1, <2>1, <2>3, ClosedPolite
<1>8. CASE Disconnects(s)
  <2>1. Becomes(s, DisconnectGracefully(e)) /\ reading' = reading
    BY <1>8 DEF Disconnects, Timer
  <2>2. Continues(e, DisconnectGracefully(e)) /\ DisconnectGracefully(e).net = "down"
    BY <1>0, GracefulFacts DEF Ended
  <2> QED BY <1>1, <2>1, <2>2, ClosedPolite
<1> QED BY <1>2, <1>3, <1>4, <1>5, <1>6, <1>7, <1>8

(* The initiator is refused. *)
LEMMA IsRefusedKeeps ==
    ASSUME PairInv, IsRefused
    PROVE  PairInv'
<1> DEFINE f == Refused(eng[I])
<1>1. eng[I] \in Engines /\ eng[I].mode = I /\ I \in Sides /\ I # A
  BY SidesFacts DEF PairInv, PairTypes
<1>2. eng[I].net = "down" /\ Becomes(I, f) /\ reading' = reading
  BY DEF IsRefused, StartsFrom
<1>3. f \in Engines /\ f.mode = I /\ f.buf = <<>> /\ f.net = "down"
  BY <1>1, <1>2, RefusedFacts DEF Opens
<1> HIDE DEF f
<1>4. PoliteStep(I, f)
  BY <1>3, EmptyRange, ClosedPolite DEF PoliteStep
<1> QED BY <1>1, <1>2, <1>3, <1>4, PoliteKeeps

-----------------------------------------------------------------------------
(* Reading, the end of the loop, a broken connection, a new process. *)
LEMMA ReadsKeeps ==
    ASSUME PairInv, NEW s \in Sides, Reads(s)
    PROVE  PairInv'
<1> DEFINE e == eng[s]
           o == Other(s)
<1>1. PICK k \in 1 .. Len(chan[s]) :
        /\ eng' = [eng EXCEPT ![s].buf = @ \o SubSeq(chan[s], 1, k)]
        /\ chan' = [chan EXCEPT ![s] = SubSeq(@, k + 1, Len(@))]
  BY DEF Reads
<1>2. /\ PairTypes /\ e \in Engines /\ e.buf \in Seq(Messages) /\ chan[s] \in Seq(Messages)
      /\ o \in Sides /\ o # s /\ Sides = {s, o} /\ Other(o) = s /\ A \in Sides /\ I \in Sides
      /\ I # A
  BY SidesFacts DEF PairInv, PairTypes, Engines
<1> DEFINE x == SubSeq(chan[s], 1, k)
           y == SubSeq(chan[s], k + 1, Len(chan[s]))
           g == [e EXCEPT !.buf = e.buf \o x]
<1>3. Len(chan[s]) \in Nat /\ k \in Nat /\ 1 <= k /\ k <= Len(chan[s])
  BY <1>2
<1>4. /\ x \in Seq(Messages) /\ y \in Seq(Messages) /\ Len(x) = k /\ Len(y) = Len(chan[s]) - k
      /\ x \o y = chan[s]
  <2>1. \A i \in 1 .. Len(chan[s]) : chan[s][i] \in Messages
    BY <1>2
  <2>2. x \in Seq(Messages) /\ Len(x) = k
    BY <1>2, <1>3
  <2>3. y \in Seq(Messages) /\ Len(y) = Len(chan[s]) - k
    BY <1>2, <1>3
  <2>4. x \o y = chan[s]
    BY <1>2, <1>3, <2>2, <2>3
  <2> QED BY <2>2, <2>3, <2>4
<1>5. /\ e.buf \o x \in Seq(Messages) /\ Len(e.buf \o x) = Len(e.buf) + k
      /\ Range(e.buf \o x) = Range(e.buf) \cup Range(x)
      /\ Range(chan[s]) = Range(x) \cup Range(y)
  <2> HIDE DEF x, y
  <2>1. e.buf \o x \in Seq(Messages) /\ Len(e.buf \o x) = Len(e.buf) + k
    BY <1>2, <1>4, ConcatProperties
  <2>2. Range(e.buf \o x) = Range(e.buf) \cup Range(x)
    BY <1>2, <1>4, RangeConcatenation
  <2>3. Range(x \o y) = Range(x) \cup Range(y)
    BY <1>4, RangeConcatenation
  <2> QED BY <1>4, <2>1, <2>2, <2>3
<1> HIDE DEF x, y
<1>6. /\ g \in Engines /\ g.st = e.st /\ g.net = e.net /\ g.store = e.store
      /\ g.mode = e.mode /\ g.sent = e.sent /\ g.buf = e.buf \o x
  BY <1>2, <1>5 DEF Engines
<1>7. eng' = [eng EXCEPT ![s] = g] /\ chan' = [chan EXCEPT ![s] = y]
  BY <1>1 DEF x, y
<1> HIDE DEF g
<1>8. /\ eng'[s] = g /\ eng'[o] = eng[o] /\ eng' \in [Sides -> Engines]
      /\ chan'[s] = y /\ chan'[o] = chan[o] /\ chan' \in [Sides -> Seq(Messages)]
  BY <1>2, <1>4, <1>6, <1>7 DEF PairTypes
<1>9. reading' = [reading EXCEPT ![s] = "busy"]
  BY DEF Reads
<1>10. /\ \A t \in Sides : /\ eng'[t].st = eng[t].st /\ eng'[t].net = eng[t].net
                          /\ eng'[t].store = eng[t].store /\ eng'[t].mode = eng[t].mode
                          /\ eng'[t].sent = eng[t].sent
  BY <1>2, <1>6, <1>8
<1>11. PairTypes'
  <2>1. reading' \in [Sides -> {"off", "wait", "busy"}]
    BY <1>2, <1>9 DEF PairTypes
  <2>2. reading'[A] = "off" => eng'[A].st = "DISCONNECTED"
    BY <1>2, <1>9, <1>10 DEF PairTypes
  <2> QED BY <1>2, <1>8, <1>10, <2>1, <2>2 DEF PairTypes
<1>12. Underway(s)' = Underway(s) /\ Underway(o)' = Underway(o)
  BY <1>5, <1>6, <1>8 DEF Underway
<1> HIDE DEF e, o
<1>13. \A t \in Sides : Underway(t)' = Underway(t)
  BY <1>2, <1>12
<1>14. \A t \in Sides : LogonTo(t)' <=> LogonTo(t)
  BY <1>13 DEF LogonTo
<1>15. BothUp' <=> BothUp
  BY <1>2, <1>10 DEF BothUp
<1>16. AllFair /\ LogonComesFirst /\ LogonIsAnswered /\ ActiveNotAhead
  BY DEF PairInv
<1>17. AllFair'
  <2> SUFFICES ASSUME BothUp', NEW t \in Sides, NEW m \in Underway(t)'
               PROVE  Fair(m, NextOut(eng'[Other(t)]))
    BY DEF AllFair
  <2>1. m \in Underway(t) /\ BothUp /\ Other(t) \in Sides
    BY <1>13, <1>15, SidesFacts
  <2>2. Fair(m, NextOut(eng[Other(t)]))
    BY <1>16, <2>1 DEF AllFair
  <2> QED BY <1>10, <2>1, <2>2 DEF NextOut
<1>18. LogonComesFirst'
  <2> SUFFICES ASSUME BothUp', LogonTo(A)'
               PROVE  /\ eng'[I].st = "LOGON_IN_PROGRESS" /\ eng'[I].buf = <<>> /\ chan'[I] = <<>>
                      /\ eng'[A].st = "AWAITING_LOGON"
                      /\ \/ Len(eng'[A].buf) = 1 /\ chan'[A] = <<>>
                         \/ eng'[A].buf = <<>> /\ Len(chan'[A]) = 1
    BY DEF LogonComesFirst
  <2>1. /\ eng[I].st = "LOGON_IN_PROGRESS" /\ eng[I].buf = <<>> /\ chan[I] = <<>>
        /\ eng[A].st = "AWAITING_LOGON"
        /\ \/ Len(eng[A].buf) = 1 /\ chan[A] = <<>>
           \/ eng[A].buf = <<>> /\ Len(chan[A]) = 1
    BY <1>2, <1>14, <1>15, <1>16 DEF LogonComesFirst
  <2>2. chan[s] # <<>>
    BY DEF Reads
  <2>3. s = A /\ o = I /\ Len(chan[A]) = 1 /\ eng[A].buf = <<>>
    BY <1>2, <2>1, <2>2, SidesFacts DEF o
  <2>4. k = 1 /\ Len(y) = 0 /\ Len(e.buf) = 0 /\ e.buf \in Seq(Messages)
    BY <1>2, <1>3, <1>4, <2>3 DEF e
  <2>5. y = <<>> /\ Len(g.buf) = 1
    BY <1>4, <1>5, <1>6, <2>4, EmptySeq
  <2> QED BY <1>2, <1>8, <1>10, <2>1, <2>3, <2>5
<1>19. LogonIsAnswered'
  BY <1>2, <1>10, <1>14, <1>15, <1>16 DEF LogonIsAnswered
<1>20. ActiveNotAhead'
  <2> SUFFICES ASSUME BothUp', NEW t \in Sides, eng'[t].st = "ACTIVE"
               PROVE  Expected(eng'[t]) <= NextOut(eng'[Other(t)])
    BY DEF ActiveNotAhead
  <2>1. Other(t) \in Sides /\ BothUp /\ eng[t].st = "ACTIVE"
    BY <1>10, <1>15, SidesFacts
  <2>2. Expected(eng[t]) <= NextOut(eng[Other(t)])
    BY <1>16, <2>1 DEF ActiveNotAhead
  <2> QED BY <1>10, <2>1, <2>2 DEF Expected, NextOut
<1> QED BY <1>11, <1>17, <1>18, <1>19, <1>20 DEF PairInv

LEMMA ReadsAgainKeeps ==
    ASSUME PairInv, NEW s \in Sides, ReadsAgain(s)
    PROVE  PairInv'
<1>1. /\ eng' = eng /\ chan' = chan /\ reading' = [reading EXCEPT ![s] = "wait"]
      /\ reading[s] = "busy"
  BY DEF ReadsAgain
<1>2. PairTypes'
  <2>1. reading' \in [Sides -> {"off", "wait", "busy"}]
    BY <1>1 DEF PairInv, PairTypes
  <2>2. reading'[A] = "off" => eng'[A].st = "DISCONNECTED"
    BY <1>1, SidesFacts DEF PairInv, PairTypes
  <2> QED BY <1>1, <2>1, <2>2 DEF PairInv, PairTypes
<1>3. BothUp' = BothUp /\ \A t \in Sides : Underway(t)' = Underway(t)
  BY <1>1 DEF BothUp, Underway
<1>4. \A t \in Sides : LogonTo(t)' <=> LogonTo(t)
  BY <1>3 DEF LogonTo
<1>5. AllFair' /\ ActiveNotAhead'
  BY <1>1, <1>3 DEF PairInv, AllFair, ActiveNotAhead
<1>6. LogonComesFirst' /\ LogonIsAnswered'
  BY <1>1, <1>3, <1>4, SidesFacts DEF PairInv, LogonComesFirst, LogonIsAnswered
<1> QED BY <1>2, <1>5, <1>6 DEF PairInv

(* One side is left without a connection. *)
LEMMA Closes ==
    ASSUME PairTypes, NEW s \in Sides, NEW f \in Engines, f.mode = s, f.sent = <<>>,
           f.net # "up", s = A => f.st = "DISCONNECTED",
           eng' = [eng EXCEPT ![s] = f], reading' = [reading EXCEPT ![s] = "off"],
           chan' \in [Sides -> Seq(Messages)]
    PROVE  PairInv'
<1>1. /\ eng' \in [Sides -> Engines] /\ reading' \in [Sides -> {"off", "wait", "busy"}]
      /\ eng'[s] = f
      /\ \A t \in Sides : t # s => eng'[t] = eng[t] /\ reading'[t] = reading[t]
  BY DEF PairTypes
<1>2. \A t \in Sides : eng'[t].mode = t /\ eng'[t].sent = <<>>
  BY <1>1 DEF PairTypes
<1>3. reading'[A] = "off" => eng'[A].st = "DISCONNECTED"
  BY <1>1, SidesFacts DEF PairTypes
<1>4. PairTypes'
  BY <1>1, <1>2, <1>3 DEF PairTypes
<1>5. ~BothUp'
  BY <1>1, SidesFacts DEF BothUp
<1> QED BY <1>4, <1>5, Apart, PTL

LEMMA ReadEndsKeeps ==
    ASSUME PairInv, NEW s \in Sides, ReadEnds(s)
    PROVE  PairInv'
<1> DEFINE e == eng[s]
           f == ReceiveEnded(e)
<1>1. /\ PairTypes /\ e \in Engines /\ e.mode = s /\ e.sent = <<>>
      /\ chan \in [Sides -> Seq(Messages)]
  BY DEF PairInv, PairTypes
<1>2. /\ eng' = [eng EXCEPT ![s] = f] /\ reading' = [reading EXCEPT ![s] = "off"]
      /\ chan' = chan
  BY DEF ReadEnds
<1>3. /\ NetDown(e) \in Engines /\ NetDown(e).net = "down" /\ NetDown(e).mode = s
      /\ NetDown(e).sent = <<>> /\ NetDown(e).st \in States
  BY <1>1, NetDownFacts DEF Engines
<1>4. /\ f \in Engines /\ f.mode = s /\ f.sent = <<>> /\ f.net = "down"
      /\ s = A => f.st = "DISCONNECTED"
  <2>1. CASE s = A
    <3>1. f = On(NetDown(e), "disconnect")
      BY <1>1, <2>1, SidesFacts DEF ReceiveEnded
    <3>2. OnEvent(NetDown(e).st, "disconnect") = "DISCONNECTED"
      BY <1>3, EventFacts DEF Drops
    <3> QED BY <1>3, <3>1, <3>2, OnFacts
  <2>2. CASE s # A
    <3>1. f = NetDown(e)
      BY <1>1, <2>2, SidesFacts DEF ReceiveEnded
    <3> QED BY <1>3, <2>2, <3>1
  <2> QED BY <2>1, <2>2
<1> HIDE DEF e, f
<1> QED BY <1>1, <1>2, <1>4, Closes

LEMMA RestartsKeeps ==
    ASSUME PairInv, NEW s \in Sides, Restarts(s)
    PROVE  PairInv'
<1> DEFINE e == eng[s]
           f == NewEngine(s, e.resets, e.store)
<1>1. /\ PairTypes /\ e \in Engines /\ s \in {"initiator", "acceptor"} /\ e.resets \in BOOLEAN
      /\ e.store \in Stores /\ chan \in [Sides -> Seq(Messages)]
  BY SidesFacts DEF PairInv, PairTypes, Engines
<1>2. /\ eng' = [eng EXCEPT ![s] = f] /\ reading' = [reading EXCEPT ![s] = "off"]
      /\ chan' = [chan EXCEPT ![s] = <<>>]
  BY DEF Restarts
<1>3. /\ f \in Engines /\ f.mode = s /\ f.sent = <<>> /\ f.net = "down"
      /\ f.st = "DISCONNECTED"
  BY <1>1, NewEngineFacts
<1> HIDE DEF e, f
<1>4. chan' \in [Sides -> Seq(Messages)]
  BY <1>1, <1>2
<1> QED BY <1>1, <1>2, <1>3, <1>4, Closes

LEMMA BreaksKeeps ==
    ASSUME PairInv, Breaks
    PROVE  PairInv'
<1>1. /\ PairTypes /\ eng \in [Sides -> Engines] /\ reading' = reading
      /\ eng' = [s \in Sides |-> IF eng[s].net = "up" THEN [eng[s] EXCEPT !.net = "broken"]
                                 ELSE eng[s]]
      /\ chan' = [s \in Sides |-> <<>>]
  BY DEF Breaks, PairInv, PairTypes
<1>2. ASSUME NEW s \in Sides
      PROVE  /\ eng'[s] \in Engines /\ eng'[s].mode = eng[s].mode /\ eng'[s].st = eng[s].st
             /\ eng'[s].sent = eng[s].sent /\ eng'[s].net # "up"
  <2>1. CASE eng[s].net = "up"
    <3> DEFINE g == [eng[s] EXCEPT !.net = "broken"]
    <3>1. eng'[s] = g
      BY <1>1, <2>1
    <3>2. eng[s] \in Engines
      BY <1>1
    <3>3. /\ g \in Engines /\ g.mode = eng[s].mode /\ g.st = eng[s].st
          /\ g.sent = eng[s].sent /\ g.net = "broken"
      BY <3>2 DEF Engines
    <3> QED BY <3>1, <3>3
  <2>2. CASE eng[s].net # "up"
    BY <1>1, <2>2
  <2> QED BY <2>1, <2>2
<1>3. PairTypes'
  <2>1. eng' \in [Sides -> Engines] /\ chan' \in [Sides -> Seq(Messages)]
    BY <1>1, <1>2
  <2>2. A \in Sides
    BY SidesFacts
  <2> QED BY <1>1, <1>2, <2>1, <2>2 DEF PairTypes
<1>4. ~BothUp'
  BY <1>2, SidesFacts DEF BothUp
<1> QED BY <1>3, <1>4, Apart, PTL

(* The initiator connects, and the acceptor's handler takes the connection:  *)
(* the Logon is all that is under way. *)
LEMMA ConnectsKeeps ==
    ASSUME PairInv, Connects
    PROVE  PairInv'
<1> DEFINE e == eng[I]
           f == Connected(e)
           h == [f EXCEPT !.sent = <<>>]
           g == Accepted(eng[A])
<1>0. I \in Sides /\ A \in Sides /\ I # A /\ Sides = {I, A} /\ Other(I) = A /\ Other(A) = I
  BY SidesFacts
<1>1. /\ PairTypes /\ e \in Engines /\ e.mode = I /\ e.sent = <<>>
      /\ eng[A] \in Engines /\ eng[A].mode = A /\ eng[A].sent = <<>>
      /\ eng[A].st = "DISCONNECTED"
      /\ eng \in [Sides -> Engines] /\ chan \in [Sides -> Seq(Messages)]
      /\ reading \in [Sides -> {"off", "wait", "busy"}]
  BY <1>0 DEF PairInv, PairTypes, Connects
<1>2. /\ eng' = [eng EXCEPT ![I] = h, ![A] = g]
      /\ chan' = [chan EXCEPT ![A] = f.sent, ![I] = <<>>]
      /\ reading' = [reading EXCEPT ![I] = IF f.net = "up" THEN "wait" ELSE "off",
                                    ![A] = "wait"]
  BY DEF Connects
<1>3. /\ f \in Engines /\ f.mode = I /\ f.buf = <<>> /\ f.st # "ACTIVE"
      /\ f.sent = <<>> \/ LogsOn(f)
  BY <1>1, ConnectedFacts DEF Opens
<1>4. /\ g \in Engines /\ g.mode = A /\ g.buf = <<>> /\ g.sent = <<>>
      /\ g.st = "AWAITING_LOGON"
  BY <1>1, AcceptedFacts DEF Opens
<1> HIDE DEF f, g
<1>5. /\ h \in Engines /\ h.mode = I /\ h.buf = <<>> /\ h.sent = <<>> /\ h.st = f.st
      /\ h.net = f.net /\ h.store = f.store
  <2>1. <<>> \in Seq(Messages)
    OBVIOUS
  <2> QED BY <1>3, <2>1 DEF Engines
<1> HIDE DEF h, e
<1>6. f.sent \in Seq(Messages)
  BY <1>3 DEF Engines
<1>7. /\ eng'[I] = h /\ eng'[A] = g /\ eng' \in [Sides -> Engines]
      /\ chan'[A] = f.sent /\ chan'[I] = <<>>
  BY <1>0, <1>1, <1>2, <1>4, <1>5
<1>8. chan' \in [Sides -> Seq(Messages)]
  <2>1. <<>> \in Seq(Messages)
    OBVIOUS
  <2> QED BY <1>0, <1>1, <1>2, <1>6, <2>1
<1>9. reading' \in [Sides -> {"off", "wait", "busy"}] /\ reading'[A] = "wait"
  BY <1>0, <1>1, <1>2
<1>10. PairTypes'
  <2>1. \A t \in Sides : eng'[t].mode = t /\ eng'[t].sent = <<>>
    BY <1>0, <1>4, <1>5, <1>7
  <2> QED BY <1>7, <1>8, <1>9, <2>1 DEF PairTypes
<1>11. Underway(I)' = {} /\ Underway(A)' = Range(f.sent)
  BY <1>4, <1>5, <1>7, EmptyRange DEF Underway
<1>12. ActiveNotAhead'
  BY <1>0, <1>3, <1>4, <1>5, <1>7 DEF ActiveNotAhead
<1>13. LogonIsAnswered'
  BY <1>3, <1>5, <1>7, <1>11 DEF LogonIsAnswered, LogonTo
<1>14. CASE f.sent = <<>>
  <2>1. Underway(A)' = {}
    BY <1>11, <1>14, EmptyRange
  <2>2. AllFair' /\ LogonComesFirst'
    BY <1>0, <1>11, <2>1 DEF AllFair, LogonComesFirst, LogonTo
  <2> QED BY <1>10, <1>12, <1>13, <2>2 DEF PairInv
<1>15. CASE LogsOn(f)
  <2>1. PICK m \in Messages : /\ f.st = "LOGON_IN_PROGRESS" /\ f.sent = <<m>>
                              /\ m.type = "Logon" /\ ~m.poss
                              /\ 1 <= m.seq /\ m.seq < f.store.out
    BY <1>15 DEF LogsOn
  <2>2. Fair(m, f.store.out) /\ Len(<<m>>) = 1
    BY <2>1 DEF Fair
  <2>3. Range(f.sent) = {m}
    <3> DEFINE t == <<m>>
    <3>1. t \in Seq(Messages) /\ Len(t) = 1 /\ t[1] = m
      OBVIOUS
    <3> HIDE DEF t
    <3>2. Range(t) = {t[i] : i \in 1 .. Len(t)}
      BY <3>1, RangeEquality
    <3>3. Range(t) = {m}
      BY <3>1, <3>2
    <3> QED BY <2>1, <3>3 DEF t
  <2>4. AllFair'
    BY <1>0, <1>5, <1>7, <1>11, <2>2, <2>3 DEF AllFair, NextOut
  <2>5. LogonComesFirst'
    BY <1>4, <1>5, <1>7, <2>1, <2>2 DEF LogonComesFirst
  <2> QED BY <1>10, <1>12, <1>13, <2>4, <2>5 DEF PairInv
<1> QED BY <1>3, <1>14, <1>15

-----------------------------------------------------------------------------
LEMMA UnmovedKeeps ==
    ASSUME PairInv, UNCHANGED <<eng, reading, chan>>
    PROVE  PairInv'
<1>1. eng' = eng /\ reading' = reading /\ chan' = chan
  OBVIOUS
<1>2. PairTypes'
  BY <1>1 DEF PairInv, PairTypes
<1>3. BothUp' = BothUp /\ \A t \in Sides : Underway(t)' = Underway(t)
  BY <1>1 DEF BothUp, Underway
<1>4. \A t \in Sides : LogonTo(t)' <=> LogonTo(t)
  BY <1>3 DEF LogonTo
<1>5. AllFair' /\ ActiveNotAhead'
  BY <1>1, <1>3 DEF PairInv, AllFair, ActiveNotAhead
<1>6. LogonComesFirst' /\ LogonIsAnswered'
  BY <1>1, <1>3, <1>4, SidesFacts DEF PairInv, LogonComesFirst, LogonIsAnswered
<1> QED BY <1>2, <1>5, <1>6 DEF PairInv

LEMMA PairInit ==
    ASSUME Init PROVE PairInv
<1>1. PICK r \in ResetsOn : eng = [s \in Sides |-> NewEngine(s, s = I /\ r, NewStore)]
  BY DEF Init
<1>2. NewStore \in Stores
  BY DEF NewStore, Stores, Numbers, NoRow
<1>3. ASSUME NEW s \in Sides
      PROVE  /\ eng[s] \in Engines /\ eng[s].mode = s /\ eng[s].sent = <<>>
             /\ eng[s].net = "down" /\ eng[s].st = "DISCONNECTED"
  <2> DEFINE resets == s = I /\ r
  <2>1. s \in {"initiator", "acceptor"}
    BY SidesFacts
  <2>2. resets \in BOOLEAN
    OBVIOUS
  <2>3. eng[s] = NewEngine(s, resets, NewStore)
    BY <1>1
  <2> HIDE DEF resets
  <2> QED BY <1>2, <2>1, <2>2, <2>3, NewEngineFacts
<1>4. PairTypes
  <2>1. eng \in [Sides -> Engines] /\ A \in Sides
    BY <1>1, <1>3, SidesFacts
  <2>2. <<>> \in Seq(Messages)
    OBVIOUS
  <2> QED BY <1>3, <2>1, <2>2 DEF PairTypes, Init
<1>5. ~BothUp
  BY <1>3, SidesFacts DEF BothUp
<1> QED BY <1>4, <1>5, Apart

LEMMA PairNext ==
    ASSUME PairInv, Next PROVE PairInv'
<1>1. CASE Listens
  BY <1>1, UnmovedKeeps DEF Listens
<1>2. CASE IsRefused
  BY <1>2, IsRefusedKeeps
<1>3. CASE Connects
  BY <1>3, ConnectsKeeps
<1>4. CASE Breaks
  BY <1>4, BreaksKeeps
<1>5. ASSUME NEW s \in Sides,
             \/ Reads(s) \/ Processes(s) \/ ReadsAgain(s) \/ ReadEnds(s) \/ Restarts(s)
      PROVE  PairInv'
  BY <1>5, ReadsKeeps, ProcessesKeeps, ReadsAgainKeeps, ReadEndsKeeps, RestartsKeeps
<1>6. ASSUME NEW s \in Sides,
             \/ Heartbeat(s) \/ Probes(s) \/ TimesOut(s) \/ Sends(s)
             \/ AsksToLogOff(s) \/ LoggedOff(s) \/ Disconnects(s)
      PROVE  PairInv'
  BY <1>6, TimersKeep
<1> QED BY <1>1, <1>2, <1>3, <1>4, <1>5, <1>6 DEF Next

LEMMA PairInvariant == Spec => []PairInv
<1>1. PairInv /\ [Next]_vars => PairInv'
  <2> SUFFICES ASSUME PairInv, [Next]_vars PROVE PairInv'
    OBVIOUS
  <2>1. CASE Next
    BY <2>1, PairNext
  <2>2. CASE UNCHANGED vars
    BY <2>2, UnmovedKeeps DEF vars, link
  <2> QED BY <2>1, <2>2
<1> QED BY PairInit, <1>1, PTL DEF Spec

(* In an established session neither side of the Python package expects a    *)
(* number beyond the other's next, whatever Logons, resets, gap fills, lost   *)
(* connections and restarts the two went through: what process_single_fix_   *)
(* message takes for a duplicate was sent before. *)
THEOREM NeitherSideAhead == Spec => []NotAhead
<1>1. PairInv => NotAhead
  BY SidesFacts DEF PairInv, ActiveNotAhead, NotAhead, Established, BothUp
<1> QED BY <1>1, PairInvariant, PTL

(* While both networks run, an ACTIVE initiator never faces an acceptor that  *)
(* still waits for a Logon: LogonHandler makes the initiator ACTIVE only by   *)
(* the answer of an acceptor whose state has moved on. *)
THEOREM LogonsAreMutual == Spec => []NoOneSidedLogon
<1>1. PairInv => NoOneSidedLogon
  BY DEF PairInv, LogonIsAnswered, NoOneSidedLogon, BothUp
<1> QED BY <1>1, PairInvariant, PTL
=============================================================================
