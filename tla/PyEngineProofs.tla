--------------------------- MODULE PyEngineProofs ---------------------------
(* Lemmas about the operators of module PyEngine, for every engine and      *)
(* every message: what a handler keeps, and how the numbers it sends grow.  *)
EXTENDS PyEngine, SequenceTheorems, WellFoundedInduction, TLAPS

(* Induction: a set of natural numbers that has 0 and with each the next. *)
Less == {p \in Nat \X Nat : p[1] < p[2]}

LEMMA LessIsWellFounded == IsWellFoundedOn(Less, Nat)
BY NatLessThanWellFounded DEF OpToRel, Less

LEMMA SetInduction ==
    ASSUME NEW T \in SUBSET Nat, 0 \in T, \A n \in T : n + 1 \in T
    PROVE  T = Nat
<1> SUFFICES ASSUME Nat \ T # {} PROVE FALSE
  OBVIOUS
<1>1. PICK x \in Nat \ T : \A y \in Nat \ T : ~(<<y, x>> \in Less)
  BY LessIsWellFounded, WFMin
<1>2. x # 0 /\ x - 1 \in Nat
  BY <1>1
<1>3. <<x - 1, x>> \in Less
  BY <1>2 DEF Less
<1>4. x - 1 \in T
  BY <1>1, <1>2, <1>3
<1> QED BY <1>1, <1>2, <1>4

-----------------------------------------------------------------------------
Numbers == Nat \ {0}

Stores ==
    [in : Numbers, out : Numbers, open : BOOLEAN,
     row : SUBSET (Numbers \X Numbers), kept : SUBSET [seq : Digits, type : Types]]

Engines ==
    [mode : {"initiator", "acceptor"}, resets : BOOLEAN, st : States,
     net : {"down", "up", "broken"}, store : Stores, gap : Nat, hb : BOOLEAN,
     testId : Nat, wait : {"none", "waiting", "done"}, buf : Seq(Messages),
     sent : Seq(Messages), told : Seq(Messages)]

-----------------------------------------------------------------------------
LEMMA CounterFacts ==
    ASSUME NEW e \in Engines
    PROVE  /\ e.store.in \in Nat /\ e.store.in >= 1
           /\ e.store.out \in Nat /\ e.store.out >= 1 /\ e.gap \in Nat
BY DEF Engines, Stores, Numbers

(* The store: which counters an operation moves.                            *)
LEMMA SaveFacts ==
    ASSUME NEW s \in Stores
    PROVE  Save(s) \in Stores /\ Save(s).in = s.in /\ Save(s).out = s.out
BY DEF Save, Stores

LEMMA SetFacts ==
    ASSUME NEW s \in Stores, NEW n \in Digits
    PROVE  /\ SetIn(s, n) \in Stores /\ SetIn(s, n).out = s.out
           /\ SetIn(s, n).in = IF n >= 1 THEN n ELSE s.in
           /\ SetOut(s, n) \in Stores /\ SetOut(s, n).in = s.in
           /\ SetOut(s, n).out = IF n >= 1 THEN n ELSE s.out
<1>1. CASE n >= 1
  <2> DEFINE i == [s EXCEPT !.in = n]
             o == [s EXCEPT !.out = n]
  <2>1. n \in Numbers
    BY <1>1 DEF Digits, Bad, Numbers
  <2>2. i \in Stores /\ i.in = n /\ i.out = s.out /\ o \in Stores /\ o.in = s.in /\ o.out = n
    BY <2>1 DEF Stores
  <2>3. SetIn(s, n) = Save(i) /\ SetOut(s, n) = Save(o)
    BY <1>1 DEF SetIn, SetOut, Settable
  <2> HIDE DEF i, o
  <2> QED BY <1>1, <2>2, <2>3, SaveFacts
<1>2. CASE ~(n >= 1)
  BY <1>2 DEF SetIn, SetOut, Settable
<1> QED BY <1>1, <1>2

LEMMA StepFacts ==
    ASSUME NEW s \in Stores
    PROVE  /\ IncrementIn(s) \in Stores
           /\ IncrementIn(s).in = s.in + 1 /\ IncrementIn(s).out = s.out
           /\ IncrementOut(s) \in Stores
           /\ IncrementOut(s).in = s.in /\ IncrementOut(s).out = s.out + 1
           /\ ResetNumbers(s) \in Stores
           /\ ResetNumbers(s).in = 1 /\ ResetNumbers(s).out = 1
           /\ Close(s) \in Stores /\ Close(s).in = s.in /\ Close(s).out = s.out
<1> DEFINE i == [s EXCEPT !.in = s.in + 1]
           o == [s EXCEPT !.out = s.out + 1]
           r == [s EXCEPT !.in = 1, !.out = 1]
<1>1. /\ i \in Stores /\ i.in = s.in + 1 /\ i.out = s.out
      /\ o \in Stores /\ o.in = s.in /\ o.out = s.out + 1
      /\ r \in Stores /\ r.in = 1 /\ r.out = 1
  <2>1. s.in + 1 \in Numbers /\ s.out + 1 \in Numbers /\ 1 \in Numbers
    BY DEF Stores, Numbers
  <2> HIDE DEF Numbers
  <2> QED BY <2>1 DEF Stores
<1>2. IncrementIn(s) = Save(i) /\ IncrementOut(s) = Save(o) /\ ResetNumbers(s) = Save(r)
  BY DEF IncrementIn, IncrementOut, ResetNumbers, Stores
<1>3. Close(s) \in Stores /\ Close(s).in = s.in /\ Close(s).out = s.out
  BY DEF Close, Stores
<1> HIDE DEF i, o, r
<1> QED BY <1>1, <1>2, <1>3, SaveFacts

LEMMA KeepFacts ==
    ASSUME NEW s \in Stores, NEW seq \in Digits, NEW type \in Types
    PROVE  /\ Keep(s, seq, type) \in Stores
           /\ Keep(s, seq, type).in = s.in /\ Keep(s, seq, type).out = s.out
<1> DEFINE kept == {k \in s.kept : k.seq # seq} \cup {[seq |-> seq, type |-> type]}
<1>1. kept \in SUBSET [seq : Digits, type : Types]
  BY DEF Stores
<1>2. Keep(s, seq, type) = IF s.open THEN [s EXCEPT !.kept = kept] ELSE s
  BY DEF Keep, Stores
<1> HIDE DEF kept
<1> QED BY <1>1, <1>2 DEF Stores

(* A new process reads counters of which both are at least 1. *)
LEMMA ReopenedFacts ==
    ASSUME NEW s \in Stores
    PROVE  Reopened(s) \in Stores
<1> DEFINE r == Load(s)
<1>1. r \in Numbers \X Numbers
  <2>1. CASE s.row = NoRow
    BY <2>1 DEF Load, Numbers
  <2>2. CASE s.row # NoRow
    <3>1. \E x \in s.row : TRUE
      BY <2>2 DEF NoRow
    <3>2. r \in s.row
      BY <2>2, <3>1 DEF Load
    <3> QED BY <3>2 DEF Stores
  <2> QED BY <2>1, <2>2
<1>2. r[1] \in Numbers /\ r[2] \in Numbers
  BY <1>1
<1>3. Reopened(s) = [s EXCEPT !.in = r[1], !.out = r[2], !.open = TRUE]
  BY DEF Reopened
<1> HIDE DEF r
<1> QED BY <1>2, <1>3 DEF Stores

-----------------------------------------------------------------------------
(* The states an event leads to. *)
LEMMA EventFacts ==
    ASSUME NEW s \in States, NEW event
    PROVE  /\ OnEvent(s, event) \in States
           /\ event \in Drops => OnEvent(s, event) = "DISCONNECTED"
           /\ OnEvent(s, event) = "ACTIVE" =>
                \/ s = "ACTIVE"
                \/ s = "LOGON_IN_PROGRESS" /\ event = "logon_successful"
                \/ s = "AWAITING_LOGON" /\ event = "logon_received_valid"
           /\ s = "DISCONNECTED" /\ OnEvent(s, event) # "DISCONNECTED" =>
                event \in {"initiator_connect_attempt", "client_accepted_awaiting_logon",
                           "initiate_reconnect"}
BY DEF OnEvent, States, Drops, Disconnected, Connecting, LogonInProgress, AwaitingLogon, Active,
   LogoutInProgress, Reconnecting

(* f is e but for its state, its heartbeat and its buffer. *)
LEMMA OnFacts ==
    ASSUME NEW e \in Engines, NEW event
    PROVE  LET f == On(e, event) IN
           /\ f \in Engines /\ f.st = OnEvent(e.st, event)
           /\ f.mode = e.mode /\ f.resets = e.resets /\ f.net = e.net /\ f.store = e.store
           /\ f.gap = e.gap /\ f.sent = e.sent /\ f.told = e.told
           /\ f.buf \in {e.buf, <<>>}
<1> DEFINE s == OnEvent(e.st, event)
<1>1. s \in States
  BY EventFacts DEF Engines
<1>2. On(e, event) = IF s = e.st THEN e
                     ELSE IF s = "DISCONNECTED" THEN [e EXCEPT !.st = s, !.hb = FALSE, !.buf = <<>>]
                     ELSE [e EXCEPT !.st = s]
  BY DEF On
<1>3. <<>> \in Seq(Messages)
  OBVIOUS
<1> HIDE DEF s
<1>4. CASE s = e.st
  BY <1>2, <1>4 DEF s
<1>5. CASE s # e.st /\ s = "DISCONNECTED"
  BY <1>1, <1>2, <1>3, <1>5 DEF Engines, s
<1>6. CASE s # e.st /\ s # "DISCONNECTED"
  BY <1>1, <1>2, <1>6 DEF Engines, s
<1> QED BY <1>4, <1>5, <1>6

-----------------------------------------------------------------------------
(* The numbers of what f sent beyond e go up from e's next to f's. *)
Numbered(e, f) ==
    /\ f.store.out >= e.store.out
    /\ Len(f.sent) >= Len(e.sent)
    /\ \A i \in 1 .. Len(e.sent) : f.sent[i] = e.sent[i]
    /\ \A i \in 1 .. Len(f.sent) : i > Len(e.sent) =>
          e.store.out <= f.sent[i].seq /\ f.sent[i].seq < f.store.out
    /\ \A i, j \in 1 .. Len(f.sent) : i > Len(e.sent) /\ i < j =>
          f.sent[i].seq < f.sent[j].seq

(* None of it is a ResendRequest. *)
AsksNothing(e, f) ==
    \A i \in 1 .. Len(f.sent) : i > Len(e.sent) => f.sent[i].type # "ResendRequest"

(* What a step of e that takes no message keeps, when it leads to f; a lost  *)
(* connection, and a session that ended, stay so, and with the network goes  *)
(* what was left of the buffer. *)
Holds(e, f) ==
    /\ f \in Engines
    /\ f.mode = e.mode /\ f.resets = e.resets
    /\ f.store.in = e.store.in /\ f.gap = e.gap /\ f.told = e.told
    /\ e.st = "DISCONNECTED" => f.st = "DISCONNECTED"
    /\ f.net = e.net \/ (f.net = "down" /\ f.buf = <<>>)
    /\ f.buf \in {e.buf, <<>>}
    /\ Numbered(e, f)

Keeps(e, f) == Holds(e, f) /\ AsksNothing(e, f)

(* And the session does not become ACTIVE. *)
Continues(e, f) == Keeps(e, f) /\ (f.st = "ACTIVE" => e.st = "ACTIVE")

LEMMA SentFacts ==
    ASSUME NEW e \in Engines
    PROVE  \A i \in 1 .. Len(e.sent) : e.sent[i] \in Messages /\ e.sent[i].seq \in Int
<1>1. e.sent \in Seq(Messages)
  BY DEF Engines
<1>2. \A i \in 1 .. Len(e.sent) : e.sent[i] \in Messages
  BY <1>1, ElementOfSeq
<1>3. ASSUME NEW m \in Messages PROVE m.seq \in Int
  BY DEF Messages, Digits, Bad
<1> QED BY <1>2, <1>3

LEMMA Unsent ==
    ASSUME NEW e \in Engines, NEW f \in Engines, f.sent = e.sent, f.store.out = e.store.out
    PROVE  Numbered(e, f) /\ AsksNothing(e, f)
BY LenProperties DEF Numbered, AsksNothing, Engines, Stores, Numbers

LEMMA NumberedChain ==
    ASSUME NEW e \in Engines, NEW f \in Engines, NEW g \in Engines,
           Numbered(e, f), Numbered(f, g), AsksNothing(e, f), AsksNothing(f, g)
    PROVE  Numbered(e, g) /\ AsksNothing(e, g)
<1>1. /\ e.store.out \in Nat /\ f.store.out \in Nat /\ g.store.out \in Nat
      /\ Len(e.sent) \in Nat /\ Len(f.sent) \in Nat /\ Len(g.sent) \in Nat
  BY LenProperties DEF Engines, Stores, Numbers
<1>2. \A i \in 1 .. Len(f.sent) : f.sent[i].seq \in Int
  BY SentFacts
<1>3. \A i \in 1 .. Len(g.sent) : g.sent[i].seq \in Int
  BY SentFacts
<1>4. ASSUME NEW i \in 1 .. Len(g.sent), i > Len(e.sent)
      PROVE  /\ e.store.out <= g.sent[i].seq /\ g.sent[i].seq < g.store.out
             /\ g.sent[i].type # "ResendRequest"
  <2>1. CASE i > Len(f.sent)
    BY <1>1, <1>3, <1>4, <2>1 DEF Numbered, AsksNothing
  <2>2. CASE ~(i > Len(f.sent))
    <3>1. i \in 1 .. Len(f.sent) /\ g.sent[i] = f.sent[i]
      BY <1>1, <2>2 DEF Numbered
    <3> QED BY <1>1, <1>2, <1>4, <3>1 DEF Numbered, AsksNothing
  <2> QED BY <2>1, <2>2
<1>5. ASSUME NEW i \in 1 .. Len(g.sent), NEW j \in 1 .. Len(g.sent), i > Len(e.sent), i < j
      PROVE  g.sent[i].seq < g.sent[j].seq
  <2>1. CASE i > Len(f.sent)
    BY <1>5, <2>1 DEF Numbered
  <2>2. CASE ~(i > Len(f.sent)) /\ j > Len(f.sent)
    <3>1. i \in 1 .. Len(f.sent) /\ g.sent[i] = f.sent[i]
      BY <1>1, <2>2 DEF Numbered
    <3>2. f.sent[i].seq < f.store.out /\ f.store.out <= g.sent[j].seq
      BY <1>5, <2>2, <3>1 DEF Numbered
    <3> QED BY <1>1, <1>2, <1>3, <3>1, <3>2
  <2>3. CASE ~(i > Len(f.sent)) /\ ~(j > Len(f.sent))
    <3>1. /\ i \in 1 .. Len(f.sent) /\ g.sent[i] = f.sent[i]
          /\ j \in 1 .. Len(f.sent) /\ g.sent[j] = f.sent[j]
      BY <1>1, <2>3 DEF Numbered
    <3> QED BY <1>5, <3>1 DEF Numbered
  <2> QED BY <2>1, <2>2, <2>3
<1>6. \A i \in 1 .. Len(e.sent) : g.sent[i] = e.sent[i]
  BY <1>1 DEF Numbered
<1> QED BY <1>1, <1>4, <1>5, <1>6 DEF Numbered, AsksNothing

LEMMA KeepsChain ==
    ASSUME NEW e \in Engines, NEW f, NEW g, Keeps(e, f), Keeps(f, g)
    PROVE  Keeps(e, g)
<1>1. f \in Engines /\ g \in Engines
  BY DEF Keeps, Holds
<1>2. Numbered(e, g) /\ AsksNothing(e, g)
  BY <1>1, NumberedChain DEF Keeps, Holds
<1> QED BY <1>2 DEF Keeps, Holds

LEMMA ContinuesChain ==
    ASSUME NEW e \in Engines, NEW f, NEW g, Continues(e, f), Continues(f, g)
    PROVE  Continues(e, g)
BY KeepsChain DEF Continues

LEMMA Stays == ASSUME NEW e \in Engines PROVE Continues(e, e)
BY Unsent DEF Continues, Keeps, Holds

(* An event that opens no session and accepts no Logon. *)
LEMMA OnContinues ==
    ASSUME NEW e \in Engines,
           NEW event \in Drops \cup {"logout_initiated", "connection_failed"}
    PROVE  Continues(e, On(e, event))
<1> DEFINE f == On(e, event)
<1>1. /\ f \in Engines /\ f.st = OnEvent(e.st, event)
      /\ f.mode = e.mode /\ f.resets = e.resets /\ f.net = e.net /\ f.store = e.store
      /\ f.gap = e.gap /\ f.sent = e.sent /\ f.told = e.told
      /\ f.buf \in {e.buf, <<>>}
  BY OnFacts
<1>2. e.st \in States
  BY DEF Engines
<1>3. /\ event \notin {"logon_successful", "logon_received_valid", "initiator_connect_attempt",
                       "client_accepted_awaiting_logon", "initiate_reconnect"}
  BY DEF Drops
<1>4. f.st = "ACTIVE" => e.st = "ACTIVE"
  BY <1>1, <1>2, <1>3, EventFacts
<1>5. e.st = "DISCONNECTED" => f.st = "DISCONNECTED"
  BY <1>1, <1>2, <1>3, EventFacts
<1>6. Continues(e, f)
  <2> HIDE DEF f
  <2> QED BY <1>1, <1>4, <1>5, Unsent DEF Continues, Keeps, Holds
<1> QED BY <1>6

-----------------------------------------------------------------------------
(* Disconnecting.                                                           *)
(* The end of a session: no state, no network, no buffer. *)
Ended(f) == f.st = "DISCONNECTED" /\ f.net = "down" /\ f.buf = <<>>

LEMMA CloseAllFacts ==
    ASSUME NEW e \in Engines, e.buf = <<>>
    PROVE  Continues(e, CloseAll(e)) /\ Ended(CloseAll(e))
<1> DEFINE shut == [e EXCEPT !.net = "down", !.hb = FALSE, !.store = Close(e.store)]
<1>1. e.store \in Stores
  BY DEF Engines
<1>2. /\ Close(e.store) \in Stores
      /\ Close(e.store).in = e.store.in /\ Close(e.store).out = e.store.out
  BY <1>1, StepFacts
<1>3. /\ shut \in Engines /\ shut.st = e.st /\ shut.net = "down" /\ shut.buf = <<>>
      /\ shut.mode = e.mode /\ shut.resets = e.resets /\ shut.gap = e.gap
      /\ shut.sent = e.sent /\ shut.told = e.told
      /\ shut.store.in = e.store.in /\ shut.store.out = e.store.out
  BY <1>2 DEF Engines
<1>4. CloseAll(e) = On(shut, "force_disconnect")
  <2>1. [NetDown(e) EXCEPT !.hb = FALSE, !.store = Close(@)] = shut
    BY DEF NetDown, Engines
  <2> QED BY <2>1 DEF CloseAll
<1> HIDE DEF shut
<1>5. Continues(e, shut)
  BY <1>3, Unsent DEF Continues, Keeps, Holds
<1>6. "force_disconnect" \in Drops
  BY DEF Drops
<1>7. Continues(shut, On(shut, "force_disconnect"))
  BY <1>3, <1>6, OnContinues
<1>8. Ended(On(shut, "force_disconnect"))
  <2>1. shut.st \in States
    BY <1>3 DEF Engines
  <2>2. OnEvent(shut.st, "force_disconnect") = "DISCONNECTED"
    BY <1>6, <2>1, EventFacts
  <2> QED BY <1>3, <2>2, OnFacts DEF Ended
<1> QED BY <1>4, <1>5, <1>7, <1>8, ContinuesChain

LEMMA ClearedFacts ==
    ASSUME NEW e \in Engines
    PROVE  /\ [e EXCEPT !.buf = <<>>] \in Engines
           /\ [e EXCEPT !.buf = <<>>].buf = <<>> /\ [e EXCEPT !.buf = <<>>].st = e.st
           /\ [e EXCEPT !.buf = <<>>].net = e.net
           /\ Continues(e, [e EXCEPT !.buf = <<>>])
<1> DEFINE f == [e EXCEPT !.buf = <<>>]
<1>1. /\ f \in Engines /\ f.st = e.st /\ f.net = e.net /\ f.buf = <<>>
      /\ f.mode = e.mode /\ f.resets = e.resets /\ f.gap = e.gap /\ f.store = e.store
      /\ f.sent = e.sent /\ f.told = e.told
  <2>1. <<>> \in Seq(Messages)
    OBVIOUS
  <2> QED BY <2>1 DEF Engines
<1>2. Continues(e, f)
  <2> HIDE DEF f
  <2> QED BY <1>1, Unsent DEF Continues, Keeps, Holds
<1> QED BY <1>1, <1>2

LEMMA DisconnectFacts ==
    ASSUME NEW e \in Engines
    PROVE  Continues(e, Disconnect(e)) /\ Ended(Disconnect(e))
<1> DEFINE cleared == [e EXCEPT !.buf = <<>>]
           left == On(cleared, "disconnect")
<1>1. /\ cleared \in Engines /\ cleared.buf = <<>> /\ cleared.st = e.st /\ cleared.net = e.net
      /\ Continues(e, cleared)
  BY ClearedFacts
<1>2. Disconnect(e) = IF e.st = "DISCONNECTED" /\ e.net = "down" THEN cleared ELSE CloseAll(left)
  BY DEF Disconnect
<1> HIDE DEF cleared
<1>3. "disconnect" \in Drops
  BY DEF Drops
<1>4. left \in Engines /\ left.buf = <<>> /\ Continues(cleared, left)
  BY <1>1, <1>3, OnFacts, OnContinues
<1> HIDE DEF left
<1>5. Continues(left, CloseAll(left)) /\ Ended(CloseAll(left))
  BY <1>4, CloseAllFacts
<1>6. Continues(cleared, CloseAll(left))
  BY <1>1, <1>4, <1>5, ContinuesChain
<1>7. Continues(e, CloseAll(left))
  BY <1>1, <1>6, ContinuesChain
<1> QED BY <1>1, <1>2, <1>5, <1>7 DEF Ended

LEMMA GracefulFacts ==
    ASSUME NEW e \in Engines
    PROVE  Continues(e, DisconnectGracefully(e)) /\ Ended(DisconnectGracefully(e))
<1>1. CASE e.st = "ACTIVE"
  <2> DEFINE left == On(e, "logout_initiated")
             cleared == [left EXCEPT !.buf = <<>>]
  <2>1. DisconnectGracefully(e) = CloseAll(cleared)
    BY <1>1 DEF DisconnectGracefully
  <2>2. left \in Engines /\ Continues(e, left)
    BY OnFacts, OnContinues
  <2> HIDE DEF left
  <2>3. cleared \in Engines /\ cleared.buf = <<>> /\ Continues(left, cleared)
    BY <2>2, ClearedFacts
  <2> HIDE DEF cleared
  <2>4. Continues(e, cleared)
    BY <2>2, <2>3, ContinuesChain
  <2>5. Continues(cleared, CloseAll(cleared)) /\ Ended(CloseAll(cleared))
    BY <2>3, CloseAllFacts
  <2> QED BY <2>1, <2>4, <2>5, ContinuesChain
<1>2. CASE e.st # "ACTIVE"
  BY <1>2, DisconnectFacts DEF DisconnectGracefully
<1> QED BY <1>1, <1>2

-----------------------------------------------------------------------------
(* Sending.                                                                 *)
(* Disconnecting sends nothing. *)
LEMMA Unchanging ==
    ASSUME NEW e \in Engines
    PROVE  Disconnect(e).sent = e.sent
<1> DEFINE cleared == [e EXCEPT !.buf = <<>>]
           left == On(cleared, "disconnect")
           shut == [NetDown(left) EXCEPT !.hb = FALSE, !.store = Close(@)]
<1>1. cleared \in Engines /\ cleared.sent = e.sent
  BY ClearedFacts DEF Engines
<1> HIDE DEF cleared
<1>2. left \in Engines /\ left.sent = e.sent
  BY <1>1, OnFacts
<1> HIDE DEF left
<1>3. shut \in Engines /\ shut.sent = e.sent
  <2>1. Close(left.store) \in Stores
    BY <1>2, StepFacts DEF Engines
  <2> QED BY <1>2, <2>1 DEF NetDown, Engines
<1> HIDE DEF shut
<1>4. On(shut, "force_disconnect").sent = e.sent
  BY <1>3, OnFacts
<1>5. Disconnect(e) = cleared \/ Disconnect(e) = On(shut, "force_disconnect")
  BY DEF Disconnect, CloseAll, cleared, left, shut
<1> QED BY <1>1, <1>4, <1>5

LEMMA CountedFacts ==
    ASSUME NEW e \in Engines, NEW m \in Messages, Resets(m) => e.store.out = 1
    PROVE  LET f == Counted(e, m) IN
           /\ f \in Engines /\ f.store.out = e.store.out + 1 /\ f.store.in = e.store.in
           /\ f.mode = e.mode /\ f.resets = e.resets /\ f.gap = e.gap /\ f.told = e.told
           /\ f.st = e.st /\ f.net = e.net /\ f.buf = e.buf /\ f.sent = e.sent
<1> DEFINE kept == Keep(e.store, m.seq, m.type)
           store == IF Resets(m) THEN SetOut(kept, 2) ELSE IncrementOut(kept)
<1>1. e.store \in Stores /\ m.seq \in Digits /\ m.type \in Types
  BY DEF Engines, Messages
<1>2. kept \in Stores /\ kept.in = e.store.in /\ kept.out = e.store.out
  BY <1>1, KeepFacts
<1> HIDE DEF kept
<1>3. store \in Stores /\ store.in = e.store.in /\ store.out = e.store.out + 1
  <2>1. 2 \in Digits
    BY DEF Digits
  <2> QED BY <1>2, <2>1, SetFacts, StepFacts
<1>4. Counted(e, m) = [e EXCEPT !.store = store]
  BY DEF Counted, kept
<1> HIDE DEF store
<1> QED BY <1>3, <1>4 DEF Engines

LEMMA SendFacts ==
    ASSUME NEW e \in Engines, NEW m \in Messages, m.seq = Bad,
           Resets(m) => e.store.out = 1
    PROVE  LET f == Send(e, m) IN
           /\ Holds(e, f) /\ (f.st = "ACTIVE" => e.st = "ACTIVE")
           /\ IF e.st # "DISCONNECTED" /\ e.net = "up"
                THEN /\ f.sent = Append(e.sent, [m EXCEPT !.seq = e.store.out])
                     /\ f.store.out = e.store.out + 1 /\ f.st = e.st
                ELSE f.sent = e.sent
           /\ e.st # "DISCONNECTED" /\ e.net = "broken" => Ended(f)
<1> DEFINE n == e.store.out
           numbered == [m EXCEPT !.seq = n]
<1>0. n \in Numbers /\ n \in Nat
  BY DEF Engines, Stores, Numbers
<1>1. numbered \in Messages /\ numbered.seq = n /\ numbered.type = m.type
      /\ numbered.reset = m.reset
  BY <1>0 DEF Messages, Digits
<1>2. (Resets(numbered) <=> Resets(m)) /\ [m EXCEPT !.seq = NumberFor(e, m)] = numbered
  BY <1>1 DEF Resets, NumberFor, NextOut
<1> HIDE DEF numbered
<1>3. CASE e.st = "DISCONNECTED"
  BY <1>3, Stays DEF Send, Continues, Keeps
<1>4. CASE e.st # "DISCONNECTED" /\ e.net = "broken"
  <2> DEFINE down == [e EXCEPT !.net = "down", !.buf = <<>>]
             lost == On(NetDown(e), "disconnect")
  <2>1. Send(e, m) = Disconnect(lost)
    BY <1>4 DEF Send
  <2>2. /\ NetDown(e) \in Engines /\ NetDown(e).net = "down" /\ NetDown(e).st = e.st
        /\ NetDown(e).mode = e.mode /\ NetDown(e).resets = e.resets /\ NetDown(e).gap = e.gap
        /\ NetDown(e).store = e.store /\ NetDown(e).buf = e.buf
        /\ NetDown(e).sent = e.sent /\ NetDown(e).told = e.told
    BY DEF NetDown, Engines
  <2>3. "disconnect" \in Drops
    BY DEF Drops
  <2>4. lost \in Engines /\ Continues(NetDown(e), lost)
    BY <2>2, <2>3, OnFacts, OnContinues
  <2> HIDE DEF lost
  <2>5. Continues(lost, Disconnect(lost)) /\ Ended(Disconnect(lost))
    BY <2>4, DisconnectFacts
  <2>6. Continues(NetDown(e), Disconnect(lost))
    BY <2>2, <2>4, <2>5, ContinuesChain
  <2>7. Send(e, m).sent = e.sent
    <3>1. lost.sent = e.sent
      BY <2>2, OnFacts DEF lost
    <3>2. Disconnect(lost).sent = lost.sent
      BY <2>4, Unchanging
    <3> QED BY <2>1, <3>1, <3>2
  <2>8. Numbered(e, Disconnect(lost))
    BY <2>2, <2>6 DEF Continues, Keeps, Holds, Numbered
  <2> QED BY <1>4, <2>1, <2>2, <2>5, <2>6, <2>7, <2>8 DEF Continues, Keeps, Holds, Ended
<1>5. CASE e.st # "DISCONNECTED" /\ e.net = "up"
  <2> DEFINE out == [e EXCEPT !.sent = Append(e.sent, numbered)]
             f == Counted(out, numbered)
  <2>1. Send(e, m) = f
    BY <1>2, <1>5 DEF Send, Engines
  <2>2. e.sent \in Seq(Messages) /\ Append(e.sent, numbered) \in Seq(Messages)
    BY <1>1, AppendProperties DEF Engines
  <2>3. /\ out \in Engines /\ out.sent = Append(e.sent, numbered) /\ out.store = e.store
        /\ out.mode = e.mode /\ out.resets = e.resets /\ out.gap = e.gap /\ out.told = e.told
        /\ out.st = e.st /\ out.net = e.net /\ out.buf = e.buf
    BY <2>2 DEF Engines
  <2> HIDE DEF out
  <2>4. /\ f \in Engines /\ f.store.out = n + 1 /\ f.store.in = e.store.in
        /\ f.mode = e.mode /\ f.resets = e.resets /\ f.gap = e.gap /\ f.told = e.told
        /\ f.st = e.st /\ f.net = e.net /\ f.buf = e.buf
        /\ f.sent = Append(e.sent, numbered)
    BY <1>1, <1>2, <2>3, CountedFacts
  <2> HIDE DEF f
  <2>5. /\ Len(f.sent) = Len(e.sent) + 1 /\ Len(e.sent) \in Nat
        /\ \A i \in 1 .. Len(e.sent) : f.sent[i] = e.sent[i]
        /\ f.sent[Len(e.sent) + 1] = numbered
    BY <1>1, <2>2, <2>4, AppendProperties, LenProperties
  <2>6. Numbered(e, f)
    <3>1. \A i \in 1 .. Len(f.sent) : i > Len(e.sent) => i = Len(e.sent) + 1
      BY <2>5
    <3>2. \A i, j \in 1 .. Len(f.sent) : ~(i > Len(e.sent) /\ i < j)
      BY <2>5
    <3> QED BY <1>0, <1>1, <2>4, <2>5, <3>1, <3>2 DEF Numbered
  <2> QED BY <1>5, <2>1, <2>4, <2>6 DEF Holds, numbered
<1>6. CASE e.st # "DISCONNECTED" /\ e.net = "down"
  <2> DEFINE f == Counted(e, numbered)
  <2>1. Send(e, m) = f
    BY <1>2, <1>6 DEF Send
  <2>2. /\ f \in Engines /\ f.store.out = n + 1 /\ f.store.in = e.store.in
        /\ f.mode = e.mode /\ f.resets = e.resets /\ f.gap = e.gap /\ f.told = e.told
        /\ f.st = e.st /\ f.net = e.net /\ f.buf = e.buf /\ f.sent = e.sent
    BY <1>1, <1>2, CountedFacts
  <2> HIDE DEF f
  <2>3. Numbered(e, f)
    BY <1>0, <2>2, LenProperties DEF Numbered, Engines
  <2> QED BY <1>6, <2>1, <2>2, <2>3 DEF Holds
<1> QED BY <1>3, <1>4, <1>5, <1>6 DEF Engines

LEMMA SendContinues ==
    ASSUME NEW e \in Engines, NEW m \in Messages, m.seq = Bad,
           Resets(m) => e.store.out = 1, m.type # "ResendRequest"
    PROVE  Continues(e, Send(e, m))
<1> DEFINE f == Send(e, m)
           numbered == [m EXCEPT !.seq = e.store.out]
<1>1. /\ Holds(e, f) /\ (f.st = "ACTIVE" => e.st = "ACTIVE")
      /\ f.sent = Append(e.sent, numbered) \/ f.sent = e.sent
  BY SendFacts
<1>2. numbered.type = m.type /\ numbered \in Messages
  BY DEF Messages, Digits, Engines, Stores, Numbers
<1>3. e.sent \in Seq(Messages) /\ Len(e.sent) \in Nat
  BY LenProperties DEF Engines
<1> HIDE DEF f, numbered
<1>4. AsksNothing(e, f)
  <2>1. CASE f.sent = e.sent
    BY <1>3, <2>1 DEF AsksNothing
  <2>2. CASE f.sent = Append(e.sent, numbered)
    <3>1. Len(f.sent) = Len(e.sent) + 1 /\ f.sent[Len(e.sent) + 1] = numbered
      BY <1>2, <1>3, <2>2, AppendProperties
    <3> QED BY <1>2, <1>3, <3>1 DEF AsksNothing
  <2> QED BY <1>1, <2>1, <2>2
<1>5. Continues(e, f)
  BY <1>1, <1>4 DEF Continues, Keeps
<1> QED BY <1>5 DEF f

-----------------------------------------------------------------------------
(* The handlers.                                                            *)
LEMMA FixmsgFacts ==
    ASSUME NEW type \in Types
    PROVE  /\ fixmsg(type) \in Messages /\ fixmsg(type).type = type
           /\ fixmsg(type).seq = Bad /\ fixmsg(type).reset = FALSE /\ ~fixmsg(type).poss
BY DEF fixmsg, Messages, Digits, None

LEMMA SendRejectContinues ==
    ASSUME NEW e \in Engines PROVE Continues(e, SendReject(e))
<1>1. "Reject" \in Types
  BY DEF Types
<1> QED BY <1>1, FixmsgFacts, SendContinues DEF SendReject, Resets

LEMMA SendLogoutContinues ==
    ASSUME NEW e \in Engines PROVE Continues(e, SendLogout(e))
<1>1. CASE e.st \in {"DISCONNECTED", "LOGOUT_IN_PROGRESS"}
  BY <1>1, Stays DEF SendLogout
<1>2. CASE e.st \notin {"DISCONNECTED", "LOGOUT_IN_PROGRESS"}
  <2> DEFINE f == On(e, "logout_initiated")
  <2>1. SendLogout(e) = Send(f, fixmsg("Logout"))
    BY <1>2 DEF SendLogout
  <2>2. Continues(e, f) /\ f \in Engines
    BY OnContinues, OnFacts
  <2> HIDE DEF f
  <2>3. "Logout" \in Types
    BY DEF Types
  <2>4. Continues(f, Send(f, fixmsg("Logout")))
    BY <2>2, <2>3, FixmsgFacts, SendContinues DEF Resets
  <2> QED BY <2>1, <2>2, <2>4, ContinuesChain
<1> QED BY <1>1, <1>2

(* The Heartbeats and TestRequests of the heartbeat task and of a handler. *)
LEMMA SendWithIdContinues ==
    ASSUME NEW e \in Engines, NEW type \in Types \ {"Logon", "ResendRequest"}, NEW id \in Nat
    PROVE  Continues(e, Send(e, [fixmsg(type) EXCEPT !.id = id]))
<1> DEFINE m == [fixmsg(type) EXCEPT !.id = id]
<1>1. m \in Messages /\ m.type = type /\ m.seq = Bad
  BY FixmsgFacts DEF Messages
<1> HIDE DEF m
<1> QED
  <2>1. Continues(e, Send(e, m))
    BY <1>1, SendContinues DEF Resets
  <2> QED BY <2>1 DEF m

LEMMA HandleTestRequestContinues ==
    ASSUME NEW e \in Engines, NEW m \in Messages
    PROVE  Continues(e, HandleTestRequest(e, m))
<1>1. m.id \in Nat /\ "Heartbeat" \in Types
  BY DEF Messages, Types
<1> QED BY <1>1, SendRejectContinues, SendWithIdContinues DEF HandleTestRequest

(* However many numbers are asked for, each is answered with one gap fill. *)
LEMMA FilledOneByOne ==
    ASSUME NEW e \in Engines, NEW first \in Nat, NEW count \in Nat
    PROVE  \E after :
             /\ Filled(e, first, count) = after[count]
             /\ \A k \in 0 .. count :
                  after[k] = IF k = 0 THEN e ELSE Send(after[k - 1], GapFill(first + k - 1))
<1> DEFINE Fill(f, k) == Send(f, GapFill(first + k - 1))
           Loop(f, n) == f = [k \in 0 .. n |-> IF k = 0 THEN e ELSE Fill(f[k - 1], k)]
           T == {n \in Nat : \E f : Loop(f, n)}
<1>1. \A n \in Nat : \E f : Loop(f, n)
  <2>1. 0 \in T
    <3>1. Loop([k \in 0 .. 0 |-> e], 0)
      OBVIOUS
    <3> QED BY <3>1
  <2>2. ASSUME NEW n \in T PROVE n + 1 \in T
    <3>1. PICK f : Loop(f, n)
      OBVIOUS
    <3> DEFINE g == [k \in 0 .. n + 1 |-> IF k = n + 1 THEN Fill(f[n], n + 1) ELSE f[k]]
    <3>2. \A k \in 0 .. n : g[k] = f[k]
      OBVIOUS
    <3>3. \A k \in 0 .. n : f[k] = IF k = 0 THEN e ELSE Fill(f[k - 1], k)
      BY <3>1
    <3>4. \A k \in 0 .. n + 1 : g[k] = IF k = 0 THEN e ELSE Fill(g[k - 1], k)
      <4> HIDE DEF Fill
      <4> SUFFICES ASSUME NEW k \in 0 .. n + 1
                   PROVE  g[k] = IF k = 0 THEN e ELSE Fill(g[k - 1], k)
        OBVIOUS
      <4>1. CASE k = n + 1
        <5>1. g[k] = Fill(f[n], n + 1) /\ k - 1 = n /\ g[k - 1] = f[n] /\ k # 0
          BY <4>1, <3>2
        <5> QED BY <4>1, <5>1
      <4>2. CASE k # n + 1
        <5>1. k \in 0 .. n /\ g[k] = f[k]
          BY <4>2, <3>2
        <5>2. k # 0 => g[k - 1] = f[k - 1]
          BY <5>1, <3>2
        <5> QED BY <5>1, <5>2, <3>3
      <4> QED BY <4>1, <4>2
    <3>5. Loop(g, n + 1)
      <4> HIDE DEF Fill
      <4> DEFINE h == [k \in 0 .. n + 1 |-> IF k = 0 THEN e ELSE Fill(g[k - 1], k)]
      <4>1. g = [k \in 0 .. n + 1 |-> g[k]]
        OBVIOUS
      <4> HIDE DEF g
      <4>2. h = [k \in 0 .. n + 1 |-> g[k]]
        BY <3>4
      <4> QED BY <4>1, <4>2
    <3>6. n \in Nat
      OBVIOUS
    <3> HIDE DEF Loop, g
    <3> QED BY <3>5, <3>6
  <2> HIDE DEF Loop
  <2>3. T = Nat
    BY <2>1, <2>2, SetInduction
  <2> QED BY <2>3
<1> DEFINE after == CHOOSE f : Loop(f, count)
<1>2. Loop(after, count)
  BY <1>1
<1>3. Filled(e, first, count) = after[count]
  BY DEF Filled
<1> HIDE DEF after
<1>4. \A k \in 0 .. count : after[k] = IF k = 0 THEN e ELSE Fill(after[k - 1], k)
  BY <1>2
<1> QED BY <1>3, <1>4

LEMMA GapFillFacts ==
    ASSUME NEW n \in Nat
    PROVE  LET m == GapFill(n) IN
           /\ m \in Messages /\ m.type = "SequenceReset" /\ m.seq = Bad /\ ~m.poss
           /\ m.fill /\ m.new = n + 1
<1> DEFINE base == fixmsg("SequenceReset")
           m == [base EXCEPT !.fill = TRUE, !.new = n + 1]
<1>1. base \in Messages /\ base.type = "SequenceReset" /\ base.seq = Bad /\ ~base.poss
  BY FixmsgFacts DEF Types
<1> HIDE DEF base
<1>2. n + 1 \in Digits
  BY DEF Digits
<1>3. /\ m \in Messages /\ m.type = "SequenceReset" /\ m.seq = Bad /\ ~m.poss
      /\ m.fill /\ m.new = n + 1
  BY <1>1, <1>2 DEF Messages
<1>4. GapFill(n) = m
  BY DEF GapFill, base
<1> QED BY <1>3, <1>4

LEMMA FilledContinues ==
    ASSUME NEW e \in Engines, NEW first \in Nat, NEW count \in Nat
    PROVE  Continues(e, Filled(e, first, count))
<1>1. PICK after :
        /\ Filled(e, first, count) = after[count]
        /\ \A k \in 0 .. count :
             after[k] = IF k = 0 THEN e ELSE Send(after[k - 1], GapFill(first + k - 1))
  BY FilledOneByOne
<1>2. /\ count \in 0 .. count
      /\ \A k \in 0 .. count :
           after[k] = IF k = 0 THEN e ELSE Send(after[k - 1], GapFill(first + k - 1))
  BY <1>1
<1> DEFINE U == {n \in Nat : n <= count => Continues(e, after[n])}
<1>3. 0 \in U
  BY <1>2, Stays
<1>4. ASSUME NEW n \in U PROVE n + 1 \in U
  <2> SUFFICES ASSUME n + 1 <= count PROVE Continues(e, after[n + 1])
    OBVIOUS
  <2>1. Continues(e, after[n]) /\ after[n + 1] = Send(after[n], GapFill(first + n))
    BY <1>2
  <2>2. /\ GapFill(first + n) \in Messages /\ GapFill(first + n).type = "SequenceReset"
        /\ GapFill(first + n).seq = Bad
    BY GapFillFacts
  <2>3. after[n] \in Engines
    BY <2>1 DEF Continues, Keeps, Holds
  <2>4. Continues(after[n], after[n + 1])
    BY <2>1, <2>2, <2>3, SendContinues DEF Resets
  <2> QED BY <2>1, <2>4, ContinuesChain
<1>5. U = Nat
  <2> HIDE DEF U
  <2>1. U \in SUBSET Nat
    BY DEF U
  <2> QED BY <1>3, <1>4, <2>1, SetInduction
<1> QED BY <1>1, <1>5

LEMMA HandleResendRequestContinues ==
    ASSUME NEW e \in Engines, NEW m \in Messages
    PROVE  Continues(e, HandleResendRequest(e, m))
<1>1. CASE m.begin = Bad \/ m.end = Bad \/ (m.end # 0 /\ m.end < m.begin)
  BY <1>1, SendRejectContinues DEF HandleResendRequest
<1>2. CASE /\ ~(m.begin = Bad \/ m.end = Bad \/ (m.end # 0 /\ m.end < m.begin))
           /\ LastAsked(e, m) < m.begin
  BY <1>2, Stays DEF HandleResendRequest
<1>3. CASE /\ ~(m.begin = Bad \/ m.end = Bad \/ (m.end # 0 /\ m.end < m.begin))
           /\ ~(LastAsked(e, m) < m.begin)
  <2>1. m.begin \in Nat /\ m.end \in Nat
    BY <1>3 DEF Messages, Digits
  <2>2. e.store.out - 1 \in Nat
    BY DEF Engines, Stores, Numbers
  <2>3. LastAsked(e, m) \in Nat
    BY <2>1, <2>2 DEF LastAsked, LastOut
  <2>4. LastAsked(e, m) - m.begin + 1 \in Nat
    BY <1>3, <2>1, <2>3
  <2>5. HandleResendRequest(e, m) = Filled(e, m.begin, LastAsked(e, m) - m.begin + 1)
    BY <1>3 DEF HandleResendRequest
  <2> QED BY <2>1, <2>4, <2>5, FilledContinues
<1> QED BY <1>1, <1>2, <1>3

LEMMA HandleLogoutContinues ==
    ASSUME NEW e \in Engines PROVE Continues(e, HandleLogout(e))
<1> DEFINE s == SendLogout(e)
           f == Disconnect(s)
           w == IF f.wait = "waiting" THEN "done" ELSE f.wait
           g == [f EXCEPT !.wait = w]
<1>1. HandleLogout(e) = g
  BY DEF HandleLogout
<1>2. Continues(e, s) /\ s \in Engines
  BY SendLogoutContinues DEF Continues, Keeps, Holds
<1>3. Continues(s, f) /\ f \in Engines
  BY <1>2, DisconnectFacts DEF Continues, Keeps, Holds
<1>4. Continues(e, f)
  BY <1>2, <1>3, ContinuesChain
<1> HIDE DEF f
<1>5. /\ g \in Engines /\ g.sent = f.sent /\ g.store = f.store /\ g.st = f.st /\ g.net = f.net
      /\ g.buf = f.buf /\ g.mode = f.mode /\ g.resets = f.resets /\ g.gap = f.gap
      /\ g.told = f.told
  BY <1>3 DEF Engines
<1> HIDE DEF g
<1>6. Continues(f, g)
  BY <1>3, <1>5, Unsent DEF Continues, Keeps, Holds
<1> QED BY <1>1, <1>4, <1>6, ContinuesChain

LEMMA HandleHeartbeatContinues ==
    ASSUME NEW e \in Engines, NEW m \in Messages
    PROVE  Continues(e, HandleHeartbeat(e, m))
<1> DEFINE g == [e EXCEPT !.testId = None]
<1>1. /\ g \in Engines /\ g.sent = e.sent /\ g.store = e.store /\ g.st = e.st /\ g.net = e.net
      /\ g.buf = e.buf /\ g.mode = e.mode /\ g.resets = e.resets /\ g.gap = e.gap
      /\ g.told = e.told
  BY DEF Engines, None
<1>2. HandleHeartbeat(e, m) = e \/ HandleHeartbeat(e, m) = g
  BY DEF HandleHeartbeat
<1> HIDE DEF g
<1>3. Continues(e, g)
  BY <1>1, Unsent DEF Continues, Keeps, Holds
<1> QED BY <1>2, <1>3, Stays

LEMMA HandleOtherContinues ==
    ASSUME NEW e \in Engines, NEW m \in Messages
    PROVE  Continues(e, HandleOther(e, m))
<1>1. \/ HandleOther(e, m) = e
      \/ HandleOther(e, m) = SendReject(e)
      \/ HandleOther(e, m) = [e EXCEPT !.buf = <<>>]
  BY DEF HandleOther
<1> QED BY <1>1, Stays, SendRejectContinues, ClearedFacts

-----------------------------------------------------------------------------
(* What a message changes before its handler sends: d is e but for its      *)
(* numbers, its gap and what it told the application. *)
SameSession(e, d) ==
    /\ d \in Engines /\ d.mode = e.mode /\ d.resets = e.resets /\ d.st = e.st
    /\ d.net = e.net /\ d.buf = e.buf /\ d.sent = e.sent

LEMMA ChangeFacts ==
    ASSUME NEW e \in Engines, NEW store \in Stores, NEW gap \in Nat
    PROVE  LET d == [e EXCEPT !.store = store]
               c == [e EXCEPT !.gap = gap] IN
           /\ SameSession(e, d) /\ d.store = store /\ d.gap = e.gap /\ d.told = e.told
           /\ SameSession(e, c) /\ c.store = e.store /\ c.gap = gap /\ c.told = e.told
BY DEF SameSession, Engines

LEMMA HandleAppFacts ==
    ASSUME NEW e \in Engines, NEW m \in Messages
    PROVE  LET d == HandleApp(e, m) IN
           /\ SameSession(e, d) /\ d.store = e.store /\ d.gap = e.gap
           /\ d.told = Append(e.told, m)
<1>1. Append(e.told, m) \in Seq(Messages)
  BY AppendProperties DEF Engines
<1> QED BY <1>1 DEF SameSession, HandleApp, Engines

(* Reset mode is refused, or both counters move up to the number it names. *)
Obeyed(e, m, d) ==
    /\ SameSession(e, d) /\ d.gap = e.gap /\ d.told = e.told
    /\ d.store.in = m.new /\ d.store.out = m.new /\ m.new > e.store.in

LEMMA HandleSequenceResetFacts ==
    ASSUME NEW e \in Engines, NEW m \in Messages, ~m.fill
    PROVE  \/ Continues(e, HandleSequenceReset(e, m))
           \/ \E d : Obeyed(e, m, d) /\ Continues(d, HandleSequenceReset(e, m))
<1>0. e.store \in Stores /\ e.store.in \in Numbers /\ m.new \in Digits /\ m.seq \in Digits
  BY DEF Engines, Stores, Messages
<1>1. CASE m.new = Bad \/ m.new <= m.seq \/ m.new <= e.store.in
  <2>1. HandleSequenceReset(e, m) = SendReject(e)
    <3>1. CASE m.new = Bad
      BY <3>1 DEF HandleSequenceReset
    <3>2. CASE m.new # Bad /\ (m.new <= m.seq \/ m.new <= Expected(e))
      <4>1. ~(m.new > m.seq /\ m.new > Expected(e))
        BY <1>0, <3>2 DEF Digits, Bad, Numbers, Expected
      <4> QED BY <3>2, <4>1 DEF HandleSequenceReset
    <3> QED BY <1>1, <3>1, <3>2 DEF Expected
  <2> QED BY <2>1, SendRejectContinues
<1>2. CASE ~(m.new = Bad \/ m.new <= m.seq \/ m.new <= e.store.in)
  <2> DEFINE in == SetIn(e.store, m.new)
             both == SetOut(in, m.new)
             d == [e EXCEPT !.store = both]
  <2>1. m.new > e.store.in /\ m.new > m.seq /\ m.new >= 1
    BY <1>0, <1>2 DEF Digits, Bad, Numbers
  <2>2. HandleSequenceReset(e, m) = Send(d, fixmsg("Heartbeat"))
    BY <1>2, <2>1 DEF HandleSequenceReset, Expected
  <2>3. in \in Stores /\ in.in = m.new
    BY <1>0, <2>1, SetFacts
  <2> HIDE DEF in
  <2>4. both \in Stores /\ both.in = m.new /\ both.out = m.new
    BY <1>0, <2>1, <2>3, SetFacts
  <2> HIDE DEF both
  <2>5. e.gap \in Nat
    BY DEF Engines
  <2>6. SameSession(e, d) /\ d.store = both /\ d.gap = e.gap /\ d.told = e.told
    BY <2>4, <2>5, ChangeFacts
  <2> HIDE DEF d
  <2>7. "Heartbeat" \in Types /\ d \in Engines
    BY <2>6 DEF Types, SameSession
  <2>8. Continues(d, Send(d, fixmsg("Heartbeat")))
    BY <2>7, FixmsgFacts, SendContinues DEF Resets
  <2> QED BY <2>1, <2>2, <2>4, <2>6, <2>8 DEF Obeyed
<1> QED BY <1>1, <1>2

(* A Logon: refused, answered by the acceptor, or confirmed. *)
Renumbered(e, m, d) ==
    /\ SameSession(e, d) /\ d.gap = e.gap /\ d.told = e.told
    /\ d.store = e.store \/ (m.reset /\ d.store.in = 1 /\ d.store.out = 1)

LEMMA LogonSuccessful ==
    ASSUME NEW e \in Engines, NEW event \in {"logon_successful", "logon_received_valid"}
    PROVE  Keeps(e, On(e, event))
<1> DEFINE f == On(e, event)
<1>1. /\ f \in Engines /\ f.st = OnEvent(e.st, event)
      /\ f.mode = e.mode /\ f.resets = e.resets /\ f.net = e.net /\ f.store = e.store
      /\ f.gap = e.gap /\ f.sent = e.sent /\ f.told = e.told
      /\ f.buf \in {e.buf, <<>>}
  BY OnFacts
<1>2. e.st = "DISCONNECTED" => f.st = "DISCONNECTED"
  <2>1. e.st \in States
    BY DEF Engines
  <2> QED BY <1>1, <2>1, EventFacts
<1> HIDE DEF f
<1>3. Keeps(e, f)
  BY <1>1, <1>2, Unsent DEF Keeps, Holds
<1> QED BY <1>3 DEF f

LEMMA HandleLogonFacts ==
    ASSUME NEW e \in Engines, NEW m \in Messages
    PROVE  \E d : Renumbered(e, m, d) /\ Keeps(d, HandleLogon(e, m))
<1>0. e.store \in Stores /\ e.gap \in Nat
  BY DEF Engines
<1>1. Renumbered(e, m, e)
  BY DEF Renumbered, SameSession
<1>2. CASE ~LogonAccepted(e, m)
  <2>1. HandleLogon(e, m) = SendLogout(e)
    BY <1>2 DEF HandleLogon
  <2> QED BY <1>1, <2>1, SendLogoutContinues DEF Continues
<1>3. CASE LogonAccepted(e, m) /\ e.mode # "acceptor"
  <2>1. HandleLogon(e, m) = On(e, "logon_successful")
    BY <1>3 DEF HandleLogon
  <2> QED BY <1>1, <2>1, LogonSuccessful
<1>4. CASE LogonAccepted(e, m) /\ e.mode = "acceptor"
  <2> DEFINE d == IF m.reset THEN [e EXCEPT !.store = ResetNumbers(e.store)] ELSE e
             answer == [fixmsg("Logon") EXCEPT !.reset = m.reset]
             f == Send(d, answer)
             g == On(f, "logon_received_valid")
             h == [g EXCEPT !.hb = TRUE]
  <2>1. HandleLogon(e, m) = h
    BY <1>4 DEF HandleLogon
  <2>2. /\ ResetNumbers(e.store) \in Stores
        /\ ResetNumbers(e.store).in = 1 /\ ResetNumbers(e.store).out = 1
    BY <1>0, StepFacts
  <2>3. Renumbered(e, m, d) /\ (m.reset => d.store.out = 1)
    BY <1>0, <1>1, <2>2, ChangeFacts DEF Renumbered
  <2>4. d \in Engines
    BY <2>3 DEF Renumbered, SameSession
  <2> HIDE DEF d
  <2>5. answer \in Messages /\ answer.type = "Logon" /\ answer.seq = Bad /\ answer.reset = m.reset
    <3>1. "Logon" \in Types /\ m.reset \in BOOLEAN
      BY DEF Types, Messages
    <3> QED BY <3>1, FixmsgFacts DEF Messages
  <2> HIDE DEF answer
  <2>6. Continues(d, f)
    BY <2>3, <2>4, <2>5, SendContinues DEF Resets
  <2>7. f \in Engines
    BY <2>6 DEF Continues, Keeps, Holds
  <2> HIDE DEF f
  <2>8. Keeps(f, g) /\ g \in Engines
    BY <2>7, LogonSuccessful DEF Keeps, Holds
  <2> HIDE DEF g
  <2>9. /\ h \in Engines /\ h.sent = g.sent /\ h.store = g.store /\ h.st = g.st /\ h.net = g.net
        /\ h.buf = g.buf /\ h.mode = g.mode /\ h.resets = g.resets /\ h.gap = g.gap
        /\ h.told = g.told
    BY <2>8 DEF Engines
  <2> HIDE DEF h
  <2>10. Keeps(g, h)
    BY <2>8, <2>9, Unsent DEF Keeps, Holds
  <2>11. Keeps(d, g)
    BY <2>4, <2>6, <2>8, KeepsChain DEF Continues
  <2>12. Keeps(d, h)
    BY <2>4, <2>10, <2>11, KeepsChain
  <2> QED BY <2>1, <2>3, <2>12
<1> QED BY <1>2, <1>3, <1>4

-----------------------------------------------------------------------------
(* The handlers together.  A message that is not a Logon opens no session;  *)
(* only a SequenceReset that is obeyed moves a counter. *)
Handed(e, m, d) ==
    /\ SameSession(e, d) /\ d.gap = e.gap /\ d.store = e.store
    /\ IF m.type = "App" THEN d.told = Append(e.told, m) ELSE d.told = e.told

LEMMA ProcessFacts ==
    ASSUME NEW e \in Engines, NEW m \in Messages, ~Fills(m), ~(m.type = "Logon" /\ m.reset)
    PROVE  LET f == Process(e, m) IN
           /\ f.st = "ACTIVE" => e.st = "ACTIVE" \/ m.type = "Logon"
           /\ \/ \E d : Handed(e, m, d) /\ Keeps(d, f)
              \/ m.type = "SequenceReset" /\ \E d : Obeyed(e, m, d) /\ Keeps(d, f)
<1> DEFINE f == Process(e, m)
<1>0. m.type \in Types
  BY DEF Messages
<1>1. m.type # "App" => Handed(e, m, e)
  BY DEF Handed, SameSession
<1>2. ASSUME Continues(e, f), m.type # "App" PROVE f.st = "ACTIVE" => e.st = "ACTIVE"
  BY <1>2 DEF Continues
<1>3. CASE m.type = "Logon"
  <2>1. f = HandleLogon(e, m) /\ ~m.reset
    BY <1>3 DEF Process
  <2>2. PICK d : Renumbered(e, m, d) /\ Keeps(d, f)
    BY <2>1, HandleLogonFacts
  <2>3. Handed(e, m, d)
    BY <1>3, <2>1, <2>2 DEF Renumbered, Handed
  <2> QED BY <1>3, <2>2, <2>3
<1>4. CASE m.type = "App"
  <2> DEFINE d == HandleApp(e, m)
  <2>1. f = d
    BY <1>4 DEF Process
  <2>2. Handed(e, m, d) /\ d \in Engines /\ d.st = e.st
    BY <1>4, HandleAppFacts DEF Handed, SameSession
  <2> HIDE DEF d
  <2> QED BY <2>1, <2>2, Stays DEF Continues
<1>5. CASE m.type = "SequenceReset"
  <2>1. f = HandleSequenceReset(e, m) /\ ~m.fill
    BY <1>5 DEF Process, Fills
  <2>2. CASE Continues(e, f)
    BY <1>1, <1>5, <2>2 DEF Continues
  <2>3. CASE ~Continues(e, f)
    <3>1. PICK d : Obeyed(e, m, d) /\ Continues(d, f)
      BY <2>1, <2>3, HandleSequenceResetFacts
    <3>2. d.st = e.st
      BY <3>1 DEF Obeyed, SameSession
    <3> QED BY <1>5, <3>1, <3>2 DEF Continues
  <2> QED BY <2>2, <2>3
<1>6. CASE m.type \notin {"Logon", "App", "SequenceReset"}
  <2>1. Continues(e, f)
    <3>1. CASE m.type = "TestRequest"
      BY <3>1, HandleTestRequestContinues DEF Process
    <3>2. CASE m.type = "ResendRequest"
      BY <3>2, HandleResendRequestContinues DEF Process
    <3>3. CASE m.type = "Reject"
      BY <3>3, Stays DEF Process, HandleReject
    <3>4. CASE m.type = "Logout"
      BY <3>4, HandleLogoutContinues DEF Process
    <3>5. CASE m.type = "Heartbeat"
      BY <3>5, HandleHeartbeatContinues DEF Process
    <3>6. CASE m.type \in {"OtherAdmin", "OtherApp"}
      BY <3>6, HandleOtherContinues DEF Process
    <3> QED BY <1>0, <1>6, <3>1, <3>2, <3>3, <3>4, <3>5, <3>6 DEF Types
  <2> QED BY <1>1, <1>6, <2>1 DEF Continues
<1> QED BY <1>3, <1>4, <1>5, <1>6

-----------------------------------------------------------------------------
(* What process_single_fix_message does with m, as five outcomes.           *)
(* m changes no number: it has none, it fills nothing, it is too low, or it  *)
(* shows a gap that was asked about. *)
PassedOver(e, m, f) ==
    /\ Continues(e, f)
    /\ m.seq # e.store.in \/ Fills(m)
    /\ m.seq > e.store.in /\ ~Fills(m) => e.gap = e.store.in /\ f = e
    /\ ~(m.type = "Logon" /\ m.reset /\ m.seq # Bad)

FilledUp(e, m, f) ==
    /\ Fills(m) /\ SameSession(e, f)
    /\ f.gap = e.gap /\ f.told = e.told
    /\ f.store.out = e.store.out /\ f.store.in > e.store.in

BegunAnew(e, m, f) ==
    /\ m.type = "Logon" /\ m.reset /\ m.seq # Bad
    /\ \E d : /\ SameSession(e, d) /\ d.gap = e.gap /\ d.told = e.told
              /\ d.store.in \in {1, 2}
              /\ Keeps(d, f)

Asked(e, m, f) ==
    /\ m.seq > e.store.in /\ ~Fills(m) /\ e.gap # e.store.in
    /\ ~(m.type = "Logon" /\ m.reset)
    /\ f.st = "ACTIVE" => e.st = "ACTIVE"
    /\ \E d : SameSession(e, d) /\ d.gap = e.store.in /\ d.told = e.told
              /\ d.store = e.store /\ Holds(d, f)
    /\ IF e.st # "DISCONNECTED" /\ e.net = "up"
         THEN \E r \in Messages : /\ f.sent = Append(e.sent, r)
                                  /\ r.type = "ResendRequest" /\ r.begin = e.store.in
         ELSE f.sent = e.sent
    /\ e.st # "DISCONNECTED" /\ e.net = "broken" => f.st = "DISCONNECTED"

(* In its turn, or lower and marked PossDup. *)
Counts(e, m, d) ==
    \/ /\ m.type \notin {"Logon", "Logout", "SequenceReset"}
       /\ d.store.in = e.store.in + 1 /\ d.store.out = e.store.out
    \/ /\ m.type \in {"Logon", "Logout", "SequenceReset"}
       /\ d.store.in = e.store.in /\ d.store.out = e.store.out
    \/ /\ m.type = "SequenceReset" /\ ~m.fill
       /\ d.store.in = d.store.out /\ d.store.in > e.store.in

TakenUp(e, m, f) ==
    /\ m.seq # Bad /\ ~Fills(m) /\ ~(m.type = "Logon" /\ m.reset)
    /\ m.seq = e.store.in \/ (m.seq < e.store.in /\ m.poss)
    /\ f.st = "ACTIVE" => e.st = "ACTIVE" \/ m.type = "Logon"
    /\ \E d : /\ SameSession(e, d) /\ Keeps(d, f)
              /\ d.gap = IF m.seq = e.store.in THEN None ELSE e.gap
              /\ IF m.type = "App" THEN d.told = Append(e.told, m) ELSE d.told = e.told
              /\ Counts(e, m, d)

LEMMA BadNumberFacts ==
    ASSUME NEW e \in Engines PROVE Continues(e, BadNumber(e))
<1> DEFINE s == SendLogout(e)
<1>1. Continues(e, s)
  BY SendLogoutContinues
<1>2. s \in Engines
  BY <1>1 DEF Continues, Keeps, Holds
<1>3. BadNumber(e) = On(s, "disconnect") /\ "disconnect" \in Drops
  BY DEF BadNumber, Drops
<1> HIDE DEF s
<1>4. Continues(s, On(s, "disconnect"))
  BY <1>2, <1>3, OnContinues
<1> QED BY <1>1, <1>3, <1>4, ContinuesChain

LEMMA FilledToFacts ==
    ASSUME NEW e \in Engines, NEW m \in Messages, Fills(m)
    PROVE  PassedOver(e, m, FilledTo(e, m)) \/ FilledUp(e, m, FilledTo(e, m))
<1>0. e.store \in Stores /\ e.gap \in Nat /\ m.new \in Digits /\ e.store.in \in Numbers
  BY DEF Engines, Messages, Stores
<1>1. CASE m.new # Bad /\ m.new > e.store.in
  <2> DEFINE store == SetIn(e.store, m.new)
             d == [e EXCEPT !.store = store]
  <2>1. FilledTo(e, m) = d
    BY <1>1 DEF FilledTo, Expected
  <2>2. store \in Stores /\ store.in = m.new /\ store.out = e.store.out
    <3>1. m.new >= 1
      BY <1>0, <1>1 DEF Numbers, Digits, Bad
    <3> QED BY <1>0, <3>1, SetFacts
  <2> HIDE DEF store
  <2>3. SameSession(e, d) /\ d.store = store /\ d.gap = e.gap /\ d.told = e.told
    BY <1>0, <2>2, ChangeFacts
  <2> HIDE DEF d
  <2> QED BY <1>1, <2>1, <2>2, <2>3 DEF FilledUp
<1>2. CASE ~(m.new # Bad /\ m.new > e.store.in)
  <2>1. FilledTo(e, m) = e
    BY <1>2 DEF FilledTo, Expected
  <2> QED BY <2>1, Stays DEF PassedOver, Fills
<1> QED BY <1>1, <1>2

LEMMA ResetLogonFacts ==
    ASSUME NEW e \in Engines, NEW m \in Messages,
           m.type = "Logon", m.reset, m.seq # Bad
    PROVE  BegunAnew(e, m, ResetLogon(e, m))
<1> DEFINE store == SetIn(e.store, 2)
           d == [e EXCEPT !.store = store]
<1>0. e.store \in Stores /\ e.gap \in Nat /\ 2 \in Digits
  BY DEF Engines, Digits
<1>1. ResetLogon(e, m) = HandleLogon(d, m)
  BY DEF ResetLogon
<1>2. store \in Stores /\ store.in = 2
  BY <1>0, SetFacts
<1> HIDE DEF store
<1>3. SameSession(e, d) /\ d.store = store /\ d.gap = e.gap /\ d.told = e.told
  BY <1>0, <1>2, ChangeFacts
<1> HIDE DEF d
<1>4. PICK c : Renumbered(d, m, c) /\ Keeps(c, HandleLogon(d, m))
  BY <1>3, HandleLogonFacts DEF SameSession
<1>5. SameSession(e, c) /\ c.gap = e.gap /\ c.told = e.told /\ c.store.in \in {1, 2}
  BY <1>2, <1>3, <1>4 DEF Renumbered, SameSession
<1> QED BY <1>1, <1>4, <1>5 DEF BegunAnew

LEMMA TooHighFacts ==
    ASSUME NEW e \in Engines, NEW m \in Messages,
           m.seq > e.store.in, ~Fills(m), ~(m.type = "Logon" /\ m.reset)
    PROVE  PassedOver(e, m, TooHigh(e)) \/ Asked(e, m, TooHigh(e))
<1>0. e.store.in \in Nat /\ e.store.in # 0 /\ m.seq \in Digits
  BY DEF Engines, Stores, Numbers, Messages
<1>1. CASE e.gap = e.store.in
  <2>1. TooHigh(e) = e
    BY <1>1 DEF TooHigh, Expected
  <2>2. m.seq # e.store.in
    BY <1>0 DEF Digits, Bad
  <2> QED BY <1>1, <2>1, <2>2, Stays DEF PassedOver
<1>2. CASE e.gap # e.store.in
  <2> DEFINE base == fixmsg("ResendRequest")
             ask == [base EXCEPT !.begin = e.store.in, !.end = 0]
             f == Send(e, ask)
             g == [f EXCEPT !.gap = e.store.in]
             d == [e EXCEPT !.gap = e.store.in]
             numbered == [ask EXCEPT !.seq = e.store.out]
  <2>1. TooHigh(e) = g
    BY <1>2 DEF TooHigh, Expected
  <2>2. base \in Messages /\ base.type = "ResendRequest" /\ base.seq = Bad
    BY FixmsgFacts DEF Types
  <2> HIDE DEF base
  <2>3. /\ ask \in Messages /\ ask.type = "ResendRequest" /\ ask.seq = Bad
        /\ ask.begin = e.store.in
    BY <1>0, <2>2 DEF Messages, Digits
  <2> HIDE DEF ask
  <2>4. ~Resets(ask)
    BY <2>3 DEF Resets
  <2>5. /\ Holds(e, f) /\ (f.st = "ACTIVE" => e.st = "ACTIVE")
        /\ IF e.st # "DISCONNECTED" /\ e.net = "up" THEN f.sent = Append(e.sent, numbered)
           ELSE f.sent = e.sent
        /\ e.st # "DISCONNECTED" /\ e.net = "broken" => f.st = "DISCONNECTED"
    BY <2>3, <2>4, SendFacts DEF Ended
  <2>6. /\ numbered \in Messages /\ numbered.type = "ResendRequest"
        /\ numbered.begin = e.store.in
    <3>1. e.store.out \in Digits
      BY DEF Engines, Stores, Numbers, Digits
    <3> QED BY <2>3, <3>1 DEF Messages
  <2> HIDE DEF numbered
  <2>7. e.store \in Stores
    BY DEF Engines
  <2>8. SameSession(e, d) /\ d.gap = e.store.in /\ d.told = e.told /\ d.store = e.store
    BY <1>0, <2>7, ChangeFacts
  <2> HIDE DEF d
  <2>9. f \in Engines
    BY <2>5 DEF Holds
  <2> HIDE DEF f
  <2>10. f.store \in Stores
    BY <2>9 DEF Engines
  <2>11. SameSession(f, g) /\ g.gap = e.store.in /\ g.told = f.told /\ g.store = f.store
    BY <1>0, <2>9, <2>10, ChangeFacts
  <2> HIDE DEF g
  <2>12. Holds(d, g)
    <3>1. Numbered(d, g)
      BY <2>5, <2>8, <2>11 DEF Holds, SameSession, Numbered
    <3> QED BY <2>5, <2>8, <2>11, <3>1 DEF Holds, SameSession
  <2>13. \E c : SameSession(e, c) /\ c.gap = e.store.in /\ c.told = e.told
                /\ c.store = e.store /\ Holds(c, g)
    BY <2>8, <2>12
  <2>14. g.st = f.st /\ g.sent = f.sent
    BY <2>11 DEF SameSession
  <2> QED BY <1>2, <2>1, <2>5, <2>6, <2>13, <2>14 DEF Asked
<1> QED BY <1>1, <1>2

LEMMA TakenFacts ==
    ASSUME NEW e \in Engines, NEW m \in Messages,
           m.seq # Bad, ~Fills(m), ~(m.type = "Logon" /\ m.reset),
           m.seq = e.store.in \/ (m.seq < e.store.in /\ m.poss)
    PROVE  TakenUp(e, m, Taken(e, m))
<1> DEFINE f == IF m.seq = e.store.in THEN [e EXCEPT !.gap = None] ELSE e
           store == IncrementIn(f.store)
           g == IF m.type \in {"Logon", "Logout", "SequenceReset"} THEN f
                ELSE [f EXCEPT !.store = store]
           h == Process(g, m)
<1>1. e.store \in Stores /\ e.gap \in Nat /\ None \in Nat
  BY DEF Engines, None
<1>2. /\ SameSession(e, f) /\ f.store = e.store /\ f.told = e.told
      /\ f.gap = IF m.seq = e.store.in THEN None ELSE e.gap
  <2>1. CASE m.seq = e.store.in
    <3>1. f = [e EXCEPT !.gap = None]
      BY <2>1
    <3> HIDE DEF f
    <3> QED BY <1>1, <2>1, <3>1 DEF SameSession, Engines
  <2>2. CASE m.seq # e.store.in
    BY <2>2 DEF SameSession
  <2> QED BY <2>1, <2>2
<1>3. Taken(e, m) = h
  <2>1. Taken(e, m) = Process(IF m.type \in {"Logon", "Logout", "SequenceReset"} THEN f
                              ELSE [f EXCEPT !.store = IncrementIn(f.store)], m)
    BY DEF Taken, Expected
  <2> QED BY <2>1
<1> HIDE DEF f
<1>4. f \in Engines /\ f.gap \in Nat
  BY <1>2 DEF SameSession, Engines
<1>5. store \in Stores /\ store.in = e.store.in + 1 /\ store.out = e.store.out
  BY <1>1, <1>2, StepFacts
<1> HIDE DEF store
<1>6. /\ SameSession(f, g) /\ g.told = f.told /\ g.gap = f.gap
      /\ IF m.type \in {"Logon", "Logout", "SequenceReset"} THEN g.store = f.store
         ELSE g.store = store
  <2>1. CASE m.type \in {"Logon", "Logout", "SequenceReset"}
    BY <1>4, <2>1 DEF SameSession
  <2>2. CASE m.type \notin {"Logon", "Logout", "SequenceReset"}
    BY <1>4, <1>5, <2>2, ChangeFacts
  <2> QED BY <2>1, <2>2
<1> HIDE DEF g
<1>7. g \in Engines
  BY <1>6 DEF SameSession
<1>8. g.st = e.st
  BY <1>2, <1>6 DEF SameSession
<1>9. h.st = "ACTIVE" => e.st = "ACTIVE" \/ m.type = "Logon"
  BY <1>7, <1>8, ProcessFacts
<1>10. \/ \E d : Handed(g, m, d) /\ Keeps(d, h)
       \/ m.type = "SequenceReset" /\ \E d : Obeyed(g, m, d) /\ Keeps(d, h)
  BY <1>7, ProcessFacts
<1> HIDE DEF h
<1>11. \E d : /\ SameSession(e, d) /\ Keeps(d, h)
              /\ d.gap = IF m.seq = e.store.in THEN None ELSE e.gap
              /\ IF m.type = "App" THEN d.told = Append(e.told, m) ELSE d.told = e.told
              /\ Counts(e, m, d)
  <2>1. CASE \E d : Handed(g, m, d) /\ Keeps(d, h)
    <3>1. PICK d : Handed(g, m, d) /\ Keeps(d, h)
      BY <2>1
    <3>2. SameSession(e, d)
      BY <1>2, <1>6, <3>1 DEF Handed, SameSession
    <3>3. /\ d.gap = IF m.seq = e.store.in THEN None ELSE e.gap
          /\ IF m.type = "App" THEN d.told = Append(e.told, m) ELSE d.told = e.told
      BY <1>2, <1>6, <3>1 DEF Handed
    <3>4. Counts(e, m, d)
      BY <1>2, <1>5, <1>6, <3>1 DEF Handed, Counts
    <3> QED BY <3>1, <3>2, <3>3, <3>4
  <2>2. CASE m.type = "SequenceReset" /\ \E d : Obeyed(g, m, d) /\ Keeps(d, h)
    <3>1. PICK d : Obeyed(g, m, d) /\ Keeps(d, h)
      BY <2>2
    <3>2. SameSession(e, d)
      BY <1>2, <1>6, <3>1 DEF Obeyed, SameSession
    <3>3. d.gap = (IF m.seq = e.store.in THEN None ELSE e.gap) /\ d.told = e.told
      BY <1>2, <1>6, <3>1 DEF Obeyed
    <3>4. Counts(e, m, d)
      BY <1>2, <1>6, <2>2, <3>1 DEF Obeyed, Counts, Fills
    <3> QED BY <2>2, <3>1, <3>2, <3>3, <3>4
  <2> QED BY <1>10, <2>1, <2>2
<1> QED BY <1>3, <1>9, <1>11 DEF TakenUp

(* process_single_fix_message does one of five things, whatever the engine  *)
(* and the message: it passes the message over, moves the expected number as *)
(* a gap fill says, begins a numbering anew, asks about a gap once, or takes *)
(* the message up and counts it. *)
THEOREM FiveOutcomes ==
    ASSUME NEW e \in Engines, NEW m \in Messages
    PROVE  LET f == ProcessSingle(e, m) IN
           \/ PassedOver(e, m, f) \/ FilledUp(e, m, f) \/ BegunAnew(e, m, f)
           \/ Asked(e, m, f) \/ TakenUp(e, m, f)
<1>0. e.store.in \in Nat /\ e.store.in # 0 /\ m.seq \in Digits
  BY DEF Engines, Stores, Numbers, Messages
<1>1. CASE m.seq = Bad
  <2>1. ProcessSingle(e, m) = BadNumber(e)
    BY <1>1 DEF ProcessSingle
  <2>2. m.seq # e.store.in /\ ~(m.seq > e.store.in)
    BY <1>0, <1>1 DEF Bad
  <2> QED BY <1>1, <2>1, <2>2, BadNumberFacts DEF PassedOver
<1>2. CASE m.seq # Bad /\ Fills(m)
  <2>1. ProcessSingle(e, m) = FilledTo(e, m)
    <3>1. m.type # "Logon"
      BY <1>2 DEF Fills
    <3> QED BY <1>2, <3>1 DEF ProcessSingle
  <2> QED BY <1>2, <2>1, FilledToFacts
<1>3. CASE m.seq # Bad /\ m.type = "Logon" /\ m.reset
  <2>1. ~Fills(m)
    BY <1>3 DEF Fills
  <2>2. ProcessSingle(e, m) = ResetLogon(e, m)
    BY <1>3, <2>1 DEF ProcessSingle
  <2> QED BY <1>3, <2>2, ResetLogonFacts
<1>4. CASE m.seq # Bad /\ ~Fills(m) /\ ~(m.type = "Logon" /\ m.reset)
  <2>0. ProcessSingle(e, m) =
          CASE m.seq > Expected(e)             -> TooHigh(e)
            [] m.seq < Expected(e) /\ ~m.poss -> SendLogout(e)
            [] OTHER                           -> Taken(e, m)
    BY <1>4 DEF ProcessSingle
  <2>1. m.seq \in Nat
    BY <1>0, <1>4 DEF Digits
  <2>2. CASE m.seq > e.store.in
    <3>1. ~(m.seq < Expected(e) /\ ~m.poss)
      BY <1>0, <2>1, <2>2 DEF Expected
    <3>2. ProcessSingle(e, m) = TooHigh(e)
      BY <2>0, <2>2, <3>1 DEF Expected
    <3> QED BY <1>4, <2>2, <3>2, TooHighFacts
  <2>3. CASE m.seq < e.store.in /\ ~m.poss
    <3>1. ~(m.seq > Expected(e)) /\ m.seq # e.store.in /\ ~(m.seq > e.store.in)
      BY <1>0, <2>1, <2>3 DEF Expected
    <3>2. ProcessSingle(e, m) = SendLogout(e)
      BY <2>0, <2>3, <3>1 DEF Expected
    <3> QED BY <1>4, <3>1, <3>2, SendLogoutContinues DEF PassedOver
  <2>4. CASE m.seq = e.store.in \/ (m.seq < e.store.in /\ m.poss)
    <3>1. ~(m.seq > Expected(e)) /\ ~(m.seq < Expected(e) /\ ~m.poss)
      BY <1>0, <2>1, <2>4 DEF Expected
    <3>2. ProcessSingle(e, m) = Taken(e, m)
      BY <2>0, <3>1
    <3> QED BY <1>4, <2>4, <3>2, TakenFacts
  <2> QED BY <1>0, <2>1, <2>2, <2>3, <2>4
<1> QED BY <1>1, <1>2, <1>3, <1>4

(* A message is taken off the buffer when its step is over. *)
LEMMA NextFacts ==
    ASSUME NEW e \in Engines, e.buf # <<>>
    PROVE  /\ Head(e.buf) \in Messages
           /\ LET f == ProcessNext(e)
                  g == ProcessSingle(e, Head(e.buf)) IN
              g \in Engines =>
                /\ f \in Engines /\ f.mode = g.mode /\ f.st = g.st /\ f.net = g.net
                /\ f.store = g.store /\ f.gap = g.gap /\ f.sent = g.sent /\ f.told = g.told
                /\ g.buf = <<>> => f.buf = <<>>
                /\ f.buf \in {<<>>, Tail(g.buf)}
<1>1. Head(e.buf) \in Messages
  BY HeadTailProperties DEF Engines
<1>2. ASSUME NEW g \in Engines, g = ProcessSingle(e, Head(e.buf))
      PROVE  LET f == ProcessNext(e) IN
             /\ f \in Engines /\ f.mode = g.mode /\ f.st = g.st /\ f.net = g.net
             /\ f.store = g.store /\ f.gap = g.gap /\ f.sent = g.sent /\ f.told = g.told
             /\ g.buf = <<>> => f.buf = <<>>
             /\ f.buf \in {<<>>, Tail(g.buf)}
  <2> DEFINE b == IF g.buf = <<>> THEN g.buf ELSE Tail(g.buf)
  <2>1. b \in Seq(Messages) /\ (g.buf = <<>> => b = <<>>) /\ b \in {<<>>, Tail(g.buf)}
    BY HeadTailProperties DEF Engines
  <2>2. ProcessNext(e) = [g EXCEPT !.buf = b]
    BY <1>2 DEF ProcessNext
  <2> HIDE DEF b
  <2> QED BY <2>1, <2>2 DEF Engines
<1> QED BY <1>1, <1>2

-----------------------------------------------------------------------------
(* The tasks around the handlers.                                           *)
LEMMA TaskContinues ==
    ASSUME NEW e \in Engines, NEW id \in Nat
    PROVE  /\ Continues(e, HeartbeatDue(e)) /\ Continues(e, TestRequestDue(e, id))
           /\ Continues(e, AppSend(e, id))
<1>1. e.testId \in Nat
  BY DEF Engines
<1>2. /\ "Heartbeat" \in Types \ {"Logon", "ResendRequest"}
      /\ "TestRequest" \in Types \ {"Logon", "ResendRequest"}
      /\ "App" \in Types \ {"Logon", "ResendRequest"}
  BY DEF Types
<1>3. Continues(e, HeartbeatDue(e)) /\ Continues(e, AppSend(e, id))
  BY <1>1, <1>2, SendWithIdContinues DEF HeartbeatDue, AppSend
<1>4. Continues(e, TestRequestDue(e, id))
  <2> DEFINE f == Send(e, [fixmsg("TestRequest") EXCEPT !.id = id])
             g == [f EXCEPT !.testId = id]
  <2>1. Continues(e, f)
    BY <1>2, SendWithIdContinues
  <2>2. TestRequestDue(e, id) = g
    BY DEF TestRequestDue
  <2> HIDE DEF f
  <2>3. f \in Engines
    BY <2>1 DEF Continues, Keeps, Holds
  <2>4. /\ g \in Engines /\ g.sent = f.sent /\ g.store = f.store /\ g.st = f.st /\ g.net = f.net
        /\ g.buf = f.buf /\ g.mode = f.mode /\ g.resets = f.resets /\ g.gap = f.gap
        /\ g.told = f.told
    BY <2>3 DEF Engines
  <2> HIDE DEF g
  <2>5. Continues(f, g)
    BY <2>3, <2>4, Unsent DEF Continues, Keeps, Holds
  <2> QED BY <2>1, <2>2, <2>5, ContinuesChain
<1> QED BY <1>3, <1>4

LEMMA LogoffContinues ==
    ASSUME NEW e \in Engines
    PROVE  Continues(e, RequestLogoff(e)) /\ Continues(e, LogoffOver(e))
<1>1. ASSUME NEW w \in {"none", "waiting"}
      PROVE  Continues(e, [e EXCEPT !.wait = w])
  <2> DEFINE g == [e EXCEPT !.wait = w]
  <2>1. /\ g \in Engines /\ g.sent = e.sent /\ g.store = e.store /\ g.st = e.st /\ g.net = e.net
        /\ g.buf = e.buf /\ g.mode = e.mode /\ g.resets = e.resets /\ g.gap = e.gap
        /\ g.told = e.told
    BY DEF Engines
  <2> HIDE DEF g
  <2>2. Continues(e, g)
    BY <2>1, Unsent DEF Continues, Keeps, Holds
  <2> QED BY <2>2 DEF g
<1>2. Continues(e, RequestLogoff(e))
  <2> DEFINE g == [e EXCEPT !.wait = "waiting"]
  <2>1. Continues(e, g) /\ RequestLogoff(e) = SendLogout(g)
    BY <1>1 DEF RequestLogoff
  <2> HIDE DEF g
  <2>2. g \in Engines
    BY <2>1 DEF Continues, Keeps, Holds
  <2> QED BY <2>1, <2>2, SendLogoutContinues, ContinuesChain
<1>3. Continues(e, LogoffOver(e))
  <2> DEFINE g == [e EXCEPT !.wait = "none"]
  <2>1. Continues(e, g) /\ LogoffOver(e) = Disconnect(g)
    BY <1>1 DEF LogoffOver
  <2> HIDE DEF g
  <2>2. g \in Engines
    BY <2>1 DEF Continues, Keeps, Holds
  <2> QED BY <2>1, <2>2, DisconnectFacts, ContinuesChain
<1> QED BY <1>2, <1>3

(* A network that goes down by itself leaves a buffer that is empty.        *)
LEMMA NetDownFacts ==
    ASSUME NEW e \in Engines
    PROVE  LET f == NetDown(e) IN
           /\ f \in Engines /\ f.net = "down" /\ f.st = e.st /\ f.buf = e.buf
           /\ f.mode = e.mode /\ f.resets = e.resets /\ f.gap = e.gap /\ f.store = e.store
           /\ f.sent = e.sent /\ f.told = e.told
BY DEF NetDown, Engines

LEMMA ReceiveEndedContinues ==
    ASSUME NEW e \in Engines, e.buf = <<>>
    PROVE  /\ Continues(e, ReceiveEnded(e))
           /\ e.mode = "acceptor" => ReceiveEnded(e).st = "DISCONNECTED"
<1> DEFINE f == NetDown(e)
<1>1. /\ f \in Engines /\ f.net = "down" /\ f.st = e.st /\ f.buf = e.buf
      /\ f.mode = e.mode /\ f.resets = e.resets /\ f.gap = e.gap /\ f.store = e.store
      /\ f.sent = e.sent /\ f.told = e.told
  BY NetDownFacts
<1>2. ReceiveEnded(e) = IF e.mode = "acceptor" THEN On(f, "disconnect") ELSE f
  BY DEF ReceiveEnded
<1> HIDE DEF f
<1>3. Continues(e, f)
  BY <1>1, Unsent DEF Continues, Keeps, Holds
<1>4. "disconnect" \in Drops /\ f.st \in States
  BY <1>1 DEF Drops, Engines
<1>5. Continues(f, On(f, "disconnect")) /\ On(f, "disconnect").st = "DISCONNECTED"
  BY <1>1, <1>4, OnContinues, OnFacts, EventFacts
<1> QED BY <1>2, <1>3, <1>5, ContinuesChain

LEMMA HeartbeatTimeoutContinues ==
    ASSUME NEW e \in Engines, e.st = "ACTIVE"
    PROVE  Continues(e, HeartbeatTimeout(e)) /\ HeartbeatTimeout(e).st = "DISCONNECTED"
<1>1. CASE e.mode = "initiator" /\ e.net = "up"
  <2> DEFINE f == NetDown(e)
             g == On(f, "disconnect")
  <2>1. /\ f \in Engines /\ f.net = "down" /\ f.st = e.st /\ f.buf = e.buf
        /\ f.mode = e.mode /\ f.resets = e.resets /\ f.gap = e.gap /\ f.store = e.store
        /\ f.sent = e.sent /\ f.told = e.told
    BY NetDownFacts
  <2>2. HeartbeatTimeout(e) = g
    BY <1>1 DEF HeartbeatTimeout
  <2>3. OnEvent(f.st, "disconnect") = "DISCONNECTED" /\ f.st # "DISCONNECTED"
    <3>1. f.st \in States /\ "disconnect" \in Drops
      BY <2>1 DEF Engines, Drops
    <3> QED BY <2>1, <3>1, EventFacts
  <2>4. /\ g \in Engines /\ g.st = "DISCONNECTED" /\ g.net = "down"
        /\ g.mode = e.mode /\ g.resets = e.resets /\ g.gap = e.gap /\ g.store = e.store
        /\ g.sent = e.sent /\ g.told = e.told
    BY <2>1, <2>3, OnFacts
  <2>5. g.buf = <<>>
    <3> HIDE DEF f
    <3>1. g = [f EXCEPT !.st = "DISCONNECTED", !.hb = FALSE, !.buf = <<>>]
      BY <2>3 DEF On
    <3> HIDE DEF g
    <3> QED BY <2>1, <3>1 DEF Engines
  <2> HIDE DEF f, g
  <2>6. Continues(e, g)
    BY <2>4, <2>5, Unsent DEF Continues, Keeps, Holds
  <2> QED BY <2>2, <2>4, <2>6
<1>2. CASE ~(e.mode = "initiator" /\ e.net = "up")
  <2>1. HeartbeatTimeout(e) = Disconnect(e)
    BY <1>2 DEF HeartbeatTimeout
  <2> QED BY <2>1, DisconnectFacts DEF Ended
<1> QED BY <1>1, <1>2

-----------------------------------------------------------------------------
(* A connection.  What begins one leaves the numbers, unless the Logon it   *)
(* sends resets them, and a state that is left over does not stay.          *)
Opens(e, f) ==
    /\ f \in Engines /\ f.mode = e.mode /\ f.resets = e.resets
    /\ f.gap = e.gap /\ f.told = e.told /\ f.buf = <<>>

LEMMA AcceptedFacts ==
    ASSUME NEW e \in Engines, e.st = "DISCONNECTED"
    PROVE  LET f == Accepted(e) IN
           /\ Opens(e, f) /\ f.store = e.store /\ f.sent = e.sent
           /\ f.st = "AWAITING_LOGON" /\ f.net = "up"
<1> DEFINE d == [e EXCEPT !.buf = <<>>, !.net = "up"]
           f == On(d, "client_accepted_awaiting_logon")
<1>1. /\ d \in Engines /\ d.mode = e.mode /\ d.resets = e.resets /\ d.gap = e.gap
      /\ d.told = e.told /\ d.buf = <<>> /\ d.store = e.store /\ d.sent = e.sent
      /\ d.st = e.st /\ d.net = "up"
  <2>1. <<>> \in Seq(Messages)
    OBVIOUS
  <2> QED BY <2>1 DEF Engines
<1>2. Accepted(e) = f
  BY DEF Accepted
<1> HIDE DEF d
<1>3. /\ f \in Engines /\ f.st = OnEvent(d.st, "client_accepted_awaiting_logon")
      /\ f.mode = d.mode /\ f.resets = d.resets /\ f.net = d.net /\ f.store = d.store
      /\ f.gap = d.gap /\ f.sent = d.sent /\ f.told = d.told /\ f.buf \in {d.buf, <<>>}
  BY <1>1, OnFacts
<1>4. f.st = "AWAITING_LOGON"
  BY <1>1, <1>3 DEF OnEvent, Disconnected
<1> HIDE DEF f
<1> QED BY <1>1, <1>2, <1>3, <1>4 DEF Opens

LEMMA RefusedFacts ==
    ASSUME NEW e \in Engines
    PROVE  LET f == Refused(e) IN
           /\ Opens(e, f) /\ f.store = e.store /\ f.sent = e.sent
           /\ f.net = e.net /\ (f.st = "ACTIVE" => e.st = "ACTIVE")
<1> DEFINE d == [e EXCEPT !.buf = <<>>]
           c == On(d, "initiator_connect_attempt")
           f == On(c, "connection_failed")
<1>1. /\ d \in Engines /\ d.mode = e.mode /\ d.resets = e.resets /\ d.gap = e.gap
      /\ d.told = e.told /\ d.buf = <<>> /\ d.store = e.store /\ d.sent = e.sent
      /\ d.st = e.st /\ d.net = e.net
  <2>1. <<>> \in Seq(Messages)
    OBVIOUS
  <2> QED BY <2>1 DEF Engines
<1>2. Refused(e) = f
  BY DEF Refused
<1> HIDE DEF d
<1>3. /\ c \in Engines /\ c.st = OnEvent(d.st, "initiator_connect_attempt")
      /\ c.mode = d.mode /\ c.resets = d.resets /\ c.net = d.net /\ c.store = d.store
      /\ c.gap = d.gap /\ c.sent = d.sent /\ c.told = d.told /\ c.buf \in {d.buf, <<>>}
  BY <1>1, OnFacts
<1> HIDE DEF c
<1>4. /\ f \in Engines /\ f.st = OnEvent(c.st, "connection_failed")
      /\ f.mode = c.mode /\ f.resets = c.resets /\ f.net = c.net /\ f.store = c.store
      /\ f.gap = c.gap /\ f.sent = c.sent /\ f.told = c.told /\ f.buf \in {c.buf, <<>>}
  BY <1>3, OnFacts
<1>5. f.st = "ACTIVE" => e.st = "ACTIVE"
  <2>1. d.st \in States /\ c.st \in States
    BY <1>1, <1>3 DEF Engines
  <2>2. c.st = "ACTIVE" => d.st = "ACTIVE"
    BY <1>3, <2>1, EventFacts
  <2>3. f.st = "ACTIVE" => c.st = "ACTIVE"
    BY <1>4, <2>1, EventFacts
  <2> QED BY <1>1, <2>2, <2>3
<1> HIDE DEF f
<1> QED BY <1>1, <1>2, <1>3, <1>4, <1>5 DEF Opens

(* A Logon that resets is what begins a numbering, at 1. *)
Began(f) == f.sent # <<>> /\ Resets(Last(f.sent))

Begins(e, f) ==
    IF Began(f) THEN f.store.in = 1 /\ \E d \in Engines : d.store.out = 1 /\ d.sent = e.sent
                                                          /\ Numbered(d, f)
    ELSE f.store.in = e.store.in /\ Numbered(e, f)

(* The Logon is the one message sent, with a number that is counted. *)
LogsOn(f) ==
    /\ f.st = "LOGON_IN_PROGRESS"
    /\ \E m \in Messages : /\ f.sent = <<m>> /\ m.type = "Logon" /\ ~m.poss
                           /\ 1 <= m.seq /\ m.seq < f.store.out

LEMMA SendLogonFacts ==
    ASSUME NEW e \in Engines, e.sent = <<>>, e.buf = <<>>,
           e.st = "LOGON_IN_PROGRESS", e.net = "up"
    PROVE  LET f == SendLogon(e) IN
           /\ Opens(e, f) /\ f.st # "ACTIVE" /\ f.net \in {"up", "down"}
           /\ AsksNothing(e, f) /\ Begins(e, f) /\ LogsOn(f)
<1> DEFINE m == [fixmsg("Logon") EXCEPT !.reset = e.resets]
           d == IF e.resets THEN [e EXCEPT !.store = ResetNumbers(e.store)] ELSE e
           g == Send(d, m)
           f == [g EXCEPT !.hb = TRUE]
           numbered == [m EXCEPT !.seq = d.store.out]
<1>1. SendLogon(e) = f
  BY DEF SendLogon
<1>2. /\ m \in Messages /\ m.type = "Logon" /\ m.seq = Bad /\ m.reset = e.resets
      /\ ~m.poss
  <2>1. "Logon" \in Types /\ e.resets \in BOOLEAN
    BY DEF Types, Engines
  <2> QED BY <2>1, FixmsgFacts DEF Messages
<1> HIDE DEF m
<1>3. /\ SameSession(e, d) /\ d.gap = e.gap /\ d.told = e.told
      /\ IF e.resets THEN d.store.in = 1 /\ d.store.out = 1 ELSE d = e
  <2>1. CASE e.resets
    <3>1. e.store \in Stores /\ e.gap \in Nat
      BY DEF Engines
    <3>2. /\ ResetNumbers(e.store) \in Stores
          /\ ResetNumbers(e.store).in = 1 /\ ResetNumbers(e.store).out = 1
      BY <3>1, StepFacts
    <3> QED BY <2>1, <3>1, <3>2, ChangeFacts
  <2>2. CASE ~e.resets
    BY <2>2 DEF SameSession
  <2> QED BY <2>1, <2>2
<1> HIDE DEF d
<1>4. d \in Engines /\ d.st # "DISCONNECTED" /\ d.net = "up" /\ d.sent = e.sent
  BY <1>3 DEF SameSession
<1>5. Resets(m) => d.store.out = 1
  BY <1>2, <1>3 DEF Resets
<1>6. /\ Holds(d, g) /\ g.st = d.st
      /\ g.sent = Append(<<>>, numbered) /\ g.store.out = d.store.out + 1
  BY <1>2, <1>4, <1>5, SendFacts
<1>7. Continues(d, g)
  BY <1>2, <1>4, <1>5, SendContinues
<1>8. g \in Engines /\ Keeps(d, g)
  BY <1>7 DEF Continues, Keeps, Holds
<1> HIDE DEF g
<1>9. /\ f \in Engines /\ f.sent = g.sent /\ f.store = g.store /\ f.st = g.st /\ f.net = g.net
      /\ f.buf = g.buf /\ f.mode = g.mode /\ f.resets = g.resets /\ f.gap = g.gap
      /\ f.told = g.told
  BY <1>8 DEF Engines
<1> HIDE DEF f
<1>10. Opens(e, f) /\ f.st # "ACTIVE" /\ f.net \in {"up", "down"}
  BY <1>3, <1>4, <1>6, <1>8, <1>9 DEF Opens, SameSession, Keeps, Holds
<1>11. AsksNothing(e, f)
  BY <1>4, <1>8, <1>9 DEF Keeps, AsksNothing
<1>12. Numbered(d, f) /\ f.store.in = d.store.in
  BY <1>8, <1>9 DEF Keeps, Holds, Numbered
<1>13. (Began(f) <=> e.resets) /\ LogsOn(f)
  <2>1. /\ numbered.type = "Logon" /\ numbered.reset = e.resets /\ numbered \in Messages
        /\ numbered.seq = d.store.out /\ ~numbered.poss
    <3>1. d.store.out \in Digits
      BY <1>4 DEF Engines, Stores, Numbers, Digits
    <3> QED BY <1>2, <3>1 DEF Messages
  <2> HIDE DEF numbered
  <2>2. f.sent = <<numbered>> /\ Last(f.sent) = numbered
    BY <1>6, <1>9 DEF Last
  <2>3. f.sent # <<>>
    BY <2>2
  <2>4. f.store.out = d.store.out + 1 /\ d.store.out \in Nat /\ d.store.out >= 1
    BY <1>4, <1>6, <1>9 DEF Engines, Stores, Numbers
  <2>5. f.st = "LOGON_IN_PROGRESS"
    BY <1>3, <1>6, <1>9 DEF SameSession
  <2> QED BY <2>1, <2>2, <2>3, <2>4, <2>5 DEF Began, Resets, LogsOn
<1>14. Begins(e, f)
  BY <1>3, <1>4, <1>12, <1>13 DEF Begins
<1> QED BY <1>1, <1>10, <1>11, <1>13, <1>14

LEMMA ConnectedFacts ==
    ASSUME NEW e \in Engines, e.sent = <<>>
    PROVE  LET f == Connected(e) IN
           /\ Opens(e, f) /\ f.st # "ACTIVE" /\ f.net \in {"up", "down"}
           /\ AsksNothing(e, f) /\ Begins(e, f) /\ (f.sent = <<>> \/ LogsOn(f))
<1> DEFINE d == [e EXCEPT !.buf = <<>>]
           c == On(d, "initiator_connect_attempt")
           b == [c EXCEPT !.net = "up"]
           a == On(b, "connection_established")
<1>1. /\ d \in Engines /\ d.mode = e.mode /\ d.resets = e.resets /\ d.gap = e.gap
      /\ d.told = e.told /\ d.buf = <<>> /\ d.store = e.store /\ d.sent = <<>>
      /\ d.st = e.st
  <2>1. <<>> \in Seq(Messages)
    OBVIOUS
  <2> QED BY <2>1 DEF Engines
<1>2. Connected(e) = Logon(a)
  BY DEF Connected
<1> HIDE DEF d
<1>3. /\ c \in Engines /\ c.st = OnEvent(d.st, "initiator_connect_attempt")
      /\ c.mode = d.mode /\ c.resets = d.resets /\ c.store = d.store
      /\ c.gap = d.gap /\ c.sent = d.sent /\ c.told = d.told /\ c.buf \in {d.buf, <<>>}
  BY <1>1, OnFacts
<1> HIDE DEF c
<1>4. /\ b \in Engines /\ b.st = c.st /\ b.net = "up"
      /\ b.mode = c.mode /\ b.resets = c.resets /\ b.store = c.store
      /\ b.gap = c.gap /\ b.sent = c.sent /\ b.told = c.told /\ b.buf = c.buf
  BY <1>3 DEF Engines
<1> HIDE DEF b
<1>5. /\ a \in Engines /\ a.net = b.net
      /\ a.mode = b.mode /\ a.resets = b.resets /\ a.store = b.store
      /\ a.gap = b.gap /\ a.sent = b.sent /\ a.told = b.told /\ a.buf \in {b.buf, <<>>}
  BY <1>4, OnFacts
<1> HIDE DEF a
<1>6. Opens(e, a) /\ a.net = "up" /\ a.sent = <<>> /\ a.store = e.store
  BY <1>1, <1>3, <1>4, <1>5 DEF Opens
<1>7. a.buf = <<>> /\ a \in Engines
  BY <1>6 DEF Opens
<1>8. Numbered(e, a) /\ AsksNothing(e, a)
  BY <1>6, <1>7, Unsent
<1>9. CASE a.st = "LOGON_IN_PROGRESS"
  <2> DEFINE f == SendLogon(a)
  <2>1. Logon(a) = f
    BY <1>9 DEF Logon
  <2>2. /\ Opens(a, f) /\ f.st # "ACTIVE" /\ f.net \in {"up", "down"}
        /\ AsksNothing(a, f) /\ Begins(a, f) /\ LogsOn(f)
    BY <1>6, <1>7, <1>9, SendLogonFacts
  <2> HIDE DEF f
  <2>3. Opens(e, f)
    BY <1>6, <2>2 DEF Opens
  <2>4. AsksNothing(e, f) /\ Begins(e, f)
    BY <1>6, <2>2 DEF AsksNothing, Begins, Numbered
  <2> QED BY <1>2, <2>1, <2>2, <2>3, <2>4
<1>10. CASE a.st # "LOGON_IN_PROGRESS" /\ a.st # "DISCONNECTED"
  <2> DEFINE f == Disconnect(a)
  <2>1. Logon(a) = f
    BY <1>10 DEF Logon
  <2>2. Continues(a, f) /\ Ended(f) /\ f.sent = <<>>
    BY <1>6, <1>7, DisconnectFacts, Unchanging
  <2> HIDE DEF f
  <2>3. Opens(e, f) /\ f.st # "ACTIVE" /\ f.net = "down"
    BY <1>6, <2>2 DEF Opens, Ended, Continues, Keeps, Holds
  <2>4. AsksNothing(e, f)
    BY <1>6, <2>2 DEF Continues, Keeps, AsksNothing
  <2>5. Begins(e, f)
    <3>1. Numbered(e, f) /\ f.store.in = e.store.in
      BY <1>6, <2>2 DEF Continues, Keeps, Holds, Numbered
    <3> QED BY <2>2, <3>1 DEF Begins, Began
  <2> QED BY <1>2, <2>1, <2>2, <2>3, <2>4, <2>5
<1>11. CASE a.st = "DISCONNECTED"
  <2>1. Logon(a) = a
    BY <1>11 DEF Logon
  <2>2. Begins(e, a)
    BY <1>6, <1>8 DEF Begins, Began
  <2> QED BY <1>2, <1>6, <1>8, <1>11, <2>1, <2>2
<1> QED BY <1>9, <1>10, <1>11

(* The engine of a new process reads its counters back. *)
LEMMA NewEngineFacts ==
    ASSUME NEW mode \in {"initiator", "acceptor"}, NEW resets \in BOOLEAN, NEW store \in Stores
    PROVE  LET f == NewEngine(mode, resets, store) IN
           /\ f \in Engines /\ f.mode = mode /\ f.resets = resets
           /\ f.store = Reopened(store) /\ f.st = "DISCONNECTED" /\ f.net = "down"
           /\ f.gap = None /\ f.sent = <<>> /\ f.told = <<>> /\ f.buf = <<>>
<1>1. Reopened(store) \in Stores
  BY ReopenedFacts
<1>2. <<>> \in Seq(Messages) /\ "DISCONNECTED" \in States /\ None \in Nat
  BY DEF States, None
<1> QED BY <1>1, <1>2 DEF NewEngine, Engines
=============================================================================
