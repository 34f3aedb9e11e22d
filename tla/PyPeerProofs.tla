---------------------------- MODULE PyPeerProofs ----------------------------
(* What holds of the Python engine against a peer that may send anything:   *)
(* numbers are neither skipped nor handed up twice, a gap is asked about     *)
(* once, and an ACTIVE session was logged on over its own connection.        *)
EXTENDS PyPeer, PyEngineProofs, FiniteSetTheorems

(* Every number handed up was expected before, every one sent was counted. *)
Ahead ==
    /\ top \in Nat /\ lastSent \in Nat
    /\ top < eng.store.in /\ lastSent < eng.store.out

(* Of the outstanding request: asked in this session, or left over. *)
AskedWhenNoted ==
    /\ asked \in {0, 1}
    /\ asked = 1 => eng.gap = eng.store.in
    /\ ~stale /\ eng.gap # None =>
         /\ eng.gap <= eng.store.in
         /\ eng.gap = eng.store.in => asked = 1 \/ eng.st = "DISCONNECTED"
    /\ dropped => asked = 1 \/ stale

(* Where the receive loop is, with what it has to read. *)
Placed ==
    /\ eng \in Engines
    /\ reading \in {"off", "wait", "busy"}
    /\ eng.mode = "acceptor" /\ reading = "off" => eng.st = "DISCONNECTED"
    /\ eng.buf # <<>> => reading = "busy" /\ eng.net # "down"

PeerInv == Placed /\ Ahead /\ AskedWhenNoted /\ NothingSkipped /\ LiveMeansLoggedOn

(* The two action properties, of one step. *)
OrderKept ==
    ~anew' =>
      /\ \A n \in Unmarked(eng'.told) : n > top
      /\ \A i \in DOMAIN eng'.sent :
           eng'.sent[i].seq > IF i = 1 THEN lastSent ELSE eng'.sent[i - 1].seq

-----------------------------------------------------------------------------
LEMMA IdleFacts ==
    ASSUME eng \in Engines
    PROVE  /\ Idle \in Engines /\ Idle.sent = <<>> /\ Idle.told = <<>>
           /\ Idle.mode = eng.mode /\ Idle.resets = eng.resets /\ Idle.st = eng.st
           /\ Idle.net = eng.net /\ Idle.store = eng.store /\ Idle.gap = eng.gap
           /\ Idle.buf = eng.buf
<1>1. <<>> \in Seq(Messages)
  OBVIOUS
<1> QED BY <1>1 DEF Idle, Engines

(* What f sent, from an engine that had sent nothing and was at number n. *)
Rises(n, f) ==
    /\ n <= f.store.out
    /\ \A i \in DOMAIN f.sent : n <= f.sent[i].seq /\ f.sent[i].seq < f.store.out
    /\ \A i, j \in DOMAIN f.sent : i < j => f.sent[i].seq < f.sent[j].seq

LEMMA NumberedRises ==
    ASSUME NEW e \in Engines, NEW f \in Engines, e.sent = <<>>, Numbered(e, f)
    PROVE  Rises(e.store.out, f)
<1>1. Len(e.sent) = 0
  OBVIOUS
<1>2. DOMAIN f.sent = 1 .. Len(f.sent)
  BY LenProperties DEF Engines
<1> QED BY <1>1, <1>2 DEF Numbered, Rises

LEMMA QuietAsks ==
    ASSUME NEW e \in Engines, NEW f \in Engines, e.sent = <<>>, AsksNothing(e, f)
    PROVE  Asks(f) = 0
<1>1. Len(e.sent) = 0
  OBVIOUS
<1>2. DOMAIN f.sent = 1 .. Len(f.sent)
  BY LenProperties DEF Engines
<1>3. {i \in DOMAIN f.sent : f.sent[i].type = "ResendRequest" /\ f.sent[i].begin = Expected(f)} = {}
  BY <1>1, <1>2 DEF AsksNothing
<1> QED BY <1>3, FS_EmptySet DEF Asks

LEMMA OneAsked ==
    ASSUME NEW f, NEW r, f.sent = <<r>>, r.type = "ResendRequest", r.begin = Expected(f)
    PROVE  Asks(f) = 1
<1>1. {i \in DOMAIN f.sent : f.sent[i].type = "ResendRequest" /\ f.sent[i].begin = Expected(f)} = {1}
  OBVIOUS
<1> QED BY <1>1, FS_Singleton DEF Asks

LEMMA UnmarkedFacts ==
    /\ Unmarked(<<>>) = {}
    /\ \A m : Unmarked(<<m>>) = IF m.poss THEN {} ELSE {m.seq}
<1>1. Unmarked(<<>>) = {}
  BY DEF Unmarked
<1>2. ASSUME NEW m PROVE Unmarked(<<m>>) = IF m.poss THEN {} ELSE {m.seq}
  <2> DEFINE s == <<m>>
  <2>1. DOMAIN s = {1} /\ s[1] = m
    OBVIOUS
  <2> HIDE DEF s
  <2>2. Unmarked(s) = IF m.poss THEN {} ELSE {m.seq}
    BY <2>1 DEF Unmarked
  <2> QED BY <2>2 DEF s
<1> QED BY <1>1, <1>2

LEMMA MaxOfOne ==
    ASSUME NEW n \in Int PROVE Max({n}) = n
BY DEF Max

(* What Remember makes of a step, as far as the numbers go. *)
LEMMA Remembered ==
    ASSUME eng \in Engines, Ahead, NEW f \in Engines,
           NEW begins \in BOOLEAN, NEW arrived \in BOOLEAN, NEW high \in BOOLEAN,
           Remember(f, begins, arrived, high),
           Rises(IF begins THEN 1 ELSE eng.store.out, f),
           \/ f.told = <<>>
           \/ /\ ~begins
              /\ \E m \in Messages :
                   /\ f.told = <<m>>
                   /\ ~m.poss => m.seq = eng.store.in /\ f.store.in > eng.store.in,
           begins \/ f.store.in >= eng.store.in
    PROVE  Ahead' /\ OrderKept
<1>0. /\ eng.store.in \in Nat /\ eng.store.out \in Nat
      /\ f.store.in \in Nat /\ f.store.in >= 1 /\ f.store.out \in Nat /\ f.store.out >= 1
  BY CounterFacts
<1>1. f.sent \in Seq(Messages) /\ \A i \in DOMAIN f.sent : f.sent[i].seq \in Int
  <2>1. f.sent \in Seq(Messages) /\ DOMAIN f.sent = 1 .. Len(f.sent)
    BY LenProperties DEF Engines
  <2> QED BY <2>1, SentFacts
<1>2. eng' = f /\ (anew' <=> begins)
  BY DEF Remember
<1>3. lastSent' \in Nat /\ lastSent' < f.store.out
  <2>1. CASE f.sent # <<>>
    <3>1. Len(f.sent) \in DOMAIN f.sent /\ Last(f.sent) = f.sent[Len(f.sent)]
      BY <1>1, <2>1, EmptySeq, LenProperties DEF Last
    <3>2. lastSent' = f.sent[Len(f.sent)].seq
      BY <2>1, <3>1 DEF Remember
    <3> QED BY <1>0, <1>1, <3>1, <3>2 DEF Rises
  <2>2. CASE f.sent = <<>> /\ begins
    BY <1>0, <2>2 DEF Remember
  <2>3. CASE f.sent = <<>> /\ ~begins
    BY <1>0, <2>3 DEF Remember, Rises, Ahead
  <2> QED BY <2>1, <2>2, <2>3
<1>4. top' \in Nat /\ top' < f.store.in /\ (~anew' => \A n \in Unmarked(f.told) : n > top)
  <2>1. CASE Unmarked(f.told) = {}
    BY <1>0, <2>1 DEF Remember, Ahead
  <2>2. CASE Unmarked(f.told) # {}
    <3>1. PICK m \in Messages : /\ f.told = <<m>>
                                /\ ~m.poss => m.seq = eng.store.in /\ f.store.in > eng.store.in
      BY <2>2, UnmarkedFacts
    <3>2. ~m.poss /\ Unmarked(f.told) = {m.seq}
      BY <2>2, <3>1, UnmarkedFacts
    <3>3. top' = Max({m.seq})
      BY <2>2, <3>2 DEF Remember
    <3>4. top' = eng.store.in
      BY <1>0, <3>1, <3>2, <3>3, MaxOfOne
    <3> QED BY <1>0, <3>1, <3>2, <3>4 DEF Ahead
  <2> QED BY <2>1, <2>2
<1>5. ASSUME ~anew', NEW i \in DOMAIN f.sent
      PROVE  f.sent[i].seq > IF i = 1 THEN lastSent ELSE f.sent[i - 1].seq
  <2>1. ~begins
    BY <1>2, <1>5
  <2>2. CASE i = 1
    BY <1>0, <1>1, <2>1, <2>2 DEF Rises, Ahead
  <2>3. CASE i # 1
    <3>1. i \in Nat /\ i - 1 \in DOMAIN f.sent /\ i - 1 < i
      BY <1>1, <2>3, LenProperties
    <3> QED BY <1>1, <2>3, <3>1 DEF Rises
  <2> QED BY <2>2, <2>3
<1> QED BY <1>2, <1>3, <1>4, <1>5 DEF Ahead, OrderKept

-----------------------------------------------------------------------------
(* A step that asks for nothing. *)
LEMMA AsksForNothing ==
    ASSUME eng \in Engines, AskedWhenNoted, NEW f \in Engines,
           NEW begins \in BOOLEAN, NEW arrived \in BOOLEAN, NEW high \in BOOLEAN,
           Remember(f, begins, arrived, high),
           Asks(f) = 0, stale => stale',
           f.gap = eng.gap \/ (arrived /\ f.gap = None),
           begins /\ f.gap # None => stale',
           arrived /\ f.gap # None => stale',
           begins \/ f.store.in >= eng.store.in,
           eng.st = "DISCONNECTED" => f.st = "DISCONNECTED" \/ stale' \/ f.gap = None,
           high => stale' \/ (asked = 1 /\ ~Moved(f) /\ ~begins /\ ~arrived)
    PROVE  AskedWhenNoted'
<1> DEFINE same == ~Moved(f) /\ ~begins /\ ~arrived
<1>0. /\ eng.store.in \in Nat /\ eng.store.in >= 1 /\ eng.gap \in Nat
      /\ f.store.in \in Nat /\ f.store.in >= 1 /\ f.gap \in Nat
  BY CounterFacts
<1>1. /\ eng' = f /\ asked' = (IF same THEN asked ELSE 0)
      /\ dropped' = (high \/ (dropped /\ same))
  BY DEF Remember, AskedWhenNoted
<1>2. Moved(f) <=> f.store.in # eng.store.in
  BY DEF Moved, Expected
<1> HIDE DEF same
<1>3. asked' \in {0, 1} /\ (asked' = 1 => same /\ asked = 1)
  BY <1>1 DEF AskedWhenNoted
<1>4. asked' = 1 => f.gap = f.store.in
  BY <1>2, <1>3 DEF AskedWhenNoted, same
<1>5. ASSUME ~stale', f.gap # None
      PROVE  /\ f.gap <= f.store.in
             /\ f.gap = f.store.in => asked' = 1 \/ f.st = "DISCONNECTED"
  <2>1. f.gap = eng.gap /\ ~stale /\ ~begins /\ ~arrived /\ f.store.in >= eng.store.in
    BY <1>5
  <2>2. eng.gap <= eng.store.in
    BY <1>5, <2>1 DEF AskedWhenNoted
  <2>3. f.gap = f.store.in => same /\ eng.gap = eng.store.in
    BY <1>0, <1>2, <2>1, <2>2 DEF same
  <2>4. eng.st = "DISCONNECTED" => f.st = "DISCONNECTED"
    BY <1>5
  <2> QED BY <1>0, <1>1, <1>5, <2>1, <2>2, <2>3, <2>4 DEF AskedWhenNoted
<1>6. dropped' => asked' = 1 \/ stale'
  BY <1>1 DEF AskedWhenNoted, same
<1> QED BY <1>1, <1>3, <1>4, <1>5, <1>6 DEF AskedWhenNoted

(* A step that asks for what is missing from the number expected on. *)
LEMMA AsksOnce ==
    ASSUME eng \in Engines, AskedWhenNoted, NEW f \in Engines,
           NEW high \in BOOLEAN, Remember(f, FALSE, FALSE, high),
           f.gap = eng.store.in, f.store.in = eng.store.in, eng.gap # eng.store.in,
           Asks(f) \in {0, 1}, Asks(f) = 1 \/ f.st = "DISCONNECTED",
           high => f.st # "DISCONNECTED", stale => stale'
    PROVE  AskedWhenNoted'
<1>1. asked = 0
  BY DEF AskedWhenNoted
<1>2. ~Moved(f)
  BY DEF Moved, Expected
<1>3. /\ eng' = f /\ asked' = Asks(f) /\ (dropped' => high \/ dropped)
  BY <1>1, <1>2 DEF Remember
<1>4. dropped => stale'
  BY <1>1 DEF AskedWhenNoted
<1>5. f.gap \in Nat
  BY CounterFacts
<1> QED BY <1>3, <1>4, <1>5 DEF AskedWhenNoted

-----------------------------------------------------------------------------
(* A step of the engine's own from an idle engine. *)
Owned(f, begins) ==
    /\ f \in Engines /\ f.told = <<>> /\ f.gap = eng.gap /\ f.mode = eng.mode
    /\ Asks(f) = 0
    /\ Rises(IF begins THEN 1 ELSE eng.store.out, f)
    /\ f.store.in = IF begins THEN 1 ELSE eng.store.in

LEMMA OwnKeeps ==
    ASSUME PeerInv, NEW f, NEW begins \in BOOLEAN, Owned(f, begins), Own(f, begins),
           stale => stale',
           eng.gap # None =>
             stale' \/ (~begins /\ (eng.st = "DISCONNECTED" => f.st = "DISCONNECTED"))
    PROVE  eng' = f /\ Ahead' /\ AskedWhenNoted' /\ NothingSkipped' /\ OrderKept
<1>0. eng \in Engines /\ f \in Engines /\ Ahead /\ AskedWhenNoted /\ NothingSkipped
  BY DEF PeerInv, Placed, Owned
<1>1. Remember(f, begins, f.gap = None, FALSE) /\ eng' = f
  BY DEF Own, Remember
<1>2. Ahead' /\ OrderKept
  <2>1. begins \/ f.store.in >= eng.store.in
    BY <1>0, CounterFacts DEF Owned
  <2> QED BY <1>0, <1>1, <2>1, Remembered DEF Owned
<1>3. AskedWhenNoted'
  <2>1. begins \/ f.store.in >= eng.store.in
    BY <1>0, CounterFacts DEF Owned
  <2>2. f.gap = eng.gap /\ Asks(f) = 0
    BY DEF Owned
  <2>3. (f.gap = None) \in BOOLEAN /\ ((f.gap = None) /\ f.gap # None => stale')
    OBVIOUS
  <2>4. begins /\ f.gap # None => stale'
    BY <2>2
  <2>5. eng.st = "DISCONNECTED" => f.st = "DISCONNECTED" \/ stale' \/ f.gap = None
    BY <2>2
  <2> QED BY <1>0, <1>1, <2>1, <2>2, <2>3, <2>4, <2>5, AsksForNothing
<1>4. NothingSkipped'
  <2>1. f.store.in \in Nat /\ f.store.in >= 1
    BY <1>0, CounterFacts
  <2>2. got' = {n \in got : n < f.store.in} /\ (excused' <=> excused /\ f.store.in > 1)
    BY DEF Own, Expected
  <2>3. CASE f.store.in = 1
    BY <1>1, <2>3 DEF NothingSkipped, Expected
  <2>4. CASE f.store.in # 1
    <3>1. f.store.in = eng.store.in
      BY <2>4 DEF Owned
    <3> QED BY <1>0, <1>1, <2>1, <2>2, <2>4, <3>1 DEF NothingSkipped, Expected
  <2> QED BY <2>3, <2>4
<1> QED BY <1>1, <1>2, <1>3, <1>4

(* A step that continues the session, whatever it sends. *)
LEMMA ContinuesOwned ==
    ASSUME eng \in Engines, NEW f, Continues(Idle, f)
    PROVE  Owned(f, FALSE) /\ (eng.st = "DISCONNECTED" => f.st = "DISCONNECTED")
<1>1. /\ Idle \in Engines /\ Idle.sent = <<>> /\ Idle.told = <<>>
      /\ Idle.mode = eng.mode /\ Idle.st = eng.st
      /\ Idle.store = eng.store /\ Idle.gap = eng.gap
  BY IdleFacts
<1>2. /\ f \in Engines /\ f.told = Idle.told /\ f.gap = Idle.gap /\ f.mode = Idle.mode
      /\ f.store.in = Idle.store.in /\ Numbered(Idle, f) /\ AsksNothing(Idle, f)
      /\ Idle.st = "DISCONNECTED" => f.st = "DISCONNECTED"
  BY DEF Continues, Keeps, Holds
<1>3. Asks(f) = 0 /\ Rises(eng.store.out, f)
  BY <1>1, <1>2, QuietAsks, NumberedRises
<1> QED BY <1>1, <1>2, <1>3 DEF Owned

LEMMA ContinuesStays ==
    ASSUME PeerInv, NEW f, Continues(Idle, f), eng' = f, UNCHANGED <<reading, loggedOn>>
    PROVE  Placed' /\ LiveMeansLoggedOn'
<1>1. Placed /\ LiveMeansLoggedOn
  BY DEF PeerInv
<1>2. /\ Idle.mode = eng.mode /\ Idle.st = eng.st /\ Idle.net = eng.net /\ Idle.buf = eng.buf
  BY <1>1, IdleFacts DEF Placed
<1>3. /\ f \in Engines /\ f.mode = eng.mode
      /\ eng.st = "DISCONNECTED" => f.st = "DISCONNECTED"
      /\ f.net = eng.net \/ (f.net = "down" /\ f.buf = <<>>)
      /\ f.buf \in {eng.buf, <<>>}
      /\ f.st = "ACTIVE" => eng.st = "ACTIVE"
  BY <1>2 DEF Continues, Keeps, Holds
<1> QED BY <1>1, <1>3 DEF Placed, LiveMeansLoggedOn

LEMMA OwnContinues ==
    ASSUME PeerInv, NEW f, Continues(Idle, f), Own(f, FALSE),
           UNCHANGED <<reading, loggedOn, stale>>
    PROVE  PeerInv' /\ OrderKept
<1>1. Owned(f, FALSE) /\ (eng.st = "DISCONNECTED" => f.st = "DISCONNECTED")
  BY ContinuesOwned DEF PeerInv, Placed
<1>2. eng' = f /\ Ahead' /\ AskedWhenNoted' /\ NothingSkipped' /\ OrderKept
  BY <1>1, OwnKeeps
<1>3. Placed' /\ LiveMeansLoggedOn'
  BY <1>2, ContinuesStays
<1> QED BY <1>2, <1>3 DEF PeerInv

-----------------------------------------------------------------------------
(* The actions.                                                             *)
LEMMA ConnectKeeps ==
    ASSUME PeerInv, NEW up \in BOOLEAN, ConnectOrRefused(up)
    PROVE  PeerInv' /\ OrderKept
<1> DEFINE f == IF up THEN Connected(Idle) ELSE Refused(Idle)
<1>1. /\ eng \in Engines /\ eng.mode = "initiator" /\ eng.net = "down"
      /\ LiveMeansLoggedOn
  BY DEF PeerInv, Placed, ConnectOrRefused
<1>2. /\ Idle \in Engines /\ Idle.sent = <<>> /\ Idle.told = <<>>
      /\ Idle.mode = eng.mode /\ Idle.st = eng.st /\ Idle.net = eng.net
      /\ Idle.store = eng.store /\ Idle.gap = eng.gap
  BY <1>1, IdleFacts
<1>3. /\ Own(f, Began(f))
      /\ reading' = IF up /\ f.net = "up" THEN "wait" ELSE "off"
      /\ loggedOn' = FALSE
      /\ stale' = (stale \/ eng.gap # None)
  BY DEF ConnectOrRefused, Began
<1>4. /\ Opens(Idle, f) /\ AsksNothing(Idle, f) /\ Begins(Idle, f)
      /\ f.st = "ACTIVE" => f.net = "down"
  <2>1. CASE up
    BY <1>2, <2>1, ConnectedFacts
  <2>2. CASE ~up
    <3> DEFINE g == Refused(Idle)
    <3>1. f = g
      BY <2>2
    <3>2. /\ Opens(Idle, g) /\ g.store = Idle.store /\ g.sent = Idle.sent
          /\ g.net = Idle.net
      BY <1>2, RefusedFacts
    <3> HIDE DEF g, f
    <3>3. AsksNothing(Idle, g) /\ Numbered(Idle, g)
      BY <1>2, <3>2, Unsent DEF Opens
    <3>4. Begins(Idle, g)
      BY <1>2, <3>2, <3>3 DEF Begins, Began
    <3> QED BY <1>1, <1>2, <3>1, <3>2, <3>3, <3>4
  <2> QED BY <2>1, <2>2
<1> HIDE DEF f
<1>5. f \in Engines /\ f.told = <<>> /\ f.gap = eng.gap /\ f.mode = eng.mode /\ f.buf = <<>>
  BY <1>2, <1>4 DEF Opens
<1>6. Began(f) \in BOOLEAN
  BY DEF Began
<1>7. Owned(f, Began(f))
  <2>1. Asks(f) = 0
    BY <1>2, <1>4, <1>5, QuietAsks
  <2>2. CASE Began(f)
    <3>1. PICK d \in Engines : d.store.out = 1 /\ d.sent = <<>> /\ Numbered(d, f)
      BY <1>2, <1>4, <2>2 DEF Begins
    <3>2. Rises(1, f)
      BY <1>5, <3>1, NumberedRises
    <3> QED BY <1>4, <1>5, <2>1, <2>2, <3>2 DEF Owned, Begins
  <2>3. CASE ~Began(f)
    <3>1. Rises(eng.store.out, f)
      BY <1>2, <1>4, <1>5, <2>3, NumberedRises DEF Begins
    <3> QED BY <1>2, <1>4, <1>5, <2>1, <2>3, <3>1 DEF Owned, Begins
  <2> QED BY <2>2, <2>3
<1>8. eng' = f /\ Ahead' /\ AskedWhenNoted' /\ NothingSkipped' /\ OrderKept
  BY <1>3, <1>6, <1>7, OwnKeeps
<1>9. Placed'
  BY <1>1, <1>3, <1>5, <1>8 DEF Placed
<1>10. LiveMeansLoggedOn'
  BY <1>4, <1>8 DEF LiveMeansLoggedOn
<1> QED BY <1>8, <1>9, <1>10 DEF PeerInv

LEMMA ClientConnectsKeeps ==
    ASSUME PeerInv, ClientConnects
    PROVE  PeerInv' /\ OrderKept
<1> DEFINE f == Accepted(Idle)
<1>1. eng \in Engines /\ eng.st = "DISCONNECTED"
  BY DEF PeerInv, Placed, ClientConnects
<1>2. /\ Idle \in Engines /\ Idle.sent = <<>> /\ Idle.told = <<>>
      /\ Idle.mode = eng.mode /\ Idle.st = eng.st
      /\ Idle.store = eng.store /\ Idle.gap = eng.gap
  BY <1>1, IdleFacts
<1>3. /\ Own(f, FALSE) /\ reading' = "wait"
      /\ stale' = (stale \/ eng.gap # None)
  BY DEF ClientConnects
<1>4. /\ Opens(Idle, f) /\ f.store = Idle.store /\ f.sent = Idle.sent
      /\ f.st # "ACTIVE" /\ f.net = "up"
  BY <1>1, <1>2, AcceptedFacts
<1> HIDE DEF f
<1>5. f \in Engines /\ f.told = <<>> /\ f.gap = eng.gap /\ f.mode = eng.mode /\ f.buf = <<>>
  BY <1>2, <1>4 DEF Opens
<1>6. Asks(f) = 0 /\ Rises(eng.store.out, f)
  <2>1. AsksNothing(Idle, f) /\ Numbered(Idle, f)
    BY <1>2, <1>4, <1>5, Unsent
  <2> QED BY <1>2, <1>5, <2>1, QuietAsks, NumberedRises
<1>7. Owned(f, FALSE)
  BY <1>2, <1>4, <1>5, <1>6 DEF Owned
<1>8. eng' = f /\ Ahead' /\ AskedWhenNoted' /\ NothingSkipped' /\ OrderKept
  BY <1>3, <1>7, OwnKeeps
<1>9. Placed' /\ LiveMeansLoggedOn'
  BY <1>3, <1>4, <1>5, <1>8 DEF Placed, LiveMeansLoggedOn
<1> QED BY <1>8, <1>9 DEF PeerInv

LEMMA ReadKeeps ==
    ASSUME PeerInv, NEW msgs \in Seq(Messages), Read(msgs)
    PROVE  PeerInv' /\ OrderKept
<1>1. eng \in Engines /\ eng.net # "down" /\ reading' = "busy"
  BY DEF PeerInv, Placed, Read
<1>2. /\ Idle \in Engines /\ Idle.sent = <<>> /\ Idle.told = <<>>
      /\ Idle.mode = eng.mode /\ Idle.st = eng.st /\ Idle.net = eng.net
      /\ Idle.store = eng.store /\ Idle.gap = eng.gap
  BY <1>1, IdleFacts
<1>3. /\ eng' \in Engines /\ eng'.sent = <<>> /\ eng'.told = <<>>
      /\ eng'.mode = eng.mode /\ eng'.st = eng.st /\ eng'.net = eng.net
      /\ eng'.store = eng.store /\ eng'.gap = eng.gap
  <2>1. Idle.buf \o msgs \in Seq(Messages)
    BY <1>2, ConcatProperties DEF Engines
  <2>2. eng' = [Idle EXCEPT !.buf = Idle.buf \o msgs]
    BY DEF Read
  <2> HIDE DEF Idle
  <2> QED BY <1>2, <2>1, <2>2 DEF Engines
<1>4. UNCHANGED <<top, got, excused, lastSent, loggedOn, asked, dropped, stale>>
  BY DEF Read
<1>5. OrderKept
  BY <1>3, UnmarkedFacts DEF OrderKept
<1>6. Placed'
  BY <1>1, <1>3 DEF Placed
<1>7. Ahead' /\ AskedWhenNoted' /\ NothingSkipped' /\ LiveMeansLoggedOn'
  BY <1>3, <1>4 DEF PeerInv, Ahead, AskedWhenNoted, NothingSkipped, LiveMeansLoggedOn, Expected
<1> QED BY <1>5, <1>6, <1>7 DEF PeerInv

LEMMA ReadAgainKeeps ==
    ASSUME PeerInv, ReadAgain PROVE PeerInv' /\ OrderKept
<1>1. eng \in Engines
  BY DEF PeerInv, Placed
<1>2. Continues(Idle, Idle) /\ Own(Idle, FALSE)
  BY <1>1, IdleFacts, Stays DEF ReadAgain
<1>3. /\ Owned(Idle, FALSE)
      /\ eng.st = "DISCONNECTED" => Idle.st = "DISCONNECTED"
  BY <1>1, <1>2, ContinuesOwned
<1>4. stale' = stale /\ loggedOn' = loggedOn /\ eng.buf = <<>> /\ reading' = "wait"
  BY DEF ReadAgain
<1>5. eng' = Idle /\ Ahead' /\ AskedWhenNoted' /\ NothingSkipped' /\ OrderKept
  BY <1>2, <1>3, <1>4, OwnKeeps
<1>6. Placed' /\ LiveMeansLoggedOn'
  BY <1>1, <1>4, <1>5, IdleFacts DEF PeerInv, Placed, LiveMeansLoggedOn
<1> QED BY <1>5, <1>6 DEF PeerInv

LEMMA ReadEndsKeeps ==
    ASSUME PeerInv, ReadEnds PROVE PeerInv' /\ OrderKept
<1> DEFINE f == ReceiveEnded(Idle)
<1>1. eng \in Engines /\ eng.buf = <<>> /\ LiveMeansLoggedOn
  BY DEF PeerInv, Placed, ReadEnds
<1>2. Idle \in Engines /\ Idle.buf = <<>> /\ Idle.mode = eng.mode /\ Idle.net = eng.net
      /\ Idle.st = eng.st
  BY <1>1, IdleFacts
<1>3. Continues(Idle, f) /\ (eng.mode = "acceptor" => f.st = "DISCONNECTED")
  BY <1>2, ReceiveEndedContinues
<1>4. Own(f, FALSE) /\ stale' = stale /\ loggedOn' = loggedOn /\ reading' = "off"
  BY DEF ReadEnds
<1> HIDE DEF f
<1>5. Owned(f, FALSE) /\ (eng.st = "DISCONNECTED" => f.st = "DISCONNECTED")
  BY <1>1, <1>3, ContinuesOwned
<1>6. eng' = f /\ Ahead' /\ AskedWhenNoted' /\ NothingSkipped' /\ OrderKept
  BY <1>4, <1>5, OwnKeeps
<1>7. /\ f \in Engines /\ f.buf = <<>> /\ f.mode = eng.mode
      /\ f.net \in {eng.net, "down"} /\ (f.st = "ACTIVE" => eng.st = "ACTIVE")
  BY <1>2, <1>3 DEF Continues, Keeps, Holds
<1>8. Placed' /\ LiveMeansLoggedOn'
  BY <1>1, <1>3, <1>4, <1>6, <1>7 DEF Placed, LiveMeansLoggedOn
<1> QED BY <1>6, <1>8 DEF PeerInv

LEMMA ConnectionBreaksKeeps ==
    ASSUME PeerInv, ConnectionBreaks PROVE PeerInv' /\ OrderKept
<1> DEFINE f == [Idle EXCEPT !.net = "broken"]
<1>1. eng \in Engines /\ eng.net = "up"
  BY DEF PeerInv, Placed, ConnectionBreaks
<1>2. /\ Idle \in Engines /\ Idle.sent = <<>> /\ Idle.told = <<>>
      /\ Idle.mode = eng.mode /\ Idle.st = eng.st /\ Idle.net = eng.net
      /\ Idle.store = eng.store /\ Idle.gap = eng.gap /\ Idle.buf = eng.buf
  BY <1>1, IdleFacts
<1>3. Own(f, FALSE) /\ UNCHANGED <<stale, loggedOn, reading>>
  BY DEF ConnectionBreaks
<1>4. /\ f \in Engines /\ f.sent = <<>> /\ f.told = <<>>
      /\ f.mode = eng.mode /\ f.st = eng.st /\ f.net = "broken"
      /\ f.store = eng.store /\ f.gap = eng.gap /\ f.buf = eng.buf
  <2> HIDE DEF Idle
  <2> QED BY <1>2 DEF Engines
<1> HIDE DEF f
<1>5. Owned(f, FALSE)
  <2>1. AsksNothing(Idle, f) /\ Numbered(Idle, f)
    BY <1>2, <1>4, Unsent
  <2>2. Asks(f) = 0 /\ Rises(eng.store.out, f)
    BY <1>2, <1>4, <2>1, QuietAsks, NumberedRises
  <2> QED BY <1>4, <2>2 DEF Owned
<1>6. eng' = f /\ Ahead' /\ AskedWhenNoted' /\ NothingSkipped' /\ OrderKept
  BY <1>3, <1>4, <1>5, OwnKeeps
<1>7. Placed' /\ LiveMeansLoggedOn'
  BY <1>1, <1>3, <1>4, <1>6 DEF PeerInv, Placed, LiveMeansLoggedOn
<1> QED BY <1>6, <1>7 DEF PeerInv

LEMMA TimersKeep ==
    ASSUME PeerInv,
           \/ Heartbeat \/ TestRequest \/ TimesOut \/ Sends \/ AsksToLogOff \/ LoggedOff
           \/ \E g \in BOOLEAN : Disconnects(g)
    PROVE  PeerInv' /\ OrderKept
<1>1. eng \in Engines
  BY DEF PeerInv, Placed
<1>2. Idle \in Engines /\ Idle.st = eng.st
  BY <1>1, IdleFacts
<1>3. None \in Nat /\ 1 \in Nat
  BY DEF None
<1>4. ASSUME NEW f, Continues(Idle, f), Timer(f) PROVE PeerInv' /\ OrderKept
  BY <1>4, OwnContinues DEF Timer
<1>5. CASE Heartbeat
  BY <1>2, <1>3, <1>4, <1>5, TaskContinues DEF Heartbeat
<1>6. CASE TestRequest
  BY <1>2, <1>3, <1>4, <1>6, TaskContinues DEF TestRequest
<1>7. CASE TimesOut
  BY <1>2, <1>4, <1>7, HeartbeatTimeoutContinues DEF TimesOut, HeartbeatRuns
<1>8. CASE Sends
  BY <1>2, <1>3, <1>4, <1>8, TaskContinues DEF Sends
<1>9. CASE AsksToLogOff
  BY <1>2, <1>4, <1>9, LogoffContinues DEF AsksToLogOff
<1>10. CASE LoggedOff
  <2>1. Continues(Idle, LogoffOver(Idle))
    BY <1>2, LogoffContinues
  <2> QED BY <1>10, <2>1, OwnContinues DEF LoggedOff
<1>11. CASE \E g \in BOOLEAN : Disconnects(g)
  <2>1. Timer(DisconnectGracefully(Idle)) \/ Timer(Disconnect(Idle))
    BY <1>11 DEF Disconnects
  <2> QED BY <1>2, <1>4, <2>1, GracefulFacts, DisconnectFacts
<1> QED BY <1>5, <1>6, <1>7, <1>8, <1>9, <1>10, <1>11

LEMMA RestartKeeps ==
    ASSUME PeerInv, Restart PROVE PeerInv' /\ OrderKept
<1> DEFINE f == NewEngine(eng.mode, eng.resets, eng.store)
           lost == Moved(f) \/ NextOut(f) # NextOut(eng)
<1>1. /\ eng \in Engines /\ eng.mode \in {"initiator", "acceptor"} /\ eng.resets \in BOOLEAN
      /\ eng.store \in Stores /\ Ahead /\ AskedWhenNoted /\ NothingSkipped
  BY DEF PeerInv, Placed, Engines
<1>2. /\ f \in Engines /\ f.mode = eng.mode /\ f.st = "DISCONNECTED" /\ f.net = "down"
      /\ f.gap = None /\ f.sent = <<>> /\ f.told = <<>> /\ f.buf = <<>>
  BY <1>1, NewEngineFacts
<1>3. /\ Remember(f, lost, TRUE, FALSE) /\ reading' = "off" /\ loggedOn' = FALSE
      /\ stale' = stale
      /\ got' = {n \in got : n < f.store.in} /\ (excused' <=> lost \/ excused)
  BY DEF Restart, Expected
<1> HIDE DEF f
<1>4. lost \in BOOLEAN /\ (~lost => f.store.in = eng.store.in /\ f.store.out = eng.store.out)
  BY DEF Moved, Expected, NextOut
<1> HIDE DEF lost
<1>5. /\ eng.store.in \in Nat /\ f.store.in \in Nat /\ f.store.in >= 1
      /\ eng.store.out \in Nat /\ f.store.out \in Nat /\ f.store.out >= 1
  BY <1>1, <1>2, CounterFacts
<1>6. Ahead' /\ OrderKept
  <2>1. Rises(IF lost THEN 1 ELSE eng.store.out, f)
    BY <1>2, <1>4, <1>5 DEF Rises
  <2>2. lost \/ f.store.in >= eng.store.in
    BY <1>4, <1>5
  <2> QED BY <1>1, <1>2, <1>3, <1>4, <2>1, <2>2, Remembered
<1>7. eng' = f
  BY <1>3 DEF Remember
<1>8. Asks(f) = 0
  <2>1. Len(f.sent) = 0 /\ AsksNothing(f, f)
    BY <1>2 DEF AsksNothing
  <2> QED BY <1>2, <2>1, QuietAsks
<1>9. AskedWhenNoted'
  <2>1. lost \/ f.store.in >= eng.store.in
    BY <1>4, <1>5
  <2> QED BY <1>1, <1>2, <1>3, <1>4, <1>8, <2>1, AsksForNothing
<1>10. NothingSkipped'
  <2>1. CASE lost
    BY <1>3, <2>1 DEF NothingSkipped
  <2>2. CASE ~lost
    BY <1>1, <1>3, <1>4, <1>5, <1>7, <2>2 DEF NothingSkipped, Expected
  <2> QED BY <2>1, <2>2
<1>11. Placed' /\ LiveMeansLoggedOn'
  BY <1>2, <1>3, <1>7 DEF Placed, LiveMeansLoggedOn
<1> QED BY <1>6, <1>9, <1>10, <1>11 DEF PeerInv

-----------------------------------------------------------------------------
(* A message.  What the step to f leaves as it is, whatever m is, and what   *)
(* the history makes of it: m begins a numbering, came in its turn, or shows *)
(* a gap. *)
Begun(m, f) == BeginsNumbering(m, f)
InTurn(m)   == m.seq = eng.store.in /\ ~Fills(m)
High(m, f)  == m.seq > eng.store.in /\ ~Begun(m, f) /\ ~Fills(m) /\ f.st # "DISCONNECTED"

Processed(m, f) ==
    /\ f \in Engines
    /\ eng.st = "DISCONNECTED" => f.st = "DISCONNECTED"
    /\ Remember(f, Begun(m, f), InTurn(m), High(m, f))
    /\ got' = (IF Begun(m, f) THEN {} ELSE got)
              \cup (IF InTurn(m) \/ Begun(m, f) THEN {m.seq} ELSE {})
    /\ (excused' <=> \/ excused /\ ~(m.type = "Logon" /\ Begun(m, f))
                     \/ Moved(f) /\ (m.poss \/ m.type = "SequenceReset"))
    /\ (stale' <=> stale \/ (Begun(m, f) /\ eng.gap # None))

HistoryKept == Ahead' /\ OrderKept /\ AskedWhenNoted' /\ NothingSkipped'

LEMMA SeqFacts ==
    ASSUME NEW m \in Messages
    PROVE  m.seq \in Int /\ (m.seq # Bad => m.seq \in Nat) /\ m.poss \in BOOLEAN
BY DEF Messages, Digits, Bad

LEMMA HistoryIsBoolean ==
    \A m, f : Begun(m, f) \in BOOLEAN /\ InTurn(m) \in BOOLEAN /\ High(m, f) \in BOOLEAN
BY DEF Begun, BeginsNumbering, ObeysReset, InTurn, High

LEMMA PassedOverKeeps ==
    ASSUME PeerInv, NEW m \in Messages, NEW f, Processed(m, f),
           NEW g, PassedOver(Idle, m, g), f.st = g.st,
           f.store = g.store, f.gap = g.gap, f.sent = g.sent, f.told = g.told
    PROVE  HistoryKept
<1>1. /\ eng \in Engines /\ Ahead /\ AskedWhenNoted /\ NothingSkipped
      /\ f \in Engines /\ g \in Engines
  BY DEF PeerInv, Placed, Processed, PassedOver, Continues, Keeps, Holds
<1>2. /\ Idle \in Engines /\ Idle.sent = <<>> /\ Idle.told = <<>> /\ Idle.st = eng.st
      /\ Idle.store = eng.store /\ Idle.gap = eng.gap
  BY <1>1, IdleFacts
<1>3. /\ f.store.in = eng.store.in /\ f.gap = eng.gap /\ f.told = <<>>
      /\ Numbered(Idle, f) /\ AsksNothing(Idle, f)
  BY <1>2 DEF PassedOver, Continues, Keeps, Holds, Numbered, AsksNothing
<1>4. ~Moved(f) /\ ~Begun(m, f) /\ ~InTurn(m)
  BY <1>2, <1>3 DEF Moved, Expected, Begun, BeginsNumbering, ObeysReset, InTurn, PassedOver
<1>5. Remember(f, FALSE, FALSE, High(m, f)) /\ High(m, f) \in BOOLEAN
  <2>1. Begun(m, f) = FALSE /\ InTurn(m) = FALSE
    BY <1>4, HistoryIsBoolean
  <2> QED BY <2>1, HistoryIsBoolean DEF Processed
<1>6. Rises(eng.store.out, f) /\ Asks(f) = 0
  BY <1>1, <1>2, <1>3, NumberedRises, QuietAsks
<1>7. f.store.in >= eng.store.in
  BY <1>1, <1>3, CounterFacts
<1>8. Ahead' /\ OrderKept
  BY <1>1, <1>3, <1>5, <1>6, <1>7, Remembered
<1>9. stale' <=> stale
  BY <1>4 DEF Processed
<1>10. High(m, f) => stale' \/ (asked = 1 /\ ~Moved(f))
  <2> SUFFICES ASSUME High(m, f), ~stale PROVE asked = 1
    BY <1>4, <1>9
  <2>1. eng.gap = eng.store.in /\ g = Idle
    BY <1>2 DEF High, PassedOver
  <2>2. eng.st # "DISCONNECTED" /\ eng.gap # None
    BY <1>1, <1>2, <2>1, CounterFacts DEF High, None
  <2> QED BY <1>1, <2>1, <2>2 DEF AskedWhenNoted
<1>11. AskedWhenNoted'
  <2>1. eng.st = "DISCONNECTED" => f.st = "DISCONNECTED"
    BY DEF Processed
  <2> QED BY <1>1, <1>3, <1>5, <1>6, <1>7, <1>9, <1>10, <2>1, AsksForNothing
<1>12. NothingSkipped'
  <2>1. eng' = f /\ got' = got /\ (excused' <=> excused)
    BY <1>4 DEF Processed, Remember
  <2> QED BY <1>1, <1>3, <2>1 DEF NothingSkipped, Expected
<1> QED BY <1>8, <1>11, <1>12 DEF HistoryKept

LEMMA FilledUpKeeps ==
    ASSUME PeerInv, NEW m \in Messages, NEW f, Processed(m, f),
           NEW g, FilledUp(Idle, m, g), f.st = g.st,
           f.store = g.store, f.gap = g.gap, f.sent = g.sent, f.told = g.told
    PROVE  HistoryKept
<1>1. /\ eng \in Engines /\ Ahead /\ AskedWhenNoted /\ f \in Engines
  BY DEF PeerInv, Placed, Processed
<1>2. /\ Idle \in Engines /\ Idle.sent = <<>> /\ Idle.told = <<>>
      /\ Idle.store = eng.store /\ Idle.gap = eng.gap
  BY <1>1, IdleFacts
<1>3. /\ f.store.in > eng.store.in /\ f.store.out = eng.store.out
      /\ f.gap = eng.gap /\ f.told = <<>> /\ f.sent = <<>>
  BY <1>2 DEF FilledUp, SameSession
<1>4. Moved(f) /\ ~Begun(m, f) /\ ~InTurn(m) /\ ~High(m, f) /\ m.type = "SequenceReset"
  <2>1. f.store.in # eng.store.in
    BY <1>1, <1>3, CounterFacts
  <2> QED BY <2>1 DEF Moved, Expected, Begun, BeginsNumbering, ObeysReset, InTurn, High,
                      FilledUp, Fills
<1>5. Remember(f, FALSE, FALSE, FALSE)
  <2>1. Begun(m, f) = FALSE /\ InTurn(m) = FALSE /\ High(m, f) = FALSE
    BY <1>4, HistoryIsBoolean
  <2> QED BY <2>1 DEF Processed
<1>6. Rises(eng.store.out, f) /\ Asks(f) = 0
  <2>1. Numbered(Idle, f) /\ AsksNothing(Idle, f)
    BY <1>1, <1>2, <1>3, Unsent
  <2> QED BY <1>1, <1>2, <2>1, NumberedRises, QuietAsks
<1>7. f.store.in >= eng.store.in
  BY <1>1, <1>3, CounterFacts
<1>8. Ahead' /\ OrderKept
  BY <1>1, <1>3, <1>5, <1>6, <1>7, Remembered
<1>9. (stale' <=> stale) /\ (eng.st = "DISCONNECTED" => f.st = "DISCONNECTED")
  BY <1>4 DEF Processed
<1>10. AskedWhenNoted'
  BY <1>1, <1>3, <1>5, <1>6, <1>7, <1>9, AsksForNothing
<1>11. NothingSkipped'
  BY <1>4 DEF NothingSkipped, Processed
<1> QED BY <1>8, <1>10, <1>11 DEF HistoryKept

LEMMA BegunAnewKeeps ==
    ASSUME PeerInv, NEW m \in Messages, NEW f, Processed(m, f),
           NEW g, BegunAnew(Idle, m, g), f.st = g.st,
           f.store = g.store, f.gap = g.gap, f.sent = g.sent, f.told = g.told
    PROVE  HistoryKept
<1>1. /\ eng \in Engines /\ Ahead /\ AskedWhenNoted /\ f \in Engines
  BY DEF PeerInv, Placed, Processed
<1>2. /\ Idle \in Engines /\ Idle.sent = <<>> /\ Idle.told = <<>>
      /\ Idle.store = eng.store /\ Idle.gap = eng.gap
  BY <1>1, IdleFacts
<1>3. PICK d : /\ SameSession(Idle, d) /\ d.gap = eng.gap /\ d.told = <<>>
               /\ d.store.in \in {1, 2} /\ Keeps(d, g)
  BY <1>2 DEF BegunAnew
<1>4. /\ d \in Engines /\ d.sent = <<>>
      /\ f.gap = eng.gap /\ f.told = <<>> /\ f.store.in \in {1, 2}
      /\ Numbered(d, f) /\ AsksNothing(d, f)
  BY <1>2, <1>3 DEF SameSession, Keeps, Holds, Numbered, AsksNothing
<1>5. Begun(m, f) /\ ~High(m, f) /\ InTurn(m) \in BOOLEAN
  BY DEF Begun, BeginsNumbering, High, InTurn, BegunAnew
<1>6. Remember(f, TRUE, InTurn(m), FALSE)
  <2>1. Begun(m, f) = TRUE /\ High(m, f) = FALSE
    BY <1>5, HistoryIsBoolean
  <2> QED BY <2>1 DEF Processed
<1>7. Rises(1, f) /\ Asks(f) = 0
  <2>1. Rises(d.store.out, f) /\ Asks(f) = 0
    BY <1>1, <1>4, NumberedRises, QuietAsks
  <2>2. /\ d.store.out \in Nat /\ d.store.out >= 1 /\ f.store.out \in Nat
        /\ DOMAIN f.sent = 1 .. Len(f.sent)
        /\ \A i \in 1 .. Len(f.sent) : f.sent[i].seq \in Int
    <3>1. f.sent \in Seq(Messages)
      BY <1>1 DEF Engines
    <3> QED BY <1>1, <1>4, <3>1, CounterFacts, SentFacts, LenProperties
  <2> QED BY <2>1, <2>2 DEF Rises
<1>8. Ahead' /\ OrderKept
  BY <1>1, <1>4, <1>5, <1>6, <1>7, Remembered
<1>9. /\ (stale => stale') /\ (f.gap # None => stale')
      /\ eng.st = "DISCONNECTED" => f.st = "DISCONNECTED"
  BY <1>4, <1>5 DEF Processed
<1>10. AskedWhenNoted'
  BY <1>1, <1>4, <1>5, <1>6, <1>7, <1>9, AsksForNothing
<1>11. NothingSkipped'
  <2>1. eng' = f
    BY <1>6 DEF Remember
  <2> QED BY <1>4, <2>1 DEF NothingSkipped, Expected
<1> QED BY <1>8, <1>10, <1>11 DEF HistoryKept

LEMMA AskedKeeps ==
    ASSUME PeerInv, NEW m \in Messages, NEW f, Processed(m, f),
           NEW g, Asked(Idle, m, g), f.st = g.st, eng.net # "down",
           f.store = g.store, f.gap = g.gap, f.sent = g.sent, f.told = g.told
    PROVE  HistoryKept
<1>1. /\ eng \in Engines /\ Ahead /\ AskedWhenNoted /\ NothingSkipped /\ f \in Engines
      /\ eng.net \in {"up", "broken"}
  BY DEF PeerInv, Placed, Processed, Engines
<1>2. /\ Idle \in Engines /\ Idle.sent = <<>> /\ Idle.told = <<>>
      /\ Idle.store = eng.store /\ Idle.gap = eng.gap /\ Idle.st = eng.st /\ Idle.net = eng.net
  BY <1>1, IdleFacts
<1>3. PICK d : /\ SameSession(Idle, d) /\ d.gap = eng.store.in /\ d.told = <<>>
               /\ d.store = eng.store /\ Holds(d, g)
  BY <1>2 DEF Asked
<1>4. /\ d \in Engines /\ d.sent = <<>>
      /\ f.gap = eng.store.in /\ f.told = <<>> /\ f.store.in = eng.store.in
      /\ Numbered(d, f)
  BY <1>2, <1>3 DEF SameSession, Holds, Numbered
<1>5. /\ eng.store.in \in Nat /\ m.seq \in Int /\ m.seq > eng.store.in
      /\ eng.gap # eng.store.in
  BY <1>1, <1>2, CounterFacts, SeqFacts DEF Asked
<1>6. ~Moved(f) /\ ~InTurn(m) /\ ~Begun(m, f)
  BY <1>4, <1>5 DEF Moved, Expected, InTurn, Begun, BeginsNumbering, ObeysReset, Asked
<1>7. Remember(f, FALSE, FALSE, High(m, f)) /\ High(m, f) \in BOOLEAN
  <2>1. Begun(m, f) = FALSE /\ InTurn(m) = FALSE
    BY <1>6, HistoryIsBoolean
  <2> QED BY <2>1, HistoryIsBoolean DEF Processed
<1>8. Rises(eng.store.out, f)
  BY <1>1, <1>3, <1>4, NumberedRises
<1>9. f.store.in >= eng.store.in
  BY <1>4, <1>5
<1>10. Ahead' /\ OrderKept
  BY <1>1, <1>4, <1>7, <1>8, <1>9, Remembered
<1>11. Asks(f) \in {0, 1} /\ (Asks(f) = 1 \/ f.st = "DISCONNECTED")
  <2>1. CASE eng.st # "DISCONNECTED" /\ eng.net = "up"
    <3>1. PICK r \in Messages : /\ f.sent = Append(<<>>, r)
                                /\ r.type = "ResendRequest" /\ r.begin = eng.store.in
      BY <1>2, <2>1 DEF Asked
    <3>2. f.sent = <<r>>
      BY <3>1
    <3> QED BY <1>4, <3>1, <3>2, OneAsked DEF Expected
  <2>2. CASE ~(eng.st # "DISCONNECTED" /\ eng.net = "up")
    <3>1. f.sent = <<>>
      BY <1>2, <2>2 DEF Asked
    <3>2. f.st = "DISCONNECTED"
      BY <1>1, <1>2, <2>2 DEF Asked, Processed
    <3>3. AsksNothing(Idle, f)
      BY <1>2, <3>1 DEF AsksNothing
    <3> QED BY <1>1, <1>2, <3>2, <3>3, QuietAsks
  <2> QED BY <2>1, <2>2
<1>12. AskedWhenNoted'
  <2>1. stale => stale'
    BY DEF Processed
  <2>2. High(m, f) => f.st # "DISCONNECTED"
    BY DEF High
  <2> QED BY <1>1, <1>4, <1>5, <1>7, <1>11, <2>1, <2>2, AsksOnce
<1>13. NothingSkipped'
  <2>1. eng' = f /\ got' = got /\ (excused' <=> excused)
    BY <1>6 DEF Processed, Remember
  <2> QED BY <1>1, <1>4, <2>1 DEF NothingSkipped, Expected
<1> QED BY <1>10, <1>12, <1>13 DEF HistoryKept

LEMMA TakenUpKeeps ==
    ASSUME PeerInv, NEW m \in Messages, NEW f, Processed(m, f),
           NEW g, TakenUp(Idle, m, g), f.st = g.st,
           f.store = g.store, f.gap = g.gap, f.sent = g.sent, f.told = g.told
    PROVE  HistoryKept
<1>1. /\ eng \in Engines /\ Ahead /\ AskedWhenNoted /\ NothingSkipped /\ f \in Engines
  BY DEF PeerInv, Placed, Processed
<1>2. /\ Idle \in Engines /\ Idle.sent = <<>> /\ Idle.told = <<>>
      /\ Idle.store = eng.store /\ Idle.gap = eng.gap
  BY <1>1, IdleFacts
<1>3. PICK d : /\ SameSession(Idle, d) /\ Keeps(d, g)
               /\ d.gap = IF m.seq = eng.store.in THEN None ELSE eng.gap
               /\ IF m.type = "App" THEN d.told = Append(<<>>, m) ELSE d.told = <<>>
               /\ Counts(Idle, m, d)
  BY <1>2 DEF TakenUp
<1>4. /\ d \in Engines /\ d.sent = <<>> /\ Counts(eng, m, d)
      /\ f.gap = d.gap /\ f.told = d.told /\ f.store.in = d.store.in
      /\ Numbered(d, f) /\ AsksNothing(d, f)
  BY <1>2, <1>3 DEF SameSession, Keeps, Holds, Numbered, AsksNothing, Counts
<1>5. /\ eng.store.in \in Nat /\ eng.store.in >= 1 /\ m.seq \in Int
      /\ f.store.in \in Nat /\ d.store.in \in Nat /\ d.store.out \in Nat /\ d.store.out >= 1
  BY <1>1, <1>4, CounterFacts, SeqFacts
<1>6. /\ ~Fills(m) /\ ~(m.type = "Logon" /\ m.reset)
      /\ m.seq = eng.store.in \/ (m.seq < eng.store.in /\ m.poss)
  BY <1>2 DEF TakenUp
<1>7. InTurn(m) <=> m.seq = eng.store.in
  BY <1>6 DEF InTurn
<1>8. ~High(m, f)
  BY <1>5, <1>6 DEF High
<1>9. Begun(m, f) <=> m.type = "SequenceReset" /\ ~m.fill /\ f.store.in # eng.store.in
  BY <1>6 DEF Begun, BeginsNumbering, ObeysReset, Moved, Expected
<1>10. Remember(f, Begun(m, f), InTurn(m), FALSE) /\ Begun(m, f) \in BOOLEAN
       /\ InTurn(m) \in BOOLEAN
  <2>1. High(m, f) = FALSE
    BY <1>8, HistoryIsBoolean
  <2> QED BY <2>1, HistoryIsBoolean DEF Processed
<1>11. f.store.in >= eng.store.in
  BY <1>4, <1>5 DEF Counts
<1>12. ~Begun(m, f) => d.store.out = eng.store.out
  BY <1>4, <1>5, <1>9 DEF Counts
<1>13. Rises(d.store.out, f) /\ Asks(f) = 0
  BY <1>1, <1>4, NumberedRises, QuietAsks
<1>14. Rises(IF Begun(m, f) THEN 1 ELSE eng.store.out, f)
  <2>1. CASE Begun(m, f)
    <3>1. /\ f.store.out \in Nat /\ DOMAIN f.sent = 1 .. Len(f.sent)
          /\ \A i \in 1 .. Len(f.sent) : f.sent[i].seq \in Int
      <4>1. f.sent \in Seq(Messages)
        BY <1>1 DEF Engines
      <4> QED BY <1>1, <4>1, CounterFacts, SentFacts, LenProperties
    <3> QED BY <1>5, <1>13, <2>1, <3>1 DEF Rises
  <2>2. CASE ~Begun(m, f)
    BY <1>12, <1>13, <2>2
  <2> QED BY <2>1, <2>2
<1>15. \/ f.told = <<>>
       \/ /\ ~Begun(m, f)
          /\ \E n \in Messages : /\ f.told = <<n>>
                                 /\ ~n.poss => n.seq = eng.store.in /\ f.store.in > eng.store.in
  <2>1. CASE m.type = "App"
    <3>1. f.told = <<m>> /\ ~Begun(m, f)
      BY <1>3, <1>4, <1>9, <2>1
    <3>2. f.store.in > eng.store.in
      BY <1>4, <1>5, <2>1 DEF Counts
    <3>3. ~m.poss => m.seq = eng.store.in
      BY <1>6
    <3> QED BY <3>1, <3>2, <3>3
  <2>2. CASE m.type # "App"
    BY <1>3, <1>4, <2>2
  <2> QED BY <2>1, <2>2
<1>16. Ahead' /\ OrderKept
  BY <1>1, <1>10, <1>11, <1>14, <1>15, Remembered
<1>17. AskedWhenNoted'
  <2>1. /\ f.gap = eng.gap \/ (InTurn(m) /\ f.gap = None)
        /\ InTurn(m) /\ f.gap # None => stale'
    BY <1>3, <1>4, <1>7
  <2>2. Begun(m, f) /\ f.gap # None => stale'
    BY <2>1 DEF Processed
  <2>3. (stale => stale') /\ (eng.st = "DISCONNECTED" => f.st = "DISCONNECTED")
    BY DEF Processed
  <2> QED BY <1>1, <1>10, <1>11, <1>13, <2>1, <2>2, <2>3, AsksForNothing
<1>18. NothingSkipped'
  <2>1. eng' = f
    BY <1>10 DEF Remember
  <2>2. CASE f.store.in = eng.store.in
    <3>1. ~Begun(m, f) /\ ~Moved(f)
      BY <1>9, <2>2 DEF Moved, Expected
    <3>2. got \subseteq got' /\ (excused => excused')
      BY <3>1 DEF Processed
    <3> QED BY <1>1, <2>1, <2>2, <3>2 DEF NothingSkipped, Expected
  <2>3. CASE f.store.in # eng.store.in /\ (m.poss \/ m.type = "SequenceReset")
    BY <2>3 DEF NothingSkipped, Processed, Moved, Expected
  <2>4. CASE f.store.in # eng.store.in /\ ~(m.poss \/ m.type = "SequenceReset")
    <3>1. m.seq = eng.store.in /\ InTurn(m) /\ ~Begun(m, f) /\ f.store.in = eng.store.in + 1
      BY <1>4, <1>6, <1>7, <1>9, <2>4 DEF Counts
    <3>2. got' = got \cup {eng.store.in} /\ (excused => excused')
      BY <3>1 DEF Processed
    <3> QED BY <1>1, <1>5, <2>1, <3>1, <3>2 DEF NothingSkipped, Expected
  <2> QED BY <2>2, <2>3, <2>4
<1> QED BY <1>16, <1>17, <1>18 DEF HistoryKept

LEMMA ProcessMessageKeeps ==
    ASSUME PeerInv, ProcessMessage PROVE PeerInv' /\ OrderKept
<1> DEFINE m == Head(eng.buf)
           f == ProcessNext(Idle)
           g == ProcessSingle(Idle, m)
<1>1. /\ eng \in Engines /\ eng.buf # <<>> /\ eng.net # "down" /\ reading = "busy"
      /\ LiveMeansLoggedOn
  BY DEF PeerInv, Placed, ProcessMessage
<1>2. /\ Idle \in Engines /\ Idle.mode = eng.mode /\ Idle.st = eng.st /\ Idle.net = eng.net
      /\ Idle.buf = eng.buf
  BY <1>1, IdleFacts
<1>3. m \in Messages
  BY <1>1, <1>2, NextFacts
<1>4. /\ Remember(f, Begun(m, f), InTurn(m), High(m, f))
      /\ got' = (IF Begun(m, f) THEN {} ELSE got)
                \cup (IF InTurn(m) \/ Begun(m, f) THEN {m.seq} ELSE {})
      /\ (excused' <=> \/ excused /\ ~(m.type = "Logon" /\ Begun(m, f))
                       \/ Moved(f) /\ (m.poss \/ m.type = "SequenceReset"))
      /\ (loggedOn' <=> loggedOn \/ (m.type = "Logon" /\ f.st = "ACTIVE"))
      /\ (stale' <=> stale \/ (Begun(m, f) /\ eng.gap # None))
      /\ reading' = reading /\ eng' = f
  BY DEF ProcessMessage, Remember, Begun, InTurn, High, Expected
<1>5. /\ g \in Engines /\ g.mode = eng.mode
      /\ g.net = eng.net \/ (g.net = "down" /\ g.buf = <<>>)
      /\ eng.st = "DISCONNECTED" => g.st = "DISCONNECTED"
      /\ g.st = "ACTIVE" => eng.st = "ACTIVE" \/ m.type = "Logon"
      /\ \/ PassedOver(Idle, m, g) \/ FilledUp(Idle, m, g) \/ BegunAnew(Idle, m, g)
         \/ Asked(Idle, m, g) \/ TakenUp(Idle, m, g)
  <2> HIDE DEF m, g
  <2>1. \/ PassedOver(Idle, m, g) \/ FilledUp(Idle, m, g) \/ BegunAnew(Idle, m, g)
        \/ Asked(Idle, m, g) \/ TakenUp(Idle, m, g)
    BY <1>2, <1>3, FiveOutcomes DEF g
  <2>2. CASE PassedOver(Idle, m, g)
    BY <1>2, <2>2 DEF PassedOver, Continues, Keeps, Holds
  <2>3. CASE FilledUp(Idle, m, g)
    BY <1>2, <2>3 DEF FilledUp, SameSession
  <2>4. CASE BegunAnew(Idle, m, g)
    BY <1>2, <2>4 DEF BegunAnew, SameSession, Keeps, Holds
  <2>5. CASE Asked(Idle, m, g)
    BY <1>2, <2>5 DEF Asked, SameSession, Holds
  <2>6. CASE TakenUp(Idle, m, g)
    BY <1>2, <2>6 DEF TakenUp, SameSession, Keeps, Holds
  <2> QED BY <2>1, <2>2, <2>3, <2>4, <2>5, <2>6
<1>6. /\ f \in Engines /\ f.mode = g.mode /\ f.st = g.st /\ f.net = g.net
      /\ f.store = g.store /\ f.gap = g.gap /\ f.sent = g.sent /\ f.told = g.told
      /\ g.buf = <<>> => f.buf = <<>>
  BY <1>1, <1>2, <1>5, NextFacts
<1> HIDE DEF f, g, m
<1>7. Processed(m, f)
  BY <1>4, <1>5, <1>6 DEF Processed
<1>8. HistoryKept
  BY <1>1, <1>3, <1>5, <1>6, <1>7, PassedOverKeeps, FilledUpKeeps, BegunAnewKeeps, AskedKeeps,
     TakenUpKeeps
<1>9. Placed'
  BY <1>1, <1>4, <1>5, <1>6 DEF Placed
<1>10. LiveMeansLoggedOn'
  <2> SUFFICES ASSUME f.st = "ACTIVE", f.net = "up" PROVE loggedOn'
    BY <1>4 DEF LiveMeansLoggedOn
  <2>1. eng.net = "up" /\ (eng.st = "ACTIVE" \/ m.type = "Logon")
    BY <1>5, <1>6
  <2> QED BY <1>1, <1>4, <2>1 DEF LiveMeansLoggedOn
<1> QED BY <1>8, <1>9, <1>10 DEF PeerInv, HistoryKept

-----------------------------------------------------------------------------
LEMMA InitHolds ==
    ASSUME Init PROVE PeerInv
<1>1. PICK c \in Configs : eng = NewEngine(c[1], c[2], NewStore)
  BY DEF Init
<1>2. c[1] \in {"initiator", "acceptor"} /\ c[2] \in BOOLEAN
  BY PyPeerAssumption
<1>3. NewStore \in Stores
  BY DEF NewStore, Stores, Numbers, NoRow
<1>4. Reopened(NewStore).in = 1 /\ Reopened(NewStore).out = 1
  BY DEF Reopened, NewStore, Load, NoRow
<1>5. /\ eng \in Engines /\ eng.st = "DISCONNECTED" /\ eng.gap = None /\ eng.buf = <<>>
      /\ eng.store.in = 1 /\ eng.store.out = 1
  BY <1>1, <1>2, <1>3, <1>4, NewEngineFacts
<1>6. Placed /\ LiveMeansLoggedOn
  BY <1>5 DEF Init, Placed, LiveMeansLoggedOn
<1>7. Ahead /\ AskedWhenNoted /\ NothingSkipped
  BY <1>5 DEF Init, Ahead, AskedWhenNoted, NothingSkipped, Expected, None
<1> QED BY <1>6, <1>7 DEF PeerInv

LEMMA NextKeeps ==
    ASSUME PeerInv, Next PROVE PeerInv' /\ OrderKept
<1>1. CASE \E up \in BOOLEAN : ConnectOrRefused(up)
  BY <1>1, ConnectKeeps
<1>2. CASE ClientConnects
  BY <1>2, ClientConnectsKeeps
<1>3. CASE \E m \in Inputs : Read(<<m>>) \/ \E n \in Followers : Read(<<m, n>>)
  <2>1. \E msgs \in Seq(Messages) : Read(msgs)
    <3>1. PICK m \in Inputs : Read(<<m>>) \/ \E n \in Followers : Read(<<m, n>>)
      BY <1>3
    <3>2. m \in Messages /\ \A n \in Followers : n \in Messages
      BY PyPeerAssumption
    <3>3. CASE Read(<<m>>)
      <4>1. <<m>> \in Seq(Messages)
        BY <3>2
      <4> QED BY <3>3, <4>1
    <3>4. CASE \E n \in Followers : Read(<<m, n>>)
      <4>1. PICK n \in Followers : Read(<<m, n>>)
        BY <3>4
      <4>2. <<m, n>> \in Seq(Messages)
        BY <3>2
      <4> QED BY <4>1, <4>2
    <3> QED BY <3>1, <3>3, <3>4
  <2> QED BY <2>1, ReadKeeps
<1>4. CASE ProcessMessage
  BY <1>4, ProcessMessageKeeps
<1>5. CASE ReadAgain \/ ReadEnds \/ ConnectionBreaks
  BY <1>5, ReadAgainKeeps, ReadEndsKeeps, ConnectionBreaksKeeps
<1>6. CASE \/ Heartbeat \/ TestRequest \/ TimesOut \/ Sends \/ AsksToLogOff \/ LoggedOff
           \/ \E g \in BOOLEAN : Disconnects(g)
  BY <1>6, TimersKeep
<1>7. CASE Restart
  BY <1>7, RestartKeeps
<1> QED BY <1>1, <1>2, <1>3, <1>4, <1>5, <1>6, <1>7 DEF Next

LEMMA StutterKeeps ==
    ASSUME PeerInv, UNCHANGED vars PROVE PeerInv'
BY DEF PeerInv, Placed, Ahead, AskedWhenNoted, NothingSkipped, LiveMeansLoggedOn, Expected,
   vars, bounds, history

LEMMA PeerInvariant == Spec => []PeerInv
<1>1. PeerInv /\ [Next]_vars => PeerInv'
  BY NextKeeps, StutterKeeps
<1> QED BY InitHolds, <1>1, PTL DEF Spec

(* Every number below the expected one was received in its turn, for any    *)
(* messages the peer sends, in any number of reads, connections and          *)
(* processes: process_single_fix_message skips none but for the excuses      *)
(* that NothingSkipped names. *)
THEOREM NumbersReceivedInTurn == Spec => []NothingSkipped
<1>1. PeerInv => NothingSkipped
  BY DEF PeerInv
<1> QED BY <1>1, PeerInvariant, PTL

(* A session is ACTIVE on a live network only after a Logon accepted on this  *)
(* very connection: what start and handle_incoming_connection do to a state   *)
(* that was left over does not carry it over. *)
THEOREM ActiveMeansLoggedOn == Spec => []LiveMeansLoggedOn
<1>1. PeerInv => LiveMeansLoggedOn
  BY DEF PeerInv
<1> QED BY <1>1, PeerInvariant, PTL

(* process_single_fix_message asks about a gap at most once, and drops a      *)
(* message that shows one only when it has asked, or holds a request of an    *)
(* earlier connection or numbering for its own. *)
THEOREM OneRequestPerGap == Spec => []GapAskedOnce
<1>1. PeerInv => GapAskedOnce
  BY DEF PeerInv, AskedWhenNoted, GapAskedOnce
<1> QED BY <1>1, PeerInvariant, PTL

(* Application.onMessage gets the unmarked messages of a numbering in the     *)
(* order of their numbers, each once, whatever the peer repeats. *)
THEOREM HandedUpInSequence == Spec => HandedUpInOrder
<1>1. PeerInv /\ [Next]_vars => [~anew' => \A n \in Unmarked(eng'.told) : n > top]_vars
  BY NextKeeps DEF OrderKept
<1> QED BY <1>1, PeerInvariant, PTL DEF Spec, HandedUpInOrder

(* The numbers send_message gives out rise, in each step and from step to     *)
(* step, until a numbering begins anew: no number is used twice. *)
THEOREM SentInSequence == Spec => SentInOrder
<1>1. PeerInv /\ [Next]_vars =>
        [~anew' => \A i \in DOMAIN eng'.sent :
                     eng'.sent[i].seq > IF i = 1 THEN lastSent ELSE eng'.sent[i - 1].seq]_vars
  BY NextKeeps DEF OrderKept
<1> QED BY <1>1, PeerInvariant, PTL DEF Spec, SentInOrder
=============================================================================
