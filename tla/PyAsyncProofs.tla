---------------------------- MODULE PyAsyncProofs ----------------------------
(***************************************************************************)
(* Proofs about the asynchronous store and the tasks that meet at its      *)
(* lock, for any number of tasks of the application and any bounds; and,   *)
(* last, about the maps of a specification's tags, for any names and any   *)
(* sequence of edits and look-ups.  The two share no state.                *)
(***************************************************************************)
EXTENDS PyAsync, PyTags, SequenceTheorems, FiniteSetTheorems, WellFoundedInduction,
        TLAPS

(* The operations that hold the lock or wait for it.                       *)
LockOps == {"keep", "count", "keepIn", "countIn", "shut"}

(* Task t is in the queue of the lock.                                     *)
Queued(v, t) == \E i \in 1 .. Len(v.lock) : v.lock[i] = t

(* The queue of the lock holds the tasks that are in an operation on the   *)
(* store, each once, and a holder that was given it works on an open       *)
(* database.  Only the reader counts what is received.                     *)
Queue(v) ==
    /\ v \in System
    /\ \A i, j \in 1 .. Len(v.lock) : v.lock[i] = v.lock[j] => i = j
    /\ \A t \in Tasks : v.op[t] \in LockOps <=> Queued(v, t)
    /\ v.taken => v.lock # <<>> /\ v.conn = "open" /\ v.op[Head(v.lock)] # "shut"
    /\ v.done => v.taken
    /\ \A t \in Tasks : v.op[t] \in {"keepIn", "countIn"} => t = Reader

(* While the session is up nobody is taking it down, and the database is   *)
(* closing exactly while one task closes it.                               *)
Ending(v) ==
    /\ \A t \in Tasks : v.op[t] \in {"leave", "shut", "close"} => ~v.up
    /\ v.conn = "closing" => \E t \in Tasks : v.op[t] = "close"
    /\ \A t \in Tasks : v.op[t] = "close" => v.conn = "closing"
    /\ \A t, u \in Tasks : v.op[t] = "close" /\ v.op[u] = "close" => t = u
    /\ v.op[Hb] \notin {"leave", "shut", "close"}

(* Every number was sent once and in its turn, and at most the last of     *)
(* them is not counted yet.                                                *)
Sequence(v) ==
    /\ \A t, u \in Tasks : Uncounted(v, t) /\ Uncounted(v, u) => t = u
    /\ Len(v.wire) + 1 = v.out + (IF \E t \in Tasks : Uncounted(v, t) THEN 1 ELSE 0)
    /\ \A i \in 1 .. Len(v.wire) : v.wire[i] = i

(* The holder has counted in memory, and the row does not have it yet.     *)
Counting(v, o) == v.taken /\ ~v.done /\ v.op[Head(v.lock)] = o

(* The row on disk is what memory holds, but for the count under way.      *)
RowCurrent(v) ==
    /\ v.in  = v.row[1] + (IF Counting(v, "countIn") THEN 1 ELSE 0)
    /\ v.out = v.row[2] + (IF Counting(v, "count") THEN 1 ELSE 0)

(* The reader has counted the message it is about to hand up.              *)
Holding(v) == v.taken /\ v.op[Head(v.lock)] = "countIn"

(* What was handed up is in order and below what is counted, in memory and *)
(* on disk; what is counted was handed up or is on its way or lost.        *)
Handed(v, lost) ==
    /\ \A i, j \in 1 .. Len(v.handed) : i < j => v.handed[i] < v.handed[j]
    /\ \A i \in 1 .. Len(v.handed) :
          v.handed[i] < IF Holding(v) THEN v.in - 1 ELSE v.in
    /\ \A n \in 1 .. v.in - 1 :
         \/ \E i \in 1 .. Len(v.handed) : v.handed[i] = n
         \/ n \in lost
         \/ Holding(v) /\ n = v.in - 1

IInv ==
    /\ TypeOK
    /\ Queue(w)
    /\ Ending(w)
    /\ ~past.loose => Sequence(w)
    /\ ~past.unsaved => RowCurrent(w)
    /\ ~past.rolled => Handed(w, past.dropped)

-----------------------------------------------------------------------------
(* The queue of the lock.                                                  *)

(* The first in the queue is in an operation on the store.                 *)
LEMMA HeadWorks ==
    ASSUME NEW v, Queue(v), v.lock # <<>>
    PROVE  /\ Head(v.lock) \in Tasks /\ Head(v.lock) = v.lock[1]
           /\ Len(v.lock) \in Nat \ {0}
           /\ v.op[Head(v.lock)] \in LockOps
<1>1. v.lock \in Seq(Tasks)
  BY DEF Queue, System
<1>2. Head(v.lock) \in Tasks /\ Head(v.lock) = v.lock[1] /\ Len(v.lock) \in Nat \ {0}
  BY <1>1, HeadTailProperties, EmptySeq
<1>3. Queued(v, Head(v.lock))
  BY <1>2 DEF Queued
<1> QED BY <1>2, <1>3 DEF Queue

(* It leaves the queue, to do something else.                              *)
LEMMA LeavesQueue ==
    ASSUME NEW v, Queue(v), v.lock # <<>>, NEW x \in System, NEW o \in Ops \ LockOps,
           x.lock = Tail(v.lock), ~x.taken, ~x.done,
           x.op = [v.op EXCEPT ![Head(v.lock)] = o]
    PROVE  Queue(x)
<1>1. v.lock \in Seq(Tasks) /\ v.op \in [Tasks -> Ops]
  BY DEF Queue, System
<1>2. /\ Len(x.lock) = Len(v.lock) - 1 /\ Len(v.lock) \in Nat
      /\ \A i \in 1 .. Len(x.lock) : x.lock[i] = v.lock[i + 1]
  BY <1>1, HeadTailProperties, LenProperties
<1>3. Head(v.lock) \in Tasks /\ Head(v.lock) = v.lock[1]
  BY HeadWorks
<1>4. \A i, j \in 1 .. Len(x.lock) : x.lock[i] = x.lock[j] => i = j
  BY <1>2 DEF Queue
<1>5. \A t \in Tasks : Queued(x, t) <=> Queued(v, t) /\ t # Head(v.lock)
  <2> SUFFICES ASSUME NEW t \in Tasks
               PROVE  Queued(x, t) <=> Queued(v, t) /\ t # Head(v.lock)
    OBVIOUS
  <2>1. ASSUME Queued(x, t) PROVE Queued(v, t) /\ t # Head(v.lock)
    <3>1. PICK i \in 1 .. Len(x.lock) : x.lock[i] = t
      BY <2>1 DEF Queued
    <3>2. i + 1 \in 1 .. Len(v.lock) /\ v.lock[i + 1] = t /\ 1 \in 1 .. Len(v.lock) /\ i + 1 # 1
      BY <3>1, <1>2
    <3> QED BY <3>2, <1>3 DEF Queued, Queue
  <2>2. ASSUME Queued(v, t), t # Head(v.lock) PROVE Queued(x, t)
    <3>1. PICK i \in 1 .. Len(v.lock) : v.lock[i] = t
      BY <2>2 DEF Queued
    <3>2. i # 1
      BY <3>1, <2>2, <1>3
    <3>3. i - 1 \in 1 .. Len(x.lock) /\ x.lock[i - 1] = t
      BY <3>1, <3>2, <1>2
    <3> QED BY <3>3 DEF Queued
  <2> QED BY <2>1, <2>2
<1>6. \A t \in Tasks : x.op[t] = IF t = Head(v.lock) THEN o ELSE v.op[t]
  BY <1>1
<1>7. \A t \in Tasks : x.op[t] \in LockOps <=> Queued(x, t)
  BY <1>5, <1>6 DEF Queue
<1>8. \A t \in Tasks : x.op[t] \in {"keepIn", "countIn"} => t = Reader
  BY <1>6 DEF Queue, LockOps
<1> QED BY <1>4, <1>7, <1>8 DEF Queue

(* A task joins the queue behind the others.                               *)
LEMMA JoinsQueue ==
    ASSUME NEW v, Queue(v), NEW x \in System, NEW t \in Tasks, NEW o \in LockOps,
           v.op[t] \notin LockOps, o \in {"keepIn", "countIn"} => t = Reader,
           x.lock = Append(v.lock, t), x.op = [v.op EXCEPT ![t] = o],
           x.taken = v.taken, x.done = v.done, x.conn = v.conn
    PROVE  /\ Queue(x) /\ x.lock # <<>>
           /\ v.lock = <<>> => Head(x.lock) = t
           /\ v.lock # <<>> => Head(x.lock) = Head(v.lock)
<1>1. v.lock \in Seq(Tasks) /\ v.op \in [Tasks -> Ops]
  BY DEF Queue, System
<1>2. /\ Len(x.lock) = Len(v.lock) + 1 /\ Len(v.lock) \in Nat
      /\ \A i \in 1 .. Len(v.lock) : x.lock[i] = v.lock[i]
      /\ x.lock[Len(v.lock) + 1] = t
  BY <1>1, AppendProperties, LenProperties
<1>3. /\ x.lock # <<>>
      /\ v.lock = <<>> => Head(x.lock) = t
      /\ v.lock # <<>> => Head(x.lock) = Head(v.lock)
  BY <1>1, AppendProperties, HeadTailAppend
<1>4. ~Queued(v, t)
  BY DEF Queue
<1>5. \A i, j \in 1 .. Len(x.lock) : x.lock[i] = x.lock[j] => i = j
  BY <1>2, <1>4 DEF Queue, Queued
<1>6. \A u \in Tasks : Queued(x, u) <=> Queued(v, u) \/ u = t
  BY <1>2 DEF Queued
<1>7. \A u \in Tasks : x.op[u] = IF u = t THEN o ELSE v.op[u]
  BY <1>1
<1>8. \A u \in Tasks : x.op[u] \in LockOps <=> Queued(x, u)
  BY <1>6, <1>7 DEF Queue
<1>9. \A u \in Tasks : x.op[u] \in {"keepIn", "countIn"} => u = Reader
  BY <1>7 DEF Queue
<1>10. /\ x.taken => x.conn = "open" /\ x.op[Head(x.lock)] # "shut"
       /\ x.done => x.taken
  <2>1. v.taken => Head(v.lock) # t
    BY <1>4, HeadWorks DEF Queue, Queued
  <2>2. v.taken => Head(v.lock) \in Tasks /\ v.lock # <<>>
    BY HeadWorks DEF Queue
  <2> QED BY <2>1, <2>2, <1>3, <1>7 DEF Queue
<1> QED BY <1>3, <1>5, <1>8, <1>9, <1>10 DEF Queue

-----------------------------------------------------------------------------
(* What the holder does when it goes on.  It works on an open database, or *)
(* leaves: to close the database, or with nothing.                         *)
Works(v) == v.op[Head(v.lock)] # "shut" /\ v.conn = "open"

Took(v, x) ==
    LET h == Head(v.lock)
        o == v.op[h]
        closes == o = "shut" /\ v.conn = "open"
    IN  /\ x.up = v.up /\ x.row = v.row /\ x.wire = v.wire
        /\ x.in = IF o = "countIn" THEN v.in + 1 ELSE v.in
        /\ x.out = IF o = "count" THEN v.out + 1 ELSE v.out
        /\ Works(v) => /\ x.lock = v.lock /\ x.op = v.op /\ x.conn = v.conn
                       /\ x.taken = TRUE /\ x.done = FALSE /\ x.handed = v.handed
        /\ ~Works(v) =>
             /\ x.lock = Tail(v.lock) /\ x.taken = FALSE /\ x.done = FALSE
             /\ x.op = [v.op EXCEPT ![h] = IF closes THEN "close" ELSE "none"]
             /\ x.conn = IF closes THEN "closing" ELSE v.conn
             /\ x.handed = IF o = "countIn" /\ v.conn = "closed"
                             THEN Append(v.handed, v.in) ELSE v.handed

LEMMA TakenEffect ==
    ASSUME NEW v, Queue(v), v.lock # <<>>, ~v.taken
    PROVE  Taken(v) \in System /\ Took(v, Taken(v))
<1> DEFINE h == Head(v.lock)
           o == v.op[h]
<1>1. h \in Tasks /\ o \in LockOps
  BY HeadWorks
<1>2. /\ v \in System /\ v.done = FALSE /\ v.taken = FALSE
      /\ v.lock \in Seq(Tasks) /\ v.handed \in Seq(Nat)
      /\ v.op \in [Tasks -> Ops] /\ v.in \in Nat \ {0} /\ v.out \in Nat \ {0}
      /\ v.conn \in {"open", "closing", "closed"}
  BY DEF Queue, System
<1>3. /\ Tail(v.lock) \in Seq(Tasks) /\ Append(v.handed, v.in) \in Seq(Nat)
      /\ v.in + 1 \in Nat \ {0} /\ v.out + 1 \in Nat \ {0}
  BY <1>2, HeadTailProperties, AppendProperties
<1>4. CASE o = "shut" /\ v.conn = "open"
  <2> DEFINE y == [[v EXCEPT !.lock = Tail(@), !.taken = FALSE, !.done = FALSE]
                      EXCEPT !.op[h] = "close", !.conn = "closing"]
  <2>1. Taken(v) = y
    BY <1>4, <1>1, <1>2 DEF Taken, Released
  <2>2. /\ y \in System /\ y.up = v.up /\ y.row = v.row /\ y.wire = v.wire
        /\ y.in = v.in /\ y.out = v.out
        /\ y.handed = v.handed /\ y.conn = "closing"
        /\ y.lock = Tail(v.lock) /\ y.taken = FALSE /\ y.done = FALSE
        /\ y.op = [v.op EXCEPT ![h] = "close"]
    BY <1>1, <1>2, <1>3 DEF System, Ops
  <2> HIDE DEF y
  <2>3. Took(v, y)
    BY <1>4, <2>2 DEF Took, Works
  <2> QED BY <2>1, <2>2, <2>3
<1>5. CASE o = "shut" /\ v.conn # "open"
  <2> DEFINE y == [[v EXCEPT !.lock = Tail(@), !.taken = FALSE, !.done = FALSE]
                      EXCEPT !.op[h] = "none"]
  <2>1. Taken(v) = y
    BY <1>5, <1>1, <1>2 DEF Taken, Released
  <2>2. /\ y \in System /\ y.up = v.up /\ y.row = v.row /\ y.wire = v.wire
        /\ y.in = v.in /\ y.out = v.out
        /\ y.handed = v.handed /\ y.conn = v.conn
        /\ y.lock = Tail(v.lock) /\ y.taken = FALSE /\ y.done = FALSE
        /\ y.op = [v.op EXCEPT ![h] = "none"]
    BY <1>1, <1>2, <1>3 DEF System, Ops
  <2> HIDE DEF y
  <2>3. Took(v, y)
    BY <1>5, <2>2 DEF Took, Works
  <2> QED BY <2>1, <2>2, <2>3
<1>6. CASE o = "count" /\ v.conn = "open"
  <2> DEFINE y == [[v EXCEPT !.out = @ + 1] EXCEPT !.taken = TRUE]
  <2>1. Taken(v) = y
    BY <1>6, <1>1, <1>2 DEF Taken, Incremented
  <2>2. /\ y \in System /\ y.up = v.up /\ y.row = v.row /\ y.wire = v.wire
        /\ y.in = v.in /\ y.out = v.out + 1
        /\ y.handed = v.handed /\ y.conn = v.conn
        /\ y.lock = v.lock /\ y.op = v.op /\ y.taken = TRUE /\ y.done = FALSE
    BY <1>1, <1>2, <1>3 DEF System, Ops
  <2> HIDE DEF y
  <2>3. Took(v, y)
    BY <1>6, <2>2 DEF Took, Works
  <2> QED BY <2>1, <2>2, <2>3
<1>7. CASE o = "countIn" /\ v.conn = "open"
  <2> DEFINE y == [[v EXCEPT !.in = @ + 1] EXCEPT !.taken = TRUE]
  <2>1. Taken(v) = y
    BY <1>7, <1>1, <1>2 DEF Taken, Incremented
  <2>2. /\ y \in System /\ y.up = v.up /\ y.row = v.row /\ y.wire = v.wire
        /\ y.in = v.in + 1 /\ y.out = v.out
        /\ y.handed = v.handed /\ y.conn = v.conn
        /\ y.lock = v.lock /\ y.op = v.op /\ y.taken = TRUE /\ y.done = FALSE
    BY <1>1, <1>2, <1>3 DEF System, Ops
  <2> HIDE DEF y
  <2>3. Took(v, y)
    BY <1>7, <2>2 DEF Took, Works
  <2> QED BY <2>1, <2>2, <2>3
<1>8. CASE o \notin {"shut", "count", "countIn"} /\ v.conn = "open"
  <2> DEFINE y == [v EXCEPT !.taken = TRUE]
  <2>1. Taken(v) = y
    BY <1>8, <1>1, <1>2 DEF Taken, Incremented
  <2>2. /\ y \in System /\ y.up = v.up /\ y.row = v.row /\ y.wire = v.wire
        /\ y.in = v.in /\ y.out = v.out
        /\ y.handed = v.handed /\ y.conn = v.conn
        /\ y.lock = v.lock /\ y.op = v.op /\ y.taken = TRUE /\ y.done = FALSE
    BY <1>1, <1>2, <1>3 DEF System, Ops
  <2> HIDE DEF y
  <2>3. Took(v, y)
    BY <1>8, <2>2 DEF Took, Works
  <2> QED BY <2>1, <2>2, <2>3
<1>9. CASE o = "count" /\ v.conn # "open"
  <2> DEFINE y == [[[v EXCEPT !.out = @ + 1] EXCEPT !.lock = Tail(@), !.taken = FALSE, !.done = FALSE]
                      EXCEPT !.op[h] = "none"]
  <2>1. Taken(v) = y
    BY <1>9, <1>1, <1>2 DEF Taken, Released, Incremented, Over, System
  <2>2. /\ y \in System /\ y.up = v.up /\ y.row = v.row /\ y.wire = v.wire
        /\ y.in = v.in /\ y.out = v.out + 1
        /\ y.handed = v.handed /\ y.conn = v.conn
        /\ y.lock = Tail(v.lock) /\ y.taken = FALSE /\ y.done = FALSE
        /\ y.op = [v.op EXCEPT ![h] = "none"]
    BY <1>1, <1>2, <1>3 DEF System, Ops
  <2> HIDE DEF y
  <2>3. Took(v, y)
    BY <1>9, <2>2 DEF Took, Works
  <2> QED BY <2>1, <2>2, <2>3
<1>10. CASE o = "countIn" /\ v.conn = "closing"
  <2> DEFINE y == [[[v EXCEPT !.in = @ + 1] EXCEPT !.lock = Tail(@), !.taken = FALSE, !.done = FALSE]
                      EXCEPT !.op[h] = "none"]
  <2>1. Taken(v) = y
    BY <1>10, <1>1, <1>2 DEF Taken, Released, Incremented
  <2>2. /\ y \in System /\ y.up = v.up /\ y.row = v.row /\ y.wire = v.wire
        /\ y.in = v.in + 1 /\ y.out = v.out
        /\ y.handed = v.handed /\ y.conn = v.conn
        /\ y.lock = Tail(v.lock) /\ y.taken = FALSE /\ y.done = FALSE
        /\ y.op = [v.op EXCEPT ![h] = "none"]
    BY <1>1, <1>2, <1>3 DEF System, Ops
  <2> HIDE DEF y
  <2>3. Took(v, y)
    BY <1>10, <2>2 DEF Took, Works
  <2> QED BY <2>1, <2>2, <2>3
<1>11. CASE o = "countIn" /\ v.conn = "closed"
  <2> DEFINE y == [[[v EXCEPT !.in = @ + 1] EXCEPT !.lock = Tail(@), !.taken = FALSE, !.done = FALSE]
                      EXCEPT !.op[h] = "none"]
             z == [y EXCEPT !.handed = Append(v.handed, v.in)]
  <2>1. Taken(v) = HandedUp(y)
    BY <1>11, <1>1, <1>2 DEF Taken, Over, Released, Incremented, System
  <2>2. /\ y \in System /\ y.up = v.up /\ y.row = v.row /\ y.wire = v.wire
        /\ y.in = v.in + 1 /\ y.out = v.out
        /\ y.handed = v.handed /\ y.conn = v.conn
        /\ y.lock = Tail(v.lock) /\ y.taken = FALSE /\ y.done = FALSE
        /\ y.op = [v.op EXCEPT ![h] = "none"]
    BY <1>1, <1>2, <1>3 DEF System, Ops
  <2> HIDE DEF y
  <2>3. Taken(v) = z
    <3>1. y.in - 1 = v.in
      BY <2>2, <1>2
    <3> QED BY <2>1, <2>2, <3>1 DEF HandedUp
  <2>4. /\ z \in System /\ z.up = v.up /\ z.row = v.row /\ z.wire = v.wire
        /\ z.in = v.in + 1 /\ z.out = v.out
        /\ z.handed = Append(v.handed, v.in) /\ z.conn = v.conn
        /\ z.lock = Tail(v.lock) /\ z.taken = FALSE /\ z.done = FALSE
        /\ z.op = [v.op EXCEPT ![h] = "none"]
    BY <2>2, <1>3 DEF System
  <2> HIDE DEF z
  <2>5. Took(v, z)
    BY <1>11, <2>4 DEF Took, Works
  <2> QED BY <2>3, <2>4, <2>5
<1>12. CASE o \notin {"shut", "count", "countIn"} /\ v.conn # "open"
  <2> DEFINE y == [[v EXCEPT !.lock = Tail(@), !.taken = FALSE, !.done = FALSE] EXCEPT !.op[h] = "none"]
  <2>1. Taken(v) = y
    BY <1>12, <1>1, <1>2 DEF Taken, Released, Incremented
  <2>2. /\ y \in System /\ y.up = v.up /\ y.row = v.row /\ y.wire = v.wire
        /\ y.in = v.in /\ y.out = v.out
        /\ y.handed = v.handed /\ y.conn = v.conn
        /\ y.lock = Tail(v.lock) /\ y.taken = FALSE /\ y.done = FALSE
        /\ y.op = [v.op EXCEPT ![h] = "none"]
    BY <1>1, <1>2, <1>3 DEF System, Ops
  <2> HIDE DEF y
  <2>3. Took(v, y)
    BY <1>12, <2>2 DEF Took, Works
  <2> QED BY <2>1, <2>2, <2>3
<1> QED BY <1>2, <1>4, <1>5, <1>6, <1>7, <1>8, <1>9, <1>10, <1>11, <1>12

(* From v to x the holder goes on with operation o: every part of the      *)
(* invariant is kept, provided it does not drop the count of a message     *)
(* that is sent, counts nothing in memory only, and a message it drops is  *)
(* written off.                                                            *)
Kept(v, o, x) ==
    /\ Queue(x)
    /\ Ending(v) => Ending(x)
    /\ Sequence(v) /\ ~(o = "keep" /\ v.conn # "open") => Sequence(x)
    /\ RowCurrent(v) /\ ~((x.in # v.in \/ x.out # v.out) /\ x.conn # "open")
         => RowCurrent(x)
    /\ \A lost, more : /\ Handed(v, lost) /\ lost \subseteq more
                       /\ o = "countIn" /\ v.conn = "closing" => v.in \in more
                       => Handed(x, more)
    /\ o # "shut" => x.conn = v.conn
    /\ o \notin {"count", "countIn"} => x.in = v.in /\ x.out = v.out

(* The holder that goes on keeps the invariant.                            *)
LEMMA TakenKeeps ==
    ASSUME NEW v, Queue(v), v.lock # <<>>, ~v.taken,
           NEW h, h = Head(v.lock), NEW o, o = v.op[h], NEW x, x = Taken(v)
    PROVE  Kept(v, o, x)
<1>1. h \in Tasks /\ o \in LockOps
  BY HeadWorks
<1>2. /\ v \in System /\ ~v.done /\ v.handed \in Seq(Nat) /\ v.wire \in Seq(Nat)
      /\ v.op \in [Tasks -> Ops] /\ v.in \in Nat \ {0} /\ v.out \in Nat \ {0}
  BY DEF Queue, System
<1> DEFINE leaves == IF o = "shut" /\ v.conn = "open" THEN "close" ELSE "none"
<1>3. /\ x \in System
      /\ x.up = v.up /\ x.row = v.row /\ x.wire = v.wire
      /\ x.in = IF o = "countIn" THEN v.in + 1 ELSE v.in
      /\ x.out = IF o = "count" THEN v.out + 1 ELSE v.out
  BY TakenEffect DEF Took
<1>4. Works(v) => /\ x.lock = v.lock /\ x.op = v.op /\ x.conn = v.conn
                  /\ x.taken = TRUE /\ x.done = FALSE /\ x.handed = v.handed
  BY TakenEffect DEF Took
<1>5. ~Works(v) =>
        /\ x.lock = Tail(v.lock) /\ x.taken = FALSE /\ x.done = FALSE
        /\ x.op = [v.op EXCEPT ![h] = leaves]
        /\ x.conn = IF o = "shut" /\ v.conn = "open" THEN "closing" ELSE v.conn
        /\ x.handed = IF o = "countIn" /\ v.conn = "closed"
                        THEN Append(v.handed, v.in) ELSE v.handed
  BY TakenEffect DEF Took
<1>6. Queue(x)
  <2>1. CASE Works(v)
    BY <2>1, <1>3, <1>4 DEF Queue, Queued, Works
  <2>2. CASE ~Works(v)
    <3>1. leaves \in Ops \ LockOps
      BY DEF Ops, LockOps
    <3> QED BY <2>2, <3>1, <1>3, <1>5, LeavesQueue
  <2> QED BY <2>1, <2>2
<1>7. \A t \in Tasks : x.op[t] = IF ~Works(v) /\ t = h THEN leaves ELSE v.op[t]
  BY <1>2, <1>4, <1>5
<1>8. Ending(v) => Ending(x)
  <2> SUFFICES ASSUME Ending(v) PROVE Ending(x)
    OBVIOUS
  <2>1. \A t \in Tasks : x.op[t] \in {"leave", "shut", "close"} => ~x.up
    BY <1>1, <1>3, <1>7 DEF Ending
  <2>2. x.conn = "closing" => \E t \in Tasks : x.op[t] = "close"
    <3>1. CASE o = "shut" /\ v.conn = "open"
      BY <3>1, <1>1, <1>7 DEF Works
    <3>2. CASE ~(o = "shut" /\ v.conn = "open") /\ x.conn = "closing"
      <4>1. v.conn = "closing"
        BY <3>2, <1>4, <1>5
      <4>2. PICK t \in Tasks : v.op[t] = "close"
        BY <4>1 DEF Ending
      <4>3. t # h
        BY <4>2, <1>1 DEF LockOps
      <4> QED BY <4>2, <4>3, <1>7
    <3> QED BY <3>1, <3>2
  <2>3. x.op[Hb] \notin {"leave", "shut", "close"}
    <3>1. Hb \in Tasks
      BY DEF Tasks
    <3> QED BY <3>1, <1>7 DEF Ending
  <2>4. CASE o = "shut" /\ v.conn = "open"
    <3>1. \A t \in Tasks : x.op[t] = "close" => t = h
      BY <2>4, <1>7 DEF Ending
    <3>2. x.conn = "closing"
      BY <2>4, <1>5 DEF Works
    <3> QED BY <2>1, <2>2, <2>3, <3>1, <3>2 DEF Ending
  <2>5. CASE ~(o = "shut" /\ v.conn = "open")
    <3>1. x.conn = v.conn /\ \A t \in Tasks : x.op[t] = "close" => v.op[t] = "close"
      BY <2>5, <1>4, <1>5, <1>7
    <3> QED BY <2>1, <2>2, <2>3, <3>1 DEF Ending
  <2> QED BY <2>4, <2>5
<1>9. \A t \in Tasks : Uncounted(x, t) <=>
         Uncounted(v, t) /\ ~(t = h /\ (o = "count" \/ (o = "keep" /\ v.conn # "open")))
  BY <1>1, <1>4, <1>5, <1>7 DEF Uncounted, Works, LockOps
<1>10. ASSUME Sequence(v), ~(o = "keep" /\ v.conn # "open") PROVE Sequence(x)
  <2>1. \A t, u \in Tasks : Uncounted(x, t) /\ Uncounted(x, u) => t = u
    BY <1>9, <1>10 DEF Sequence
  <2>2. Len(x.wire) + 1 = x.out + (IF \E t \in Tasks : Uncounted(x, t) THEN 1 ELSE 0)
    <3>1. Len(v.wire) + 1 = v.out + (IF \E t \in Tasks : Uncounted(v, t) THEN 1 ELSE 0)
      BY <1>10 DEF Sequence
    <3>2. CASE o = "count"
      <4>1. Uncounted(v, h)
        BY <3>2 DEF Uncounted
      <4>2. ~\E t \in Tasks : Uncounted(x, t)
        BY <4>1, <3>2, <1>1, <1>9, <1>10 DEF Sequence
      <4> QED BY <3>1, <3>2, <4>1, <4>2, <1>1, <1>2, <1>3
    <3>3. CASE o # "count"
      <4>1. \A t \in Tasks : Uncounted(x, t) <=> Uncounted(v, t)
        BY <3>3, <1>9, <1>10
      <4> QED BY <3>1, <3>3, <4>1, <1>3
    <3> QED BY <3>2, <3>3
  <2> QED BY <2>1, <2>2, <1>3, <1>10 DEF Sequence
<1>11. ASSUME RowCurrent(v), ~((x.in # v.in \/ x.out # v.out) /\ x.conn # "open")
       PROVE  RowCurrent(x)
  <2>1. v.in = v.row[1] /\ v.out = v.row[2]
    BY <1>11, <1>2 DEF RowCurrent, Counting, System
  <2>2. CASE Works(v)
    BY <2>1, <2>2, <1>2, <1>3, <1>4 DEF RowCurrent, Counting, System
  <2>3. CASE ~Works(v)
    <3>1. x.in = v.in /\ x.out = v.out
      <4>1. CASE o = "shut"
        BY <4>1, <1>3
      <4>2. CASE o # "shut" /\ v.conn # "open"
        BY <4>2, <2>3, <1>5, <1>11
      <4> QED BY <4>1, <4>2, <2>3 DEF Works
    <3>2. ~Counting(x, "countIn") /\ ~Counting(x, "count")
      BY <2>3, <1>5 DEF Counting
    <3> QED BY <2>1, <3>1, <3>2, <1>2, <1>3 DEF RowCurrent
  <2> QED BY <2>2, <2>3
<1>12. ASSUME NEW lost, NEW more, Handed(v, lost), lost \subseteq more,
              o = "countIn" /\ v.conn = "closing" => v.in \in more
       PROVE  Handed(x, more)
  <2>1. ~Holding(v) /\ (Holding(x) <=> Works(v) /\ o = "countIn")
    BY <1>4, <1>5 DEF Holding
  <2>2. CASE o # "countIn"
    <3>1. x.handed = v.handed /\ x.in = v.in
      BY <2>2, <1>3, <1>4, <1>5
    <3> QED BY <2>1, <2>2, <3>1, <1>12 DEF Handed
  <2>3. CASE o = "countIn" /\ v.conn # "closed"
    <3>1. x.handed = v.handed /\ x.in = v.in + 1
      BY <2>3, <1>3, <1>4, <1>5
    <3>2. Holding(x) \/ v.in \in more
      BY <2>1, <2>3, <1>12, <1>2 DEF Works, System
    <3>3. \A n \in 1 .. x.in - 1 : n \in 1 .. v.in - 1 \/ n = v.in
      BY <3>1, <1>2
    <3>4. \A i \in 1 .. Len(v.handed) : v.handed[i] \in Nat
      BY <1>2, ElementOfSeq
    <3> QED BY <2>1, <3>1, <3>2, <3>3, <3>4, <1>12, <1>2 DEF Handed
  <2>4. CASE o = "countIn" /\ v.conn = "closed"
    <3>1. x.handed = Append(v.handed, v.in) /\ x.in = v.in + 1
      BY <2>4, <1>3, <1>5 DEF Works
    <3>2. /\ Len(x.handed) = Len(v.handed) + 1 /\ Len(v.handed) \in Nat
          /\ \A i \in 1 .. Len(v.handed) : x.handed[i] = v.handed[i]
          /\ x.handed[Len(v.handed) + 1] = v.in
      BY <3>1, <1>2, AppendProperties, LenProperties
    <3>3. \A n \in 1 .. x.in - 1 : n \in 1 .. v.in - 1 \/ n = v.in
      BY <3>1, <1>2
    <3>4. \A i \in 1 .. Len(v.handed) : v.handed[i] \in Nat /\ v.handed[i] < v.in
      BY <2>1, <1>2, <1>12, ElementOfSeq DEF Handed
    <3>5. ~Holding(x)
      BY <2>1, <2>4 DEF Works
    <3>6. \A i, j \in 1 .. Len(x.handed) : i < j => x.handed[i] < x.handed[j]
      BY <3>2, <3>4, <1>12 DEF Handed
    <3>7. \A i \in 1 .. Len(x.handed) : x.handed[i] < x.in
      BY <3>1, <3>2, <3>4, <1>2
    <3>8. \A n \in 1 .. x.in - 1 : (\E i \in 1 .. Len(x.handed) : x.handed[i] = n) \/ n \in more
      BY <3>2, <3>3, <2>1, <1>12 DEF Handed
    <3> QED BY <3>5, <3>6, <3>7, <3>8 DEF Handed
  <2> QED BY <2>2, <2>3, <2>4
<1>13. /\ o # "shut" => x.conn = v.conn
       /\ o \notin {"count", "countIn"} => x.in = v.in /\ x.out = v.out
  BY <1>3, <1>4, <1>5
<1> QED BY <1>6, <1>8, <1>10, <1>11, <1>12, <1>13 DEF Kept

-----------------------------------------------------------------------------
(* async with self._lock.                                                  *)

Joined(v, t, o) == [v EXCEPT !.lock = Append(@, t), !.op[t] = o]

(* A task that joins the queue changes nothing but its own operation, and  *)
(* only the lock's queue grows.                                            *)
LEMMA JoinedEffect ==
    ASSUME NEW v, Queue(v), NEW t \in Tasks, NEW o \in LockOps,
           v.op[t] \notin LockOps, o \in {"keepIn", "countIn"} => t = Reader,
           NEW u, u = Joined(v, t, o)
    PROVE  /\ Queue(u) /\ u.lock # <<>>
           /\ v.lock = <<>> => Head(u.lock) = t
           /\ v.lock # <<>> => Head(u.lock) = Head(v.lock)
           /\ u.op = [v.op EXCEPT ![t] = o]
           /\ u.up = v.up /\ u.in = v.in /\ u.out = v.out /\ u.row = v.row
           /\ u.conn = v.conn /\ u.taken = v.taken /\ u.done = v.done
           /\ u.wire = v.wire /\ u.handed = v.handed
<1>1. /\ v \in System /\ v.lock \in Seq(Tasks) /\ v.op \in [Tasks -> Ops]
  BY DEF Queue, System
<1>2. Append(v.lock, t) \in Seq(Tasks) /\ o \in Ops
  BY <1>1, AppendProperties DEF LockOps, Ops
<1>3. /\ u \in System /\ u.lock = Append(v.lock, t) /\ u.op = [v.op EXCEPT ![t] = o]
      /\ u.up = v.up /\ u.in = v.in /\ u.out = v.out /\ u.row = v.row
      /\ u.conn = v.conn /\ u.taken = v.taken /\ u.done = v.done
      /\ u.wire = v.wire /\ u.handed = v.handed
  BY <1>1, <1>2 DEF Joined, System
<1>4. /\ Queue(u) /\ u.lock # <<>>
      /\ v.lock = <<>> => Head(u.lock) = t
      /\ v.lock # <<>> => Head(u.lock) = Head(v.lock)
  BY <1>3, JoinsQueue
<1> QED BY <1>3, <1>4

(* Joining the queue keeps every part of the invariant but Sequence, of    *)
(* which it depends what the task joins it for.                            *)
LEMMA JoinedKeeps ==
    ASSUME NEW v, Queue(v), NEW t \in Tasks, NEW o \in LockOps,
           v.op[t] \notin LockOps \cup {"close"}, o \in {"keepIn", "countIn"} => t = Reader,
           NEW u, u = Joined(v, t, o)
    PROVE  /\ Ending(v) /\ (o = "shut" => ~v.up /\ t # Hb) => Ending(u)
           /\ RowCurrent(v) => RowCurrent(u)
           /\ \A lost : Handed(v, lost) => Handed(u, lost)
           /\ \A s \in Tasks : Uncounted(u, s) <=>
                 IF s = t THEN o \in {"keep", "count"} ELSE Uncounted(v, s)
<1>1. /\ Queue(u) /\ u.lock # <<>>
      /\ v.lock = <<>> => Head(u.lock) = t
      /\ v.lock # <<>> => Head(u.lock) = Head(v.lock)
      /\ u.op = [v.op EXCEPT ![t] = o]
      /\ u.up = v.up /\ u.in = v.in /\ u.out = v.out /\ u.row = v.row
      /\ u.conn = v.conn /\ u.taken = v.taken /\ u.done = v.done
      /\ u.wire = v.wire /\ u.handed = v.handed
  BY JoinedEffect
<1>2. \A s \in Tasks : u.op[s] = IF s = t THEN o ELSE v.op[s]
  BY <1>1 DEF Queue, System
<1>3. v.taken => /\ Head(u.lock) = Head(v.lock) /\ Head(v.lock) \in Tasks
                 /\ Head(v.lock) # t /\ u.op[Head(u.lock)] = v.op[Head(v.lock)]
  <2>1. v.taken => v.lock # <<>> /\ Head(v.lock) \in Tasks /\ v.op[Head(v.lock)] \in LockOps
    BY HeadWorks DEF Queue
  <2> QED BY <2>1, <1>1, <1>2
<1>4. ASSUME Ending(v), o = "shut" => ~v.up /\ t # Hb PROVE Ending(u)
  <2>1. \A s \in Tasks : u.op[s] \in {"leave", "shut", "close"} => ~u.up
    BY <1>1, <1>2, <1>4 DEF Ending, LockOps
  <2>2. u.conn = "closing" => \E s \in Tasks : u.op[s] = "close"
    BY <1>1, <1>2, <1>4 DEF Ending
  <2>3. u.op[Hb] \notin {"leave", "shut", "close"}
    <3>1. Hb \in Tasks
      BY DEF Tasks
    <3> QED BY <3>1, <1>2, <1>4 DEF Ending, LockOps
  <2>4. \A s \in Tasks : u.op[s] = "close" => v.op[s] = "close"
    BY <1>2 DEF LockOps
  <2> QED BY <2>1, <2>2, <2>3, <2>4, <1>1, <1>4 DEF Ending
<1>5. RowCurrent(v) => RowCurrent(u)
  BY <1>1, <1>3 DEF RowCurrent, Counting
<1>6. ASSUME NEW lost, Handed(v, lost) PROVE Handed(u, lost)
  BY <1>1, <1>3, <1>6 DEF Handed, Holding
<1>7. ASSUME NEW s \in Tasks
      PROVE  Uncounted(u, s) <=> IF s = t THEN o \in {"keep", "count"} ELSE Uncounted(v, s)
  BY <1>1, <1>2, <1>3 DEF Uncounted
<1> QED BY <1>4, <1>5, <1>6, <1>7

(* From v to x task t acquires the lock for operation o, or joins its      *)
(* queue: the invariant is kept on the conditions of Kept.                 *)
Admitted(v, t, o, x) ==
    /\ Queue(x)
    /\ Ending(v) /\ (o = "shut" => ~v.up /\ t # Hb) => Ending(x)
    /\ Sequence(Joined(v, t, o)) /\ ~(o = "keep" /\ v.conn # "open") => Sequence(x)
    /\ RowCurrent(v) /\ ~((x.in # v.in \/ x.out # v.out) /\ x.conn # "open")
         => RowCurrent(x)
    /\ \A lost, more : /\ Handed(v, lost) /\ lost \subseteq more
                       /\ o = "countIn" /\ v.conn = "closing" => v.in \in more
                       => Handed(x, more)
    /\ o # "shut" => x.conn = v.conn
    /\ o \notin {"count", "countIn"} => x.in = v.in /\ x.out = v.out

(* A task that acquires the lock, or joins its queue, keeps the invariant. *)
LEMMA AcquiresKeeps ==
    ASSUME NEW v, Queue(v), NEW t \in Tasks, NEW o \in LockOps,
           v.op[t] \notin LockOps \cup {"close"}, o \in {"keepIn", "countIn"} => t = Reader,
           NEW x, x = Acquires(v, t, o)
    PROVE  Admitted(v, t, o, x)
<1>0. PICK u : u = Joined(v, t, o)
  OBVIOUS
<1>1. /\ Queue(u) /\ u.lock # <<>>
      /\ v.lock = <<>> => Head(u.lock) = t
      /\ u.op = [v.op EXCEPT ![t] = o]
      /\ u.in = v.in /\ u.out = v.out /\ u.conn = v.conn /\ u.taken = v.taken
      /\ u.handed = v.handed
  BY <1>0, JoinedEffect
<1>2. /\ Ending(v) /\ (o = "shut" => ~v.up /\ t # Hb) => Ending(u)
      /\ RowCurrent(v) => RowCurrent(u)
      /\ \A lost : Handed(v, lost) => Handed(u, lost)
  BY <1>0, JoinedKeeps
<1>3. CASE v.lock = <<>>
  <2>1. x = Taken(u)
    BY <1>0, <1>3 DEF Acquires, Joined
  <2>2. Queue(u) /\ u.lock # <<>> /\ ~u.taken /\ t = Head(u.lock) /\ o = u.op[t]
    BY <1>1, <1>3 DEF Queue, System
  <2>3. Kept(u, o, x)
    BY <2>1, <2>2, TakenKeeps
  <2> QED BY <2>3, <1>0, <1>1, <1>2 DEF Kept, Admitted
<1>4. CASE v.lock # <<>>
  <2>1. x = u
    BY <1>0, <1>4 DEF Acquires, Joined
  <2>2. \A lost, more : Handed(u, lost) /\ lost \subseteq more => Handed(u, more)
    BY DEF Handed
  <2> QED BY <2>1, <2>2, <1>0, <1>1, <1>2 DEF Admitted
<1> QED BY <1>3, <1>4

-----------------------------------------------------------------------------
(* The steps.                                                              *)

(* A number taken while none is uncounted continues the sequence.          *)
LEMMA NextNumber ==
    ASSUME NEW v, v \in System, Sequence(v), \A s \in Tasks : ~Uncounted(v, s),
           NEW u, u.wire = Append(v.wire, v.out), u.out = v.out,
           NEW t \in Tasks, \A s \in Tasks : Uncounted(u, s) <=> s = t
    PROVE  Sequence(u)
<1>1. v.wire \in Seq(Nat) /\ v.out \in Nat /\ Len(v.wire) + 1 = v.out
  BY DEF System, Sequence
<1>2. /\ Len(u.wire) = Len(v.wire) + 1 /\ Len(v.wire) \in Nat
      /\ \A i \in 1 .. Len(v.wire) : u.wire[i] = v.wire[i]
      /\ u.wire[Len(v.wire) + 1] = v.out
  BY <1>1, AppendProperties, LenProperties
<1>3. \A i \in 1 .. Len(u.wire) : u.wire[i] = i
  BY <1>1, <1>2 DEF Sequence
<1>4. Len(u.wire) + 1 = u.out + 1
  BY <1>1, <1>2
<1> QED BY <1>3, <1>4 DEF Sequence

(* What the session may send, with the database open or closed.            *)
LEMMA SendKeeps ==
    ASSUME IInv, NEW t \in Tasks, send_message(t)
    PROVE  IInv'
<1> DEFINE o == IF w.conn = "closed" THEN "count" ELSE "keep"
           v == [w EXCEPT !.wire = Append(@, w.out)]
<1>1. /\ w \in System /\ Queue(w) /\ Ending(w)
      /\ w.op[t] = "none" /\ w.up /\ w' = Acquires(v, t, o)
      /\ w.wire \in Seq(Nat) /\ w.out \in Nat /\ w.op \in [Tasks -> Ops]
  BY DEF IInv, TypeOK, send_message, System
<1>2. /\ past' \in Past
      /\ past'.loose <=> past.loose \/ \E s \in Tasks : Uncounted(w, s)
      /\ past'.unsaved <=> past.unsaved \/ CountsInMemory(w')
      /\ past'.rolled = past.rolled /\ past'.dropped = past.dropped
  <2>1. past \in Past
    BY DEF IInv, TypeOK
  <2>2. past' = [past EXCEPT !.loose = past.loose \/ \E s \in Tasks : Uncounted(w, s),
                             !.unsaved = past.unsaved \/ CountsInMemory(w')]
    BY DEF send_message
  <2>3. (past.loose \/ \E s \in Tasks : Uncounted(w, s)) \in BOOLEAN
        /\ (past.unsaved \/ CountsInMemory(w')) \in BOOLEAN
    OBVIOUS
  <2> QED BY <2>1, <2>2, <2>3 DEF Past
<1>3. w.conn # "closing"
  BY <1>1 DEF Ending
<1>4. /\ v \in System /\ v.wire = Append(w.wire, w.out)
      /\ v.up = w.up /\ v.in = w.in /\ v.out = w.out /\ v.row = w.row
      /\ v.conn = w.conn /\ v.taken = w.taken /\ v.done = w.done
      /\ v.lock = w.lock /\ v.op = w.op /\ v.handed = w.handed
  <2>1. Append(w.wire, w.out) \in Seq(Nat)
    BY <1>1, AppendProperties
  <2> QED BY <1>1, <2>1 DEF System
<1> HIDE DEF v
<1>5. /\ Queue(v) /\ Ending(v)
      /\ RowCurrent(w) => RowCurrent(v)
      /\ \A lost : Handed(w, lost) => Handed(v, lost)
      /\ \A s \in Tasks : Uncounted(v, s) <=> Uncounted(w, s)
  <2>1. Queue(v)
    BY <1>1, <1>4 DEF Queue, Queued
  <2>2. Ending(v)
    BY <1>1, <1>4 DEF Ending
  <2>3. RowCurrent(w) => RowCurrent(v)
    BY <1>4 DEF RowCurrent, Counting
  <2>4. ASSUME NEW lost, Handed(w, lost) PROVE Handed(v, lost)
    BY <1>4, <2>4 DEF Handed, Holding
  <2>5. \A s \in Tasks : Uncounted(v, s) <=> Uncounted(w, s)
    BY <1>4 DEF Uncounted
  <2> QED BY <2>1, <2>2, <2>3, <2>4, <2>5
<1>6. o \in {"keep", "count"} /\ o \in LockOps /\ (o = "keep" => w.conn # "closed")
  BY DEF LockOps
<1> HIDE DEF o
<1>7. v.op[t] \notin LockOps \cup {"close"}
  BY <1>1, <1>4 DEF LockOps
<1>8. Admitted(v, t, o, w')
  BY <1>1, <1>5, <1>6, <1>7, AcquiresKeeps
<1>9. ASSUME ~past'.loose PROVE Sequence(w')
  <2>1. Sequence(w) /\ \A s \in Tasks : ~Uncounted(w, s)
    BY <1>2, <1>9 DEF IInv
  <2>2. \A s \in Tasks : Uncounted(Joined(v, t, o), s) <=> s = t
    BY <2>1, <1>5, <1>6, <1>7, JoinedKeeps
  <2>3. Joined(v, t, o).wire = Append(w.wire, w.out) /\ Joined(v, t, o).out = w.out
    BY <1>4 DEF Joined, System
  <2>4. Sequence(Joined(v, t, o))
    BY <2>1, <2>2, <2>3, <1>1, NextNumber
  <2>5. ~(o = "keep" /\ v.conn # "open")
    BY <1>1, <1>3, <1>4, <1>6 DEF System
  <2> QED BY <2>4, <2>5, <1>8 DEF Admitted
<1>10. ASSUME ~past'.unsaved PROVE RowCurrent(w')
  <2>1. RowCurrent(w) /\ ~CountsInMemory(w')
    BY <1>2, <1>10 DEF IInv
  <2> QED BY <2>1, <1>4, <1>5, <1>8 DEF Admitted, CountsInMemory
<1>11. ASSUME ~past'.rolled PROVE Handed(w', past'.dropped)
  <2>1. Handed(v, past.dropped) /\ o # "countIn"
    BY <1>2, <1>5, <1>6, <1>11 DEF IInv
  <2>2. Handed(w', past.dropped)
    BY <2>1, <1>8 DEF Admitted
  <2> QED BY <2>2, <1>2
<1>12. Queue(w') /\ Ending(w') /\ w' \in System
  BY <1>5, <1>6, <1>8 DEF Admitted, Queue
<1> QED BY <1>2, <1>9, <1>10, <1>11, <1>12 DEF IInv, TypeOK

(* The Logon of a session that starts is a message like any other: the     *)
(* tasks of the last connection have ended.                                *)
LEMMA StartKeeps ==
    ASSUME IInv, NEW t \in Apps, start(t)
    PROVE  IInv'
<1> DEFINE o == IF w.conn = "closed" THEN "count" ELSE "keep"
           v == [w EXCEPT !.up = TRUE, !.wire = Append(@, w.out)]
<1>1. /\ w \in System /\ Queue(w) /\ Ending(w)
      /\ t \in Tasks /\ (\A s \in Tasks : w.op[s] = "none") /\ w' = Acquires(v, t, o)
      /\ w.wire \in Seq(Nat) /\ w.out \in Nat /\ w.op \in [Tasks -> Ops]
  BY DEF IInv, TypeOK, start, System, Idle, Tasks
<1>2. /\ past' \in Past
      /\ past'.loose = past.loose
      /\ past'.unsaved <=> past.unsaved \/ CountsInMemory(w')
      /\ past'.rolled = past.rolled /\ past'.dropped = past.dropped
  <2>1. past \in Past
    BY DEF IInv, TypeOK
  <2>2. past' = [past EXCEPT !.unsaved = past.unsaved \/ CountsInMemory(w')]
    BY DEF start
  <2>3. (past.unsaved \/ CountsInMemory(w')) \in BOOLEAN
    OBVIOUS
  <2> QED BY <2>1, <2>2, <2>3 DEF Past
<1>3. w.conn # "closing"
  BY <1>1 DEF Ending
<1>4. /\ v \in System /\ v.wire = Append(w.wire, w.out)
      /\ v.up = TRUE /\ v.in = w.in /\ v.out = w.out /\ v.row = w.row
      /\ v.conn = w.conn /\ v.taken = w.taken /\ v.done = w.done
      /\ v.lock = w.lock /\ v.op = w.op /\ v.handed = w.handed
  <2>1. Append(w.wire, w.out) \in Seq(Nat)
    BY <1>1, AppendProperties
  <2> QED BY <1>1, <2>1 DEF System
<1> HIDE DEF v
<1>5. /\ Queue(v) /\ Ending(v)
      /\ RowCurrent(w) => RowCurrent(v)
      /\ \A lost : Handed(w, lost) => Handed(v, lost)
      /\ \A s \in Tasks : Uncounted(v, s) <=> Uncounted(w, s)
  <2>1. Queue(v)
    BY <1>1, <1>4 DEF Queue, Queued
  <2>2. Ending(v)
    BY <1>1, <1>4 DEF Ending
  <2>3. RowCurrent(w) => RowCurrent(v)
    BY <1>4 DEF RowCurrent, Counting
  <2>4. ASSUME NEW lost, Handed(w, lost) PROVE Handed(v, lost)
    BY <1>4, <2>4 DEF Handed, Holding
  <2>5. \A s \in Tasks : Uncounted(v, s) <=> Uncounted(w, s)
    BY <1>4 DEF Uncounted
  <2> QED BY <2>1, <2>2, <2>3, <2>4, <2>5
<1>6. o \in {"keep", "count"} /\ o \in LockOps /\ (o = "keep" => w.conn # "closed")
  BY DEF LockOps
<1> HIDE DEF o
<1>7. v.op[t] \notin LockOps \cup {"close"}
  BY <1>1, <1>4 DEF LockOps
<1>8. Admitted(v, t, o, w')
  BY <1>1, <1>5, <1>6, <1>7, AcquiresKeeps
<1>9. ASSUME ~past'.loose PROVE Sequence(w')
  <2>1. Sequence(w) /\ \A s \in Tasks : ~Uncounted(w, s)
    <3>1. Sequence(w)
      BY <1>2, <1>9 DEF IInv
    <3>2. \A s \in Tasks : ~Uncounted(w, s)
      BY <1>1 DEF Uncounted
    <3> QED BY <3>1, <3>2
  <2>2. \A s \in Tasks : Uncounted(Joined(v, t, o), s) <=> s = t
    BY <2>1, <1>1, <1>5, <1>6, <1>7, JoinedKeeps
  <2>3. Joined(v, t, o).wire = Append(w.wire, w.out) /\ Joined(v, t, o).out = w.out
    BY <1>4 DEF Joined, System
  <2>4. Sequence(Joined(v, t, o))
    BY <2>1, <2>2, <2>3, <1>1, NextNumber
  <2>5. ~(o = "keep" /\ v.conn # "open")
    BY <1>1, <1>3, <1>4, <1>6 DEF System
  <2> QED BY <2>4, <2>5, <1>8 DEF Admitted
<1>10. ASSUME ~past'.unsaved PROVE RowCurrent(w')
  <2>1. RowCurrent(w) /\ ~CountsInMemory(w')
    BY <1>2, <1>10 DEF IInv
  <2> QED BY <2>1, <1>4, <1>5, <1>8 DEF Admitted, CountsInMemory
<1>11. ASSUME ~past'.rolled PROVE Handed(w', past'.dropped)
  <2>1. Handed(v, past.dropped) /\ o # "countIn"
    BY <1>2, <1>5, <1>6, <1>11 DEF IInv
  <2>2. Handed(w', past.dropped)
    BY <2>1, <1>8 DEF Admitted
  <2> QED BY <2>2, <1>2
<1>12. Queue(w') /\ Ending(w') /\ w' \in System
  BY <1>5, <1>6, <1>8 DEF Admitted, Queue
<1> QED BY <1>2, <1>9, <1>10, <1>11, <1>12 DEF IInv, TypeOK

(* A message received, kept first or, with the database closed, counted.   *)
LEMMA ProcessKeeps ==
    ASSUME IInv, process_single_fix_message
    PROVE  IInv'
<1> DEFINE o == IF w.conn = "closed" THEN "countIn" ELSE "keepIn"
<1>1. /\ w \in System /\ Queue(w) /\ Ending(w) /\ Reader \in Tasks
      /\ w.op[Reader] = "none" /\ w' = Acquires(w, Reader, o)
  BY DEF IInv, TypeOK, process_single_fix_message, Tasks
<1>2. /\ past' \in Past
      /\ past'.unsaved <=> past.unsaved \/ CountsInMemory(w')
      /\ past'.loose = past.loose /\ past'.rolled = past.rolled
      /\ past'.dropped = past.dropped
  <2>1. past \in Past
    BY DEF IInv, TypeOK
  <2>2. past' = [past EXCEPT !.unsaved = past.unsaved \/ CountsInMemory(w')]
    BY DEF process_single_fix_message
  <2>3. (past.unsaved \/ CountsInMemory(w')) \in BOOLEAN
    OBVIOUS
  <2> QED BY <2>1, <2>2, <2>3 DEF Past
<1>3. o \in {"keepIn", "countIn"} /\ o \in LockOps /\ (o = "countIn" => w.conn # "closing")
  BY DEF LockOps
<1> HIDE DEF o
<1>4. w.op[Reader] \notin LockOps \cup {"close"}
  BY <1>1 DEF LockOps
<1>5. Admitted(w, Reader, o, w')
  BY <1>1, <1>3, <1>4, AcquiresKeeps
<1>6. ASSUME ~past'.loose PROVE Sequence(w')
  <2> DEFINE u == Joined(w, Reader, o)
  <2>1. Sequence(w)
    BY <1>2, <1>6 DEF IInv
  <2>2. \A s \in Tasks : Uncounted(u, s) <=> Uncounted(w, s)
    <3>1. ~Uncounted(w, Reader)
      BY <1>1 DEF Uncounted
    <3>2. \A s \in Tasks : Uncounted(u, s) <=>
             IF s = Reader THEN o \in {"keep", "count"} ELSE Uncounted(w, s)
      BY <1>1, <1>3, <1>4, JoinedKeeps
    <3> QED BY <3>1, <3>2, <1>3
  <2>3. u.wire = w.wire /\ u.out = w.out
    BY <1>1 DEF Joined, System
  <2>4. Sequence(u)
    BY <2>1, <2>2, <2>3 DEF Sequence
  <2> QED BY <2>4, <1>3, <1>5 DEF Admitted
<1>7. ASSUME ~past'.unsaved PROVE RowCurrent(w')
  <2>1. RowCurrent(w) /\ ~CountsInMemory(w')
    BY <1>2, <1>7 DEF IInv
  <2> QED BY <2>1, <1>5 DEF Admitted, CountsInMemory
<1>8. ASSUME ~past'.rolled PROVE Handed(w', past'.dropped)
  <2>1. Handed(w, past.dropped)
    BY <1>2, <1>8 DEF IInv
  <2>2. Handed(w', past.dropped)
    BY <2>1, <1>3, <1>5 DEF Admitted
  <2> QED BY <2>2, <1>2
<1>9. Queue(w') /\ Ending(w') /\ w' \in System
  BY <1>1, <1>3, <1>5 DEF Admitted, Queue
<1> QED BY <1>2, <1>6, <1>7, <1>8, <1>9 DEF IInv, TypeOK

(* A task that waited for the lock has it.                                 *)
LEMMA WakesKeeps ==
    ASSUME IInv, Wakes
    PROVE  IInv'
<1> DEFINE h == Head(w.lock)
           o == w.op[h]
           more == past.dropped \cup IF o = "countIn" /\ w.conn = "closing"
                                       THEN {w.in} ELSE {}
<1>1. /\ w \in System /\ Queue(w) /\ Ending(w) /\ w.in \in Nat
      /\ w.lock # <<>> /\ ~w.taken /\ w' = Taken(w)
  BY DEF IInv, TypeOK, Wakes, System
<1>2. /\ past' \in Past
      /\ past'.loose <=> past.loose \/ (o = "keep" /\ w.conn # "open")
      /\ past'.unsaved <=> past.unsaved \/ CountsInMemory(w')
      /\ past'.rolled = past.rolled /\ past'.dropped = more
  <2>1. past \in Past
    BY DEF IInv, TypeOK
  <2>2. past' = [past EXCEPT !.loose = past.loose \/ (o = "keep" /\ w.conn # "open"),
                             !.unsaved = past.unsaved \/ CountsInMemory(w'),
                             !.dropped = more]
    BY DEF Wakes
  <2>3. /\ (past.loose \/ (o = "keep" /\ w.conn # "open")) \in BOOLEAN
        /\ (past.unsaved \/ CountsInMemory(w')) \in BOOLEAN
    OBVIOUS
  <2>4. more \in SUBSET Nat
    BY <1>1, <2>1 DEF Past
  <2> HIDE DEF more, o
  <2> QED BY <2>1, <2>2, <2>3, <2>4 DEF Past
<1>3. Kept(w, o, w')
  BY <1>1, TakenKeeps
<1>4. past.dropped \subseteq more /\ (o = "countIn" /\ w.conn = "closing" => w.in \in more)
  OBVIOUS
<1> HIDE DEF more, o
<1>5. ASSUME ~past'.loose PROVE Sequence(w')
  BY <1>2, <1>3, <1>5 DEF Kept, IInv
<1>6. ASSUME ~past'.unsaved PROVE RowCurrent(w')
  BY <1>2, <1>3, <1>6 DEF Kept, IInv, CountsInMemory
<1>7. ASSUME ~past'.rolled PROVE Handed(w', past'.dropped)
  <2>1. Handed(w, past.dropped)
    BY <1>2, <1>7 DEF IInv
  <2>2. Handed(w', more)
    BY <2>1, <1>3, <1>4 DEF Kept
  <2> QED BY <2>2, <1>2
<1>8. Queue(w') /\ Ending(w') /\ w' \in System
  BY <1>1, <1>3 DEF Kept, Queue
<1> QED BY <1>2, <1>5, <1>6, <1>7, <1>8 DEF IInv, TypeOK

(* The thread commits both counters: the row is what memory holds.         *)
LEMMA ExecutesKeeps ==
    ASSUME IInv, Executes
    PROVE  IInv'
<1> DEFINE h == Head(w.lock)
           row == IF w.op[h] \in {"count", "countIn"} THEN <<w.in, w.out>> ELSE w.row
           x == [w EXCEPT !.done = TRUE, !.row = row]
<1>1. /\ w \in System /\ Queue(w) /\ Ending(w) /\ w.in \in Nat \ {0} /\ w.out \in Nat \ {0}
      /\ w.row \in (Nat \ {0}) \X (Nat \ {0})
      /\ w.taken /\ ~w.done /\ w' = x /\ past' = past
  BY DEF IInv, TypeOK, Executes, System, Saved
<1>2. row \in (Nat \ {0}) \X (Nat \ {0})
  BY <1>1
<1>3. row = IF w.op[h] \in {"count", "countIn"} THEN <<w.in, w.out>> ELSE w.row
  OBVIOUS
<1> HIDE DEF row
<1>4. /\ x \in System /\ x.lock = w.lock /\ x.op = w.op /\ x.taken = w.taken
      /\ x.conn = w.conn /\ x.up = w.up /\ x.in = w.in /\ x.out = w.out
      /\ x.wire = w.wire /\ x.handed = w.handed /\ x.done = TRUE /\ x.row = row
  BY <1>1, <1>2 DEF System
<1> HIDE DEF x
<1>5. Queue(x)
  BY <1>1, <1>4 DEF Queue, Queued
<1>6. Ending(x)
  BY <1>1, <1>4 DEF Ending
<1>7. Sequence(w) => Sequence(x)
  BY <1>4 DEF Sequence, Uncounted
<1>8. RowCurrent(w) => RowCurrent(x)
  <2>1. ~Counting(x, "countIn") /\ ~Counting(x, "count")
    BY <1>4 DEF Counting
  <2>2. CASE w.op[h] \in {"count", "countIn"}
    BY <2>1, <2>2, <1>1, <1>3, <1>4 DEF RowCurrent
  <2>3. CASE w.op[h] \notin {"count", "countIn"}
    <3>1. ~Counting(w, "countIn") /\ ~Counting(w, "count")
      BY <2>3 DEF Counting
    <3> QED BY <2>1, <2>3, <3>1, <1>3, <1>4 DEF RowCurrent
  <2> QED BY <2>2, <2>3
<1>9. ASSUME NEW lost, Handed(w, lost) PROVE Handed(x, lost)
  BY <1>4, <1>9 DEF Handed, Holding
<1> QED BY <1>1, <1>4, <1>5, <1>6, <1>7, <1>8, <1>9 DEF IInv, TypeOK

(* disconnect only takes the session down.                                 *)
LEMMA DisconnectKeeps ==
    ASSUME IInv, NEW t \in Tasks, disconnect(t)
    PROVE  IInv'
<1> DEFINE x == [w EXCEPT !.up = FALSE, !.op[t] = "leave"]
<1>1. /\ w \in System /\ Queue(w) /\ Ending(w) /\ w.op \in [Tasks -> Ops]
      /\ t # Hb /\ w.op[t] = "none" /\ w' = x /\ past' = past
  BY DEF IInv, TypeOK, disconnect, System
<1>2. /\ x \in System /\ x.lock = w.lock /\ x.op = [w.op EXCEPT ![t] = "leave"]
      /\ x.taken = w.taken /\ x.done = w.done /\ x.conn = w.conn /\ x.up = FALSE
      /\ x.in = w.in /\ x.out = w.out /\ x.row = w.row
      /\ x.wire = w.wire /\ x.handed = w.handed
  BY <1>1 DEF System, Ops
<1> HIDE DEF x
<1>3. \A s \in Tasks : x.op[s] = IF s = t THEN "leave" ELSE w.op[s]
  BY <1>1, <1>2
<1>4. w.taken => Head(w.lock) \in Tasks /\ Head(w.lock) # t
  <2>1. w.taken => w.op[Head(w.lock)] \in LockOps /\ Head(w.lock) \in Tasks
    BY <1>1, HeadWorks DEF Queue
  <2> QED BY <2>1, <1>1 DEF LockOps
<1>5. Queue(x)
  <2>1. \A s \in Tasks : x.op[s] \in LockOps <=> Queued(x, s)
    <3>1. \A s \in Tasks : x.op[s] \in LockOps <=> w.op[s] \in LockOps
      BY <1>1, <1>3 DEF LockOps
    <3> QED BY <3>1, <1>1, <1>2 DEF Queue, Queued
  <2>2. x.taken => x.lock # <<>> /\ x.conn = "open" /\ x.op[Head(x.lock)] # "shut"
    BY <1>1, <1>2, <1>3, <1>4 DEF Queue
  <2>3. \A s \in Tasks : x.op[s] \in {"keepIn", "countIn"} => s = Reader
    BY <1>1, <1>3 DEF Queue
  <2> QED BY <2>1, <2>2, <2>3, <1>1, <1>2 DEF Queue
<1>6. Ending(x)
  <2>1. x.conn = "closing" => \E s \in Tasks : x.op[s] = "close"
    BY <1>1, <1>2, <1>3 DEF Ending
  <2>2. x.op[Hb] \notin {"leave", "shut", "close"}
    BY <1>1, <1>3 DEF Ending, Tasks
  <2>3. \A s \in Tasks : x.op[s] = "close" => w.op[s] = "close"
    BY <1>3
  <2> QED BY <2>1, <2>2, <2>3, <1>1, <1>2 DEF Ending
<1>7. ASSUME Sequence(w) PROVE Sequence(x)
  <2>1. \A s \in Tasks : Uncounted(x, s) <=> Uncounted(w, s)
    BY <1>1, <1>2, <1>3 DEF Uncounted
  <2> QED BY <2>1, <1>2, <1>7 DEF Sequence
<1>8. RowCurrent(w) => RowCurrent(x)
  BY <1>2, <1>3, <1>4 DEF RowCurrent, Counting
<1>9. ASSUME NEW lost, Handed(w, lost) PROVE Handed(x, lost)
  BY <1>2, <1>3, <1>4, <1>9 DEF Handed, Holding
<1> QED BY <1>1, <1>2, <1>5, <1>6, <1>7, <1>8, <1>9 DEF IInv, TypeOK

(* The database is closed when nobody is closing it any more.              *)
LEMMA CloseKeeps ==
    ASSUME IInv, NEW t \in Tasks, close(t)
    PROVE  IInv'
<1> DEFINE x == [w EXCEPT !.conn = "closed", !.op[t] = "none"]
<1>1. /\ w \in System /\ Queue(w) /\ Ending(w) /\ w.op \in [Tasks -> Ops]
      /\ w.op[t] = "close" /\ w' = x /\ past' = past
  BY DEF IInv, TypeOK, close, System
<1>2. /\ x \in System /\ x.lock = w.lock /\ x.op = [w.op EXCEPT ![t] = "none"]
      /\ x.taken = w.taken /\ x.done = w.done /\ x.conn = "closed" /\ x.up = w.up
      /\ x.in = w.in /\ x.out = w.out /\ x.row = w.row
      /\ x.wire = w.wire /\ x.handed = w.handed
  BY <1>1 DEF System, Ops
<1> HIDE DEF x
<1>3. \A s \in Tasks : x.op[s] = IF s = t THEN "none" ELSE w.op[s]
  BY <1>1, <1>2
<1>4. w.conn = "closing" /\ ~w.taken /\ ~w.done
  BY <1>1 DEF Ending, Queue
<1>5. Queue(x)
  <2>1. \A s \in Tasks : x.op[s] \in LockOps <=> Queued(x, s)
    <3>1. \A s \in Tasks : x.op[s] \in LockOps <=> w.op[s] \in LockOps
      BY <1>1, <1>3 DEF LockOps
    <3> QED BY <3>1, <1>1, <1>2 DEF Queue, Queued
  <2>2. \A s \in Tasks : x.op[s] \in {"keepIn", "countIn"} => s = Reader
    BY <1>1, <1>3 DEF Queue
  <2> QED BY <2>1, <2>2, <1>1, <1>2, <1>4 DEF Queue
<1>6. Ending(x)
  <2>1. \A s \in Tasks : x.op[s] # "close"
    BY <1>1, <1>3 DEF Ending
  <2>2. x.op[Hb] \notin {"leave", "shut", "close"}
    BY <1>1, <1>3 DEF Ending, Tasks
  <2>3. \A s \in Tasks : x.op[s] \in {"leave", "shut", "close"} => ~x.up
    BY <1>1, <1>2, <1>3 DEF Ending
  <2> QED BY <2>1, <2>2, <2>3, <1>2 DEF Ending
<1>7. ASSUME Sequence(w) PROVE Sequence(x)
  <2>1. \A s \in Tasks : Uncounted(x, s) <=> Uncounted(w, s)
    BY <1>1, <1>2, <1>3, <1>4 DEF Uncounted
  <2> QED BY <2>1, <1>2, <1>7 DEF Sequence
<1>8. RowCurrent(w) => RowCurrent(x)
  BY <1>2, <1>4 DEF RowCurrent, Counting
<1>9. ASSUME NEW lost, Handed(w, lost) PROVE Handed(x, lost)
  BY <1>2, <1>4, <1>9 DEF Handed, Holding
<1> QED BY <1>1, <1>2, <1>5, <1>6, <1>7, <1>8, <1>9 DEF IInv, TypeOK

(* The holder resumes: what it kept it counts next, what it counted is     *)
(* done.                                                                   *)
LEMMA ResumesKeeps ==
    ASSUME IInv, Resumes
    PROVE  IInv'
<1> DEFINE h == Head(w.lock)
           o == w.op[h]
           r == [[w EXCEPT !.lock = Tail(@), !.taken = FALSE, !.done = FALSE]
                    EXCEPT !.op[h] = "none"]
<1>1. /\ w \in System /\ Queue(w) /\ Ending(w) /\ w.op \in [Tasks -> Ops]
      /\ w.lock \in Seq(Tasks) /\ w.handed \in Seq(Nat) /\ w.in \in Nat \ {0}
      /\ w.taken /\ w.done /\ w.lock # <<>> /\ w.conn = "open"
      /\ w' = FollowUp(Released(w), h) /\ past' = past
  BY DEF IInv, TypeOK, Resumes, System, Queue
<1>2. h \in Tasks /\ o \in LockOps /\ o # "shut" /\ Tail(w.lock) \in Seq(Tasks)
  BY <1>1, HeadWorks, HeadTailProperties DEF Queue
<1>3. /\ r \in System /\ r.lock = Tail(w.lock) /\ r.op = [w.op EXCEPT ![h] = "none"]
      /\ r.taken = FALSE /\ r.done = FALSE /\ r.conn = "open" /\ r.up = w.up
      /\ r.in = w.in /\ r.out = w.out /\ r.row = w.row
      /\ r.wire = w.wire /\ r.handed = w.handed
  BY <1>1, <1>2 DEF System, Ops
<1>4. /\ o = "count" => w' = r
      /\ o = "countIn" => w' = HandedUp(r)
      /\ o = "keep" => w' = Acquires(r, h, "count")
      /\ o = "keepIn" => w' = Acquires(r, h, "countIn")
  <2>1. /\ Released(w) = [w EXCEPT !.lock = Tail(@), !.taken = FALSE, !.done = FALSE]
        /\ Released(w).op[h] = o
    BY <1>1 DEF Released, System
  <2>2. ASSUME NEW p PROVE Acquires(Released(w), h, p) = Acquires(r, h, p)
    <3>1. [Released(w) EXCEPT !.lock = Append(@, h), !.op[h] = p]
             = [r EXCEPT !.lock = Append(@, h), !.op[h] = p]
      <4>1. [[w.op EXCEPT ![h] = "none"] EXCEPT ![h] = p] = [w.op EXCEPT ![h] = p]
        BY <1>1, <1>2
      <4>2. [Released(w) EXCEPT !.lock = Append(@, h), !.op[h] = p]
              = [w EXCEPT !.lock = Append(Tail(@), h), !.taken = FALSE, !.done = FALSE,
                          !.op = [w.op EXCEPT ![h] = p]]
        BY <2>1, <1>1 DEF System
      <4>3. [r EXCEPT !.lock = Append(@, h), !.op[h] = p]
              = [w EXCEPT !.lock = Append(Tail(@), h), !.taken = FALSE, !.done = FALSE,
                          !.op = [[w.op EXCEPT ![h] = "none"] EXCEPT ![h] = p]]
        BY <1>1 DEF System
      <4> QED BY <4>1, <4>2, <4>3
    <3>2. Released(w).lock = r.lock
      BY <2>1, <1>1, <1>3 DEF System
    <3> HIDE DEF r
    <3> QED BY <3>1, <3>2 DEF Acquires
  <2>3. Over(Released(w), h) = IF o = "countIn" THEN HandedUp(r) ELSE r
    BY <2>1 DEF Over
  <2> HIDE DEF r
  <2> QED BY <1>1, <2>1, <2>2, <2>3 DEF FollowUp
<1> HIDE DEF r
<1>5. \A s \in Tasks : r.op[s] = IF s = h THEN "none" ELSE w.op[s]
  BY <1>1, <1>3
<1>6. Queue(r)
  BY <1>1, <1>3, LeavesQueue DEF Ops, LockOps
<1>7. Ending(r)
  <2>1. \A s \in Tasks : r.op[s] = "close" <=> w.op[s] = "close"
    BY <1>2, <1>5 DEF LockOps
  <2>2. r.op[Hb] \notin {"leave", "shut", "close"}
    BY <1>1, <1>5 DEF Ending, Tasks
  <2>3. \A s \in Tasks : r.op[s] \in {"leave", "shut", "close"} => ~r.up
    BY <1>1, <1>3, <1>5 DEF Ending
  <2> QED BY <2>1, <2>2, <2>3, <1>1, <1>3 DEF Ending
<1>8. RowCurrent(w) => RowCurrent(r)
  BY <1>1, <1>3 DEF RowCurrent, Counting
<1>9. ASSUME NEW lost, Handed(w, lost), o # "countIn" PROVE Handed(r, lost)
  BY <1>1, <1>3, <1>9 DEF Handed, Holding
<1>10. \A s \in Tasks : s # h => (Uncounted(r, s) <=> Uncounted(w, s))
  BY <1>1, <1>3, <1>5 DEF Uncounted
<1>11. ~Uncounted(r, h) /\ (Uncounted(w, h) <=> o = "keep")
  BY <1>1, <1>2, <1>3, <1>5 DEF Uncounted
<1>12. CASE o = "count"
  <2>1. \A s \in Tasks : Uncounted(r, s) <=> Uncounted(w, s)
    BY <1>10, <1>11, <1>12
  <2>2. Sequence(w) => Sequence(r)
    BY <2>1, <1>3 DEF Sequence
  <2> HIDE DEF o, h
  <2> QED BY <2>2, <1>1, <1>3, <1>4, <1>6, <1>7, <1>8, <1>9, <1>12 DEF IInv, TypeOK
<1>13. CASE o = "countIn"
  <2> DEFINE x == [r EXCEPT !.handed = Append(r.handed, r.in - 1)]
  <2>1. w' = x
    BY <1>4, <1>13 DEF HandedUp
  <2>2. r.in - 1 \in Nat /\ Append(r.handed, r.in - 1) \in Seq(Nat)
    BY <1>1, <1>3, AppendProperties
  <2>3. /\ x \in System /\ x.handed = Append(r.handed, r.in - 1)
        /\ x.lock = r.lock /\ x.op = r.op /\ x.taken = r.taken /\ x.done = r.done
        /\ x.conn = r.conn /\ x.up = r.up /\ x.in = r.in /\ x.out = r.out
        /\ x.row = r.row /\ x.wire = r.wire
    BY <1>3, <2>2 DEF System
  <2> HIDE DEF x
  <2>4. Queue(x) /\ Ending(x)
    BY <2>3, <1>6, <1>7 DEF Queue, Queued, Ending
  <2>5. RowCurrent(r) => RowCurrent(x)
    BY <2>3 DEF RowCurrent, Counting
  <2>6. Sequence(w) => Sequence(x)
    <3>1. \A s \in Tasks : Uncounted(x, s) <=> Uncounted(w, s)
      BY <2>3, <1>10, <1>11, <1>13 DEF Uncounted
    <3> QED BY <3>1, <2>3, <1>3 DEF Sequence
  <2>7. ASSUME NEW lost, Handed(w, lost) PROVE Handed(x, lost)
    <3>1. Holding(w) /\ ~Holding(x)
      BY <1>1, <1>3, <1>13, <2>3 DEF Holding
    <3>2. /\ Len(x.handed) = Len(w.handed) + 1 /\ Len(w.handed) \in Nat
          /\ \A i \in 1 .. Len(w.handed) : x.handed[i] = w.handed[i]
          /\ x.handed[Len(w.handed) + 1] = w.in - 1 /\ x.in = w.in
      BY <1>1, <1>3, <2>2, <2>3, AppendProperties, LenProperties
    <3>3. \A i \in 1 .. Len(w.handed) : w.handed[i] \in Nat /\ w.handed[i] < w.in - 1
      BY <1>1, <2>7, <3>1, ElementOfSeq DEF Handed
    <3>4. \A i, j \in 1 .. Len(x.handed) : i < j => x.handed[i] < x.handed[j]
      BY <2>7, <3>2, <3>3 DEF Handed
    <3>5. \A i \in 1 .. Len(x.handed) : x.handed[i] < x.in
      <4> SUFFICES ASSUME NEW i \in 1 .. Len(w.handed) + 1 PROVE x.handed[i] < w.in
        BY <3>2
      <4>1. CASE i = Len(w.handed) + 1
        BY <4>1, <3>2, <1>1
      <4>2. CASE i \in 1 .. Len(w.handed)
        <5>1. x.handed[i] = w.handed[i] /\ w.handed[i] \in Nat /\ w.handed[i] < w.in - 1
          BY <4>2, <3>2, <3>3
        <5> QED BY <5>1, <1>1
      <4> QED BY <4>1, <4>2, <3>2
    <3>6. \A n \in 1 .. x.in - 1 :
             (\E i \in 1 .. Len(x.handed) : x.handed[i] = n) \/ n \in lost
      <4> SUFFICES ASSUME NEW n \in 1 .. w.in - 1
                   PROVE  (\E i \in 1 .. Len(x.handed) : x.handed[i] = n) \/ n \in lost
        BY <3>2
      <4>1. CASE n = w.in - 1
        BY <4>1, <3>2
      <4>2. CASE n # w.in - 1
        BY <4>2, <2>7, <3>2 DEF Handed
      <4> QED BY <4>1, <4>2
    <3> QED BY <3>1, <3>4, <3>5, <3>6 DEF Handed
  <2> QED BY <2>1, <2>3, <2>4, <2>5, <2>6, <2>7, <1>1, <1>8 DEF IInv, TypeOK
<1>14. CASE o \in {"keep", "keepIn"}
  <2> DEFINE p == IF o = "keep" THEN "count" ELSE "countIn"
             u == Joined(r, h, p)
  <2>1. w' = Acquires(r, h, p) /\ p \in LockOps /\ p # "shut"
    <3>1. CASE o = "keep"
      BY <3>1, <1>4 DEF LockOps
    <3>2. CASE o = "keepIn"
      BY <3>2, <1>4 DEF LockOps
    <3> QED BY <3>1, <3>2, <1>14
  <2>2. \/ p = "count" /\ o = "keep"
        \/ p = "countIn" /\ o = "keepIn" /\ h = Reader
    <3>1. o \in {"keepIn", "countIn"} => h = Reader
      BY <1>1, <1>2 DEF Queue
    <3>2. CASE o = "keep"
      BY <3>2
    <3>3. CASE o = "keepIn"
      BY <3>1, <3>3
    <3> QED BY <3>2, <3>3, <1>14
  <2> HIDE DEF p, o
  <2>3. r.op[h] \notin LockOps \cup {"close"}
    BY <1>2, <1>5 DEF LockOps
  <2> HIDE DEF h
  <2>4. Admitted(r, h, p, w')
    BY <2>1, <2>2, <2>3, <1>2, <1>6, AcquiresKeeps
  <2>5. Sequence(w) => Sequence(u)
    <3>1. \A s \in Tasks : Uncounted(u, s) <=>
             IF s = h THEN p \in {"keep", "count"} ELSE Uncounted(r, s)
      BY <2>1, <2>2, <2>3, <1>2, <1>6, JoinedKeeps
    <3>2. \A s \in Tasks : Uncounted(u, s) <=> Uncounted(w, s)
      BY <3>1, <2>2, <1>10, <1>11
    <3>3. u.wire = w.wire /\ u.out = w.out
      BY <1>3 DEF Joined, System
    <3> QED BY <3>2, <3>3 DEF Sequence
  <2>6. Queue(w') /\ Ending(w') /\ w' \in System
    BY <2>1, <2>4, <1>7 DEF Admitted, Queue
  <2>7. Sequence(w) => Sequence(w')
    BY <2>2, <2>4, <2>5 DEF Admitted
  <2>8. RowCurrent(w) => RowCurrent(w')
    BY <2>1, <2>4, <1>3, <1>8 DEF Admitted
  <2>9. ASSUME NEW lost, Handed(w, lost) PROVE Handed(w', lost)
    BY <2>2, <2>4, <2>9, <1>3, <1>9 DEF Admitted
  <2> QED BY <2>6, <2>7, <2>8, <2>9, <1>1 DEF IInv, TypeOK
<1> QED BY <1>2, <1>12, <1>13, <1>14 DEF LockOps

(* r is the queue s without the task t.                                    *)
Distinct(s) == \A i, j \in 1 .. Len(s) : s[i] = s[j] => i = j

LeavesOut(s, t, r) ==
    /\ r \in Seq(Tasks) /\ Distinct(r)
    /\ \A u : (\E i \in 1 .. Len(r) : r[i] = u)
                <=> u # t /\ \E i \in 1 .. Len(s) : s[i] = u
    /\ s # <<>> /\ Head(s) # t => r # <<>> /\ Head(r) = Head(s)

(* That is what Without computes.                                          *)
LEMMA WithoutOne ==
    ASSUME NEW s \in Seq(Tasks), NEW t, Distinct(s), NEW r, r = Without(s, t)
    PROVE  LeavesOut(s, t, r)
<1>0. \A i, j \in 1 .. Len(s) : s[i] = s[j] => i = j
  BY DEF Distinct
<1>1. Len(s) \in Nat /\ (s # <<>> => Len(s) > 0 /\ Head(s) = s[1])
  BY LenProperties, HeadTailProperties, EmptySeq
<1>2. CASE ~\E i \in 1 .. Len(s) : s[i] = t
  <2>1. r = s
    BY <1>2 DEF Without
  <2> QED BY <2>1, <1>2 DEF LeavesOut
<1>3. CASE \E i \in 1 .. Len(s) : s[i] = t
  <2> DEFINE k == CHOOSE i \in 1 .. Len(s) : s[i] = t
             a == SubSeq(s, 1, k - 1)
             b == SubSeq(s, k + 1, Len(s))
  <2>1. k \in 1 .. Len(s) /\ s[k] = t
    BY <1>3
  <2>2. r = a \o b
    BY <1>3 DEF Without
  <2> HIDE DEF k
  <2>3. \A i \in 1 .. Len(s) : s[i] \in Tasks
    BY ElementOfSeq
  <2>4. /\ a \in Seq(Tasks) /\ Len(a) = k - 1
        /\ \A i \in 1 .. k - 1 : a[i] = s[i]
    <3>1. \A i \in 1 .. k - 1 : s[i] \in Tasks
      BY <2>1, <2>3, <1>1
    <3>2. /\ a \in Seq(Tasks) /\ Len(a) = IF 1 <= k - 1 THEN k - 1 - 1 + 1 ELSE 0
          /\ \A i \in 1 .. k - 1 - 1 + 1 : a[i] = s[1 + i - 1]
      BY <3>1, <2>1, <1>1, SubSeqProperties
    <3> HIDE DEF a
    <3> QED BY <3>2, <2>1, <1>1
  <2>5. /\ b \in Seq(Tasks) /\ Len(b) = Len(s) - k
        /\ \A i \in 1 .. Len(s) - k : b[i] = s[k + i]
    <3>1. \A i \in k + 1 .. Len(s) : s[i] \in Tasks
      BY <2>1, <2>3, <1>1
    <3>2. /\ b \in Seq(Tasks)
          /\ Len(b) = IF k + 1 <= Len(s) THEN Len(s) - (k + 1) + 1 ELSE 0
          /\ \A i \in 1 .. Len(s) - (k + 1) + 1 : b[i] = s[k + 1 + i - 1]
      BY <3>1, <2>1, <1>1, SubSeqProperties
    <3> HIDE DEF b
    <3> QED BY <3>2, <2>1, <1>1
  <2> HIDE DEF a, b
  <2>6. /\ r \in Seq(Tasks) /\ Len(r) = Len(s) - 1
        /\ \A i \in 1 .. Len(s) - 1 : r[i] = IF i < k THEN s[i] ELSE s[i + 1]
    <3>1. /\ r \in Seq(Tasks) /\ Len(r) = Len(a) + Len(b)
          /\ \A i \in 1 .. Len(a) + Len(b) :
                r[i] = IF i <= Len(a) THEN a[i] ELSE b[i - Len(a)]
      <4>1. a \in Seq(Tasks) /\ b \in Seq(Tasks)
        BY <2>4, <2>5
      <4>2. /\ a \o b \in Seq(Tasks) /\ Len(a \o b) = Len(a) + Len(b)
            /\ \A i \in 1 .. Len(a) + Len(b) :
                  (a \o b)[i] = IF i <= Len(a) THEN a[i] ELSE b[i - Len(a)]
        BY <4>1, ConcatProperties
      <4> QED BY <2>2, <4>2
    <3>2. Len(r) = Len(s) - 1
      BY <3>1, <2>1, <2>4, <2>5, <1>1
    <3>3. ASSUME NEW i \in 1 .. Len(s) - 1 PROVE r[i] = IF i < k THEN s[i] ELSE s[i + 1]
      <4>0. i \in 1 .. Len(a) + Len(b)
        BY <2>1, <2>4, <2>5, <1>1
      <4>1. CASE i < k
        <5>1. i <= Len(a) /\ i \in 1 .. k - 1
          BY <4>1, <2>1, <2>4, <1>1
        <5> QED BY <4>0, <4>1, <5>1, <3>1, <2>4
      <4>2. CASE ~(i < k)
        <5>1. /\ i - (k - 1) \in 1 .. Len(s) - k /\ k + (i - (k - 1)) = i + 1
              /\ ~(i <= Len(a)) /\ i - Len(a) = i - (k - 1)
          BY <4>2, <2>1, <2>4, <1>1
        <5>2. r[i] = b[i - (k - 1)]
          BY <4>0, <5>1, <3>1
        <5>3. b[i - (k - 1)] = s[k + (i - (k - 1))]
          BY <5>1, <2>5
        <5> QED BY <4>2, <5>1, <5>2, <5>3
      <4> QED BY <4>1, <4>2
    <3> QED BY <3>1, <3>2, <3>3
  <2>7. ASSUME NEW i \in 1 .. Len(r), NEW j \in 1 .. Len(r), r[i] = r[j] PROVE i = j
    <3> DEFINE at(n) == IF n < k THEN n ELSE n + 1
    <3>1. at(i) \in 1 .. Len(s) /\ at(j) \in 1 .. Len(s)
      BY <2>1, <2>6, <1>1
    <3>2. s[at(i)] = s[at(j)]
      BY <2>6, <2>7
    <3>3. at(i) = at(j)
      BY <3>1, <3>2, <1>0
    <3> QED BY <3>3, <2>1, <2>6, <1>1
  <2>8. ASSUME NEW u, NEW i \in 1 .. Len(r), r[i] = u
        PROVE  u # t /\ \E j \in 1 .. Len(s) : s[j] = u
    <3> DEFINE j == IF i < k THEN i ELSE i + 1
    <3>1. j \in 1 .. Len(s) /\ j # k
      BY <2>1, <2>6, <1>1
    <3>2. s[j] = u
      BY <2>6, <2>8
    <3> QED BY <3>1, <3>2, <2>1, <1>0
  <2>9. ASSUME NEW u, u # t, NEW j \in 1 .. Len(s), s[j] = u
        PROVE  \E i \in 1 .. Len(r) : r[i] = u
    <3>1. j # k
      BY <2>1, <2>9
    <3>2. CASE j < k
      <4>1. j \in 1 .. Len(s) - 1 /\ r[j] = u
        BY <3>2, <2>1, <2>6, <2>9, <1>1
      <4> QED BY <4>1, <2>6
    <3>3. CASE j > k
      <4>1. j - 1 \in 1 .. Len(s) - 1 /\ ~(j - 1 < k) /\ j - 1 + 1 = j
        BY <3>3, <2>1, <1>1
      <4>2. r[j - 1] = u
        BY <4>1, <2>6, <2>9
      <4> QED BY <4>1, <4>2, <2>6
    <3> QED BY <3>1, <3>2, <3>3, <2>1, <1>1
  <2>10. ASSUME s # <<>>, Head(s) # t PROVE r # <<>> /\ Head(r) = Head(s)
    <3>1. k # 1 /\ 1 \in 1 .. Len(s) - 1 /\ r[1] = s[1]
      BY <2>1, <2>6, <2>10, <1>1
    <3>2. r # <<>>
      BY <3>1, <2>6, <1>1, EmptySeq
    <3> QED BY <3>1, <3>2, <2>6, <1>1, <2>10, HeadTailProperties, EmptySeq
  <2> QED BY <2>6, <2>7, <2>8, <2>9, <2>10 DEF LeavesOut, Distinct
<1> QED BY <1>2, <1>3

(* The heartbeat task is cancelled, in the queue or at its head, and the   *)
(* task that disconnects asks for the lock.                                *)
LEMMA StopKeeps ==
    ASSUME IInv, NEW t \in Tasks, stop(t)
    PROVE  IInv'
<1> DEFINE rest == Without(w.lock, Hb)
           held == w.lock # <<>> /\ Head(w.lock) = Hb
           v == [w EXCEPT !.op[Hb] = "none", !.lock = rest,
                          !.taken = w.taken /\ ~held, !.done = w.done /\ ~held]
<1>1. /\ w \in System /\ Queue(w) /\ Ending(w) /\ w.op \in [Tasks -> Ops]
      /\ w.lock \in Seq(Tasks) /\ w.taken \in BOOLEAN /\ w.done \in BOOLEAN
      /\ Hb \in Tasks /\ w.op[t] = "leave" /\ w' = Acquires(v, t, "shut")
  <2>1. CancelledHb(w) = v
    BY DEF CancelledHb, IInv, TypeOK, System
  <2> HIDE DEF v
  <2> QED BY <2>1 DEF IInv, TypeOK, stop, System, Tasks
<1>2. /\ past' \in Past
      /\ past'.loose <=> past.loose \/ Uncounted(w, Hb)
      /\ past'.unsaved <=> past.unsaved \/ (Unsaved(w, Hb) /\ ~Uncounted(w, Hb))
      /\ past'.rolled = past.rolled /\ past'.dropped = past.dropped
  <2>1. past \in Past
    BY DEF IInv, TypeOK
  <2>2. past' = [past EXCEPT !.loose = past.loose \/ Uncounted(w, Hb),
                    !.unsaved = past.unsaved \/ (Unsaved(w, Hb) /\ ~Uncounted(w, Hb))]
    BY DEF stop
  <2>3. /\ (past.loose \/ Uncounted(w, Hb)) \in BOOLEAN
        /\ (past.unsaved \/ (Unsaved(w, Hb) /\ ~Uncounted(w, Hb))) \in BOOLEAN
    OBVIOUS
  <2> QED BY <2>1, <2>2, <2>3 DEF Past
<1>3. /\ rest \in Seq(Tasks)
      /\ \A i, j \in 1 .. Len(rest) : rest[i] = rest[j] => i = j
      /\ \A u : (\E i \in 1 .. Len(rest) : rest[i] = u) <=> u # Hb /\ Queued(w, u)
      /\ w.lock # <<>> /\ ~held => rest # <<>> /\ Head(rest) = Head(w.lock)
  <2>1. Distinct(w.lock)
    BY <1>1 DEF Queue, Distinct
  <2>2. LeavesOut(w.lock, Hb, rest)
    BY <2>1, <1>1, WithoutOne
  <2> HIDE DEF rest
  <2> QED BY <2>2 DEF LeavesOut, Queued, Distinct
<1> HIDE DEF rest
<1>4. /\ v \in System /\ v.lock = rest /\ v.op = [w.op EXCEPT ![Hb] = "none"]
      /\ v.taken = (w.taken /\ ~held) /\ v.done = (w.done /\ ~held)
      /\ v.conn = w.conn /\ v.up = w.up /\ v.in = w.in /\ v.out = w.out
      /\ v.row = w.row /\ v.wire = w.wire /\ v.handed = w.handed
  <2>1. (w.taken /\ ~held) \in BOOLEAN /\ (w.done /\ ~held) \in BOOLEAN
    OBVIOUS
  <2> HIDE DEF held
  <2> QED BY <1>1, <1>3, <2>1 DEF System, Ops
<1> HIDE DEF v
<1>5. \A s \in Tasks : v.op[s] = IF s = Hb THEN "none" ELSE w.op[s]
  BY <1>1, <1>4
<1>6. /\ v.taken => /\ w.taken /\ ~held /\ w.lock # <<>> /\ v.lock # <<>>
                    /\ Head(v.lock) = Head(w.lock) /\ Head(w.lock) \in Tasks
                    /\ v.op[Head(v.lock)] = w.op[Head(w.lock)] /\ v.done = w.done
      /\ w.taken /\ ~v.taken => Head(w.lock) = Hb
  <2>1. w.taken => w.lock # <<>> /\ Head(w.lock) \in Tasks
    BY <1>1, HeadWorks DEF Queue
  <2>2. v.taken => w.taken /\ ~held /\ v.done = w.done
    BY <1>1, <1>4
  <2>3. v.taken => Head(w.lock) # Hb
    BY <2>1, <2>2
  <2>4. v.taken => v.lock # <<>> /\ Head(v.lock) = Head(w.lock)
    BY <2>1, <2>2, <1>3, <1>4
  <2>5. w.taken /\ ~v.taken => Head(w.lock) = Hb
    BY <1>1, <1>4
  <2> QED BY <2>1, <2>2, <2>3, <2>4, <2>5, <1>5
<1>7. Queue(v)
  <2>1. \A i, j \in 1 .. Len(v.lock) : v.lock[i] = v.lock[j] => i = j
    BY <1>3, <1>4
  <2>2. ASSUME NEW s \in Tasks PROVE v.op[s] \in LockOps <=> Queued(v, s)
    <3>1. Queued(v, s) <=> s # Hb /\ Queued(w, s)
      BY <1>3, <1>4 DEF Queued
    <3> QED BY <3>1, <1>1, <1>5 DEF Queue, LockOps
  <2>3. v.taken => v.lock # <<>> /\ v.conn = "open" /\ v.op[Head(v.lock)] # "shut"
    BY <1>1, <1>4, <1>6 DEF Queue
  <2>4. v.done => v.taken
    BY <1>1, <1>4 DEF Queue
  <2>5. \A s \in Tasks : v.op[s] \in {"keepIn", "countIn"} => s = Reader
    BY <1>1, <1>5 DEF Queue
  <2> QED BY <2>1, <2>2, <2>3, <2>4, <2>5, <1>4 DEF Queue
<1>8. Ending(v) /\ ~v.up /\ t # Hb /\ v.op[t] = "leave"
  <2>1. t # Hb /\ ~v.up /\ v.op[t] = "leave"
    BY <1>1, <1>4, <1>5 DEF Ending
  <2>2. \A s \in Tasks : v.op[s] = "close" <=> w.op[s] = "close"
    BY <1>1, <1>5 DEF Ending
  <2>3. v.op[Hb] \notin {"leave", "shut", "close"}
    BY <1>1, <1>5
  <2> QED BY <2>1, <2>2, <2>3, <1>1, <1>4 DEF Ending
<1>9. "shut" \in LockOps /\ v.op[t] \notin LockOps \cup {"close"}
  BY <1>8 DEF LockOps
<1>10. Admitted(v, t, "shut", w')
  BY <1>1, <1>7, <1>9, AcquiresKeeps
<1>11. ASSUME ~past'.loose PROVE Sequence(w')
  <2> DEFINE u == Joined(v, t, "shut")
  <2>1. Sequence(w) /\ ~Uncounted(w, Hb)
    BY <1>2, <1>11 DEF IInv
  <2>2. \A s \in Tasks : Uncounted(v, s) <=> Uncounted(w, s)
    <3> SUFFICES ASSUME NEW s \in Tasks PROVE Uncounted(v, s) <=> Uncounted(w, s)
      OBVIOUS
    <3>1. CASE s = Hb
      BY <3>1, <2>1, <1>5 DEF Uncounted
    <3>2. CASE s # Hb
      <4>1. v.op[s] = w.op[s]
        BY <3>2, <1>5
      <4>2. v.taken /\ Head(v.lock) = s <=> w.taken /\ Head(w.lock) = s
        BY <3>2, <1>6
      <4> QED BY <4>1, <4>2 DEF Uncounted
    <3> QED BY <3>1, <3>2
  <2>3. \A s \in Tasks : Uncounted(u, s) <=> Uncounted(v, s)
    <3>1. ~Uncounted(v, t)
      BY <1>8 DEF Uncounted
    <3>2. \A s \in Tasks : Uncounted(u, s) <=>
             IF s = t THEN "shut" \in {"keep", "count"} ELSE Uncounted(v, s)
      BY <1>7, <1>9, JoinedKeeps
    <3> QED BY <3>1, <3>2
  <2>4. u.wire = w.wire /\ u.out = w.out
    BY <1>4 DEF Joined, System
  <2>5. Sequence(u)
    BY <2>1, <2>2, <2>3, <2>4 DEF Sequence
  <2> QED BY <2>5, <1>10 DEF Admitted
<1>12. ASSUME ~past'.unsaved PROVE RowCurrent(w')
  <2>1. RowCurrent(w) /\ ~(Unsaved(w, Hb) /\ ~Uncounted(w, Hb))
    BY <1>2, <1>12 DEF IInv
  <2>2. Counting(v, "countIn") <=> Counting(w, "countIn")
    <3>1. w.op[Hb] # "countIn"
      BY <1>1, TasksDiffer DEF Queue
    <3> QED BY <3>1, <1>6 DEF Counting
  <2>3. Counting(v, "count") <=> Counting(w, "count")
    <3>1. ~(w.taken /\ ~w.done /\ Head(w.lock) = Hb /\ w.op[Hb] = "count")
      BY <2>1 DEF Unsaved, Uncounted
    <3> QED BY <3>1, <1>6 DEF Counting
  <2>4. RowCurrent(v)
    BY <2>1, <2>2, <2>3, <1>4 DEF RowCurrent
  <2> QED BY <2>4, <1>10 DEF Admitted
<1>13. ASSUME ~past'.rolled PROVE Handed(w', past'.dropped)
  <2>1. Handed(w, past.dropped)
    BY <1>2, <1>13 DEF IInv
  <2>2. Holding(v) <=> Holding(w)
    <3>1. w.op[Hb] # "countIn"
      BY <1>1, TasksDiffer DEF Queue
    <3> QED BY <3>1, <1>6 DEF Holding
  <2>3. Handed(v, past.dropped)
    BY <2>1, <2>2, <1>4 DEF Handed
  <2>4. Handed(w', past.dropped)
    BY <2>3, <1>10 DEF Admitted
  <2> QED BY <2>4, <1>2
<1>14. Queue(w') /\ Ending(w') /\ w' \in System
  BY <1>8, <1>10 DEF Admitted, Queue
<1> QED BY <1>2, <1>11, <1>12, <1>13, <1>14 DEF IInv, TypeOK

(* The process dies, and the next one reads the row.                       *)
LEMMA RestartKeeps ==
    ASSUME IInv, Restart
    PROVE  IInv'
<1> DEFINE x == [w EXCEPT !.up = FALSE, !.in = w.row[1], !.out = w.row[2],
                          !.conn = "open", !.lock = <<>>, !.taken = FALSE,
                          !.done = FALSE, !.op = Idle]
           more == past.dropped \cup
                     IF w.op[Reader] = "countIn" /\ w.done /\ Head(w.lock) = Reader
                       THEN {w.row[1] - 1} ELSE {}
<1>1. /\ w \in System /\ Queue(w) /\ w' = x /\ Reader \in Tasks
      /\ w.row[1] \in Nat \ {0} /\ w.row[2] \in Nat \ {0}
      /\ w.in \in Nat /\ w.out \in Nat /\ w.handed \in Seq(Nat)
  BY DEF IInv, TypeOK, Restart, System, Tasks
<1>2. /\ past' \in Past
      /\ past'.loose <=> past.loose \/ past.unsaved \/ \E t \in Tasks : Unsaved(w, t)
      /\ past'.rolled <=> past.rolled \/ past.unsaved
      /\ past'.dropped = more
  <2>1. past \in Past /\ past.restarts < MaxRestarts
    BY DEF IInv, TypeOK, Restart
  <2>2. past' = [past EXCEPT
           !.restarts = past.restarts + 1,
           !.loose = past.loose \/ past.unsaved \/ \E t \in Tasks : Unsaved(w, t),
           !.rolled = past.rolled \/ past.unsaved,
           !.unsaved = FALSE, !.dropped = more]
    BY DEF Restart
  <2>3. /\ (past.loose \/ past.unsaved \/ \E t \in Tasks : Unsaved(w, t)) \in BOOLEAN
        /\ (past.rolled \/ past.unsaved) \in BOOLEAN
    OBVIOUS
  <2>4. more \in SUBSET Nat
    BY <1>1, <2>1 DEF Past
  <2>5. past.restarts + 1 \in 0 .. MaxRestarts
    BY <2>1, BoundsAreNaturals DEF Past
  <2> HIDE DEF more
  <2> QED BY <2>1, <2>2, <2>3, <2>4, <2>5 DEF Past
<1>3. /\ x \in System /\ x.lock = <<>> /\ x.op = Idle /\ x.taken = FALSE
      /\ x.done = FALSE /\ x.conn = "open" /\ x.up = FALSE
      /\ x.in = w.row[1] /\ x.out = w.row[2] /\ x.row = w.row
      /\ x.wire = w.wire /\ x.handed = w.handed
  <2>1. <<>> \in Seq(Tasks) /\ Idle \in [Tasks -> Ops]
    BY EmptySeq DEF Idle, Ops
  <2> QED BY <1>1, <2>1 DEF System
<1> HIDE DEF x
<1>4. \A s \in Tasks : x.op[s] = "none"
  BY <1>3 DEF Idle
<1>5. Queue(x)
  <2>1. \A s \in Tasks : x.op[s] \notin LockOps /\ ~Queued(x, s)
    BY <1>3, <1>4, EmptySeq DEF LockOps, Queued
  <2>2. \A i, j \in 1 .. Len(x.lock) : x.lock[i] = x.lock[j] => i = j
    BY <1>3, EmptySeq
  <2> QED BY <2>1, <2>2, <1>3, <1>4 DEF Queue
<1>6. Ending(x)
  BY <1>3, <1>4 DEF Ending, Tasks
<1>7. RowCurrent(x)
  BY <1>1, <1>3 DEF RowCurrent, Counting
<1>8. ASSUME ~past'.loose PROVE Sequence(x)
  <2>1. Sequence(w) /\ RowCurrent(w) /\ \A t \in Tasks : ~Unsaved(w, t)
    BY <1>2, <1>8 DEF IInv
  <2>2. ~Counting(w, "count")
    <3>1. w.taken => Head(w.lock) \in Tasks
      BY <1>1, HeadWorks DEF Queue
    <3> QED BY <3>1, <2>1 DEF Counting, Unsaved
  <2>3. ~\E t \in Tasks : Uncounted(w, t)
    BY <2>1 DEF Unsaved
  <2>4. \A t \in Tasks : ~Uncounted(x, t)
    BY <1>4 DEF Uncounted
  <2>5. x.out = w.out
    BY <2>1, <2>2, <1>1, <1>3 DEF RowCurrent
  <2> QED BY <2>1, <2>3, <2>4, <2>5, <1>3 DEF Sequence
<1>9. ASSUME ~past'.rolled PROVE Handed(x, more)
  <2>1. Handed(w, past.dropped) /\ RowCurrent(w)
    BY <1>2, <1>9 DEF IInv
  <2>2. ~Holding(x) /\ past.dropped \subseteq more
    BY <1>3 DEF Holding
  <2>3. \A i \in 1 .. Len(w.handed) : w.handed[i] \in Nat
    BY <1>1, ElementOfSeq
  <2>4. CASE Counting(w, "countIn")
    <3>1. w.in = w.row[1] + 1 /\ Holding(w)
      BY <2>1, <2>4 DEF RowCurrent, Counting, Holding
    <3> HIDE DEF more
    <3>2. \A i \in 1 .. Len(w.handed) : w.handed[i] < x.in
      BY <2>1, <2>3, <3>1, <1>1, <1>3 DEF Handed
    <3>3. \A n \in 1 .. x.in - 1 : n \in 1 .. w.in - 1 /\ n # w.in - 1
      BY <3>1, <1>1, <1>3
    <3> QED BY <2>1, <2>2, <3>2, <3>3, <1>3 DEF Handed
  <2>5. CASE ~Counting(w, "countIn")
    <3>1. w.in = w.row[1]
      BY <2>1, <2>5, <1>1 DEF RowCurrent
    <3>2. Holding(w) => w.in - 1 \in more
      <4>1. Holding(w) => w.op[Reader] = "countIn" /\ w.done /\ Head(w.lock) = Reader
        BY <2>5, <1>1, HeadWorks DEF Holding, Counting, Queue
      <4> QED BY <4>1, <3>1
    <3> HIDE DEF more
    <3>3. \A i \in 1 .. Len(w.handed) : w.handed[i] < x.in
      <4> SUFFICES ASSUME NEW i \in 1 .. Len(w.handed) PROVE w.handed[i] < w.in
        BY <3>1, <1>3
      <4>1. w.handed[i] \in Nat /\ w.handed[i] < IF Holding(w) THEN w.in - 1 ELSE w.in
        BY <2>1, <2>3 DEF Handed
      <4> QED BY <4>1, <1>1
    <3> QED BY <2>1, <2>2, <3>1, <3>2, <3>3, <1>3 DEF Handed
  <2> QED BY <2>4, <2>5
<1> QED BY <1>1, <1>2, <1>3, <1>5, <1>6, <1>7, <1>8, <1>9 DEF IInv, TypeOK

-----------------------------------------------------------------------------
(* The theorems.                                                           *)

(* The first process starts with an empty database.                        *)
LEMMA InitKeeps == Init => IInv
<1> SUFFICES ASSUME Init PROVE IInv
  OBVIOUS
<1>1. /\ w.up = FALSE /\ w.in = 1 /\ w.out = 1 /\ w.row = <<1, 1>> /\ w.conn = "open"
      /\ w.lock = <<>> /\ w.taken = FALSE /\ w.done = FALSE /\ w.op = Idle
      /\ w.wire = <<>> /\ w.handed = <<>>
  BY DEF Init
<1>2. w \in System /\ past \in Past
  <2>1. <<>> \in Seq(Tasks) /\ <<>> \in Seq(Nat) /\ Idle \in [Tasks -> Ops]
    BY EmptySeq DEF Idle, Ops
  <2> QED BY <2>1, BoundsAreNaturals DEF Init, System, Past
<1>3. \A s \in Tasks : w.op[s] = "none"
  BY <1>1 DEF Idle
<1>4. Len(w.lock) = 0 /\ Len(w.wire) = 0 /\ Len(w.handed) = 0
  BY <1>1, EmptySeq
<1>5. Queue(w)
  <2>1. \A s \in Tasks : w.op[s] \notin LockOps /\ ~Queued(w, s)
    BY <1>3, <1>4 DEF LockOps, Queued
  <2> QED BY <2>1, <1>1, <1>2, <1>3, <1>4 DEF Queue
<1>6. Ending(w)
  BY <1>1, <1>3 DEF Ending, Tasks
<1>7. Sequence(w)
  BY <1>1, <1>3, <1>4 DEF Sequence, Uncounted
<1>8. RowCurrent(w)
  BY <1>1 DEF RowCurrent, Counting
<1>9. Handed(w, past.dropped)
  BY <1>1, <1>4 DEF Handed
<1> QED BY <1>2, <1>5, <1>6, <1>7, <1>8, <1>9 DEF IInv, TypeOK

(* No step of any task breaks the invariant.                               *)
LEMMA NextKeeps == IInv /\ [Next]_vars => IInv'
<1> SUFFICES ASSUME IInv, [Next]_vars PROVE IInv'
  OBVIOUS
<1>1. ASSUME NEW t \in Tasks, send_message(t) PROVE IInv'
  BY <1>1, SendKeeps
<1>2. ASSUME NEW t \in Tasks, disconnect(t) PROVE IInv'
  BY <1>2, DisconnectKeeps
<1>3. ASSUME NEW t \in Tasks, stop(t) PROVE IInv'
  BY <1>3, StopKeeps
<1>4. ASSUME NEW t \in Tasks, close(t) PROVE IInv'
  BY <1>4, CloseKeeps
<1>5. ASSUME NEW t \in Apps, start(t) PROVE IInv'
  BY <1>5, StartKeeps
<1>6. CASE process_single_fix_message
  BY <1>6, ProcessKeeps
<1>7. CASE Wakes
  BY <1>7, WakesKeeps
<1>8. CASE Executes
  BY <1>8, ExecutesKeeps
<1>9. CASE Resumes
  BY <1>9, ResumesKeeps
<1>10. CASE Restart
  BY <1>10, RestartKeeps
<1>11. CASE UNCHANGED vars
  BY <1>11 DEF vars, IInv, TypeOK
<1> QED BY <1>1, <1>2, <1>3, <1>4, <1>5, <1>6, <1>7, <1>8, <1>9, <1>10, <1>11 DEF Next

(* The invariant holds throughout.                                         *)
LEMMA AsyncInvariant == Spec => []IInv
<1> QED BY InitKeeps, NextKeeps, PTL DEF Spec

(* The queue of the lock, the tasks' operations and the counters are what  *)
(* the store and its callers take them for, however the tasks interleave.  *)
THEOREM AsyncTypeCorrect == Spec => []TypeOK
<1>1. IInv => TypeOK
  BY DEF IInv
<1> QED BY <1>1, AsyncInvariant, PTL

(* Over the asynchronous store too every number is sent once and in its    *)
(* turn, across reconnects and restarts, unless two sends overlapped or    *)
(* one was cut short: any number of tasks, any number of restarts.         *)
THEOREM NumbersInSequence == Spec => []SentInSequence
<1>1. IInv => SentInSequence
  BY DEF IInv, SentInSequence, Sequence
<1> QED BY <1>1, AsyncInvariant, PTL

(* A message received is handed up at most once and in order, and one that *)
(* is counted is handed up unless the end of the process or of the store   *)
(* took it from the reader.                                                *)
THEOREM HandedUpAtMostOnce == Spec => []HandedUpOnce
<1>1. ASSUME IInv PROVE HandedUpOnce
  <2> SUFFICES ASSUME ~past.rolled PROVE HandedUpOnce
    BY DEF HandedUpOnce
  <2>1. Handed(w, past.dropped)
    BY <1>1 DEF IInv
  <2>2. Holding(w) => w.op[Reader] = "countIn"
    BY <1>1, HeadWorks DEF IInv, Holding, Queue
  <2> QED BY <2>1, <2>2 DEF Handed, HandedUpOnce
<1>2. IInv => HandedUpOnce
  BY <1>1
<1> QED BY <1>2, AsyncInvariant, PTL

-----------------------------------------------------------------------------
(* The maps of tags (reference.py:32-148)                                  *)

IsSequence(s) == Len(s) \in Nat /\ s = [i \in 1 .. Len(s) |-> s[i]]

IsTag(self) ==
    /\ self = [values |-> self.values, byName |-> self.byName, byValue |-> self.byValue]
    /\ IsSequence(self.values)

IsReference(self) == self = [tags |-> self.tags, byName |-> self.byName, byTag |-> self.byTag]

TagCurrent(self) ==
    /\ self.byName = <<>> \/ self.byName = ByName(self.values)
    /\ self.byValue = <<>> \/ self.byValue = ByValue(self.values)

ReferenceCurrent(self) ==
    /\ self.byName = <<>> \/ self.byName \in MapsByName(self.tags)
    /\ self.byTag = <<>> \/ self.byTag \in MapsByTag(self.tags)

(* A tag and a reference are what their classes make them, and their maps  *)
(* are current.                                                            *)
TagsInv == IsTag(tag) /\ TagCurrent(tag) /\ IsReference(ref) /\ ReferenceCurrent(ref)

(* A sequence with one element more.                                       *)
LEMMA Appended ==
    ASSUME NEW s, IsSequence(s), NEW e
    PROVE  /\ IsSequence(Append(s, e))
           /\ DOMAIN s = 1 .. Len(s) /\ Len(s) \in Nat
           /\ DOMAIN Append(s, e) = 1 .. Len(s) + 1
           /\ \A i \in 1 .. Len(s) : Append(s, e)[i] = s[i]
           /\ Append(s, e)[Len(s) + 1] = e
<1> DEFINE n == Len(s)
           S == {s[i] : i \in 1 .. n} \cup {e}
           a == Append(s, e)
<1>1. n \in Nat /\ s = [i \in 1 .. n |-> s[i]]
  BY DEF IsSequence
<1>2. s \in Seq(S)
  <2>1. \A i \in 1 .. n : s[i] \in S
    OBVIOUS
  <2> HIDE DEF n, S
  <2>2. [i \in 1 .. n |-> s[i]] \in Seq(S)
    BY <1>1, <2>1
  <2> QED BY <1>1, <2>2
<1>3. e \in S
  OBVIOUS
<1> HIDE DEF S
<1>4. /\ a \in Seq(S) /\ Len(a) = n + 1 /\ a[n + 1] = e
      /\ \A i \in 1 .. n : a[i] = s[i]
  BY <1>2, <1>3, AppendProperties
<1>5. DOMAIN a = 1 .. n + 1 /\ IsSequence(a)
  <2> HIDE DEF a, n
  <2>1. DOMAIN a = 1 .. Len(a) /\ a = [i \in 1 .. Len(a) |-> a[i]]
    BY <1>4
  <2>2. Len(a) \in Nat
    BY <1>1, <1>4
  <2> QED BY <1>4, <2>1, <2>2 DEF IsSequence
<1> QED BY <1>1, <1>2, <1>4, <1>5

(* What stays after a deletion is a sequence.                              *)
LEMMA Remaining ==
    ASSUME NEW s, IsSequence(s), NEW kept \in SUBSET (DOMAIN s)
    PROVE  IsSequence(Picked(s, kept))
<1> DEFINE c == Cardinality(kept)
           e(k) == s[CHOOSE i \in kept : Cardinality({j \in kept : j <= i}) = k]
<1>1. Len(s) \in Nat /\ DOMAIN s = 1 .. Len(s)
  BY Appended
<1>2. c \in Nat
  <2>1. IsFiniteSet(1 .. Len(s))
    BY <1>1, FS_Interval
  <2>2. IsFiniteSet(kept)
    BY <1>1, <2>1, FS_Subset
  <2> QED BY <2>2, FS_CardinalityType
<1>3. Picked(s, kept) = [k \in 1 .. c |-> e(k)]
  BY DEF Picked
<1> HIDE DEF c, e
<1>4. /\ Len([k \in 1 .. c |-> e(k)]) = c
      /\ \A k \in 1 .. c : [j \in 1 .. c |-> e(j)][k] = e(k)
  BY <1>2
<1> QED BY <1>2, <1>3, <1>4 DEF IsSequence

(* Places have a last one.                                                 *)
LEMMA LastPlace ==
    ASSUME NEW n \in Nat, NEW I \in SUBSET (1 .. n), I # {}
    PROVE  Max(I) \in I /\ \A i \in I : i <= Max(I)
<1> DEFINE Down == {p \in Nat \X Nat : p[1] < p[2]}
           T == {k \in Nat : n - k \in I}
<1>1. IsWellFoundedOn(Down, Nat)
  BY NatLessThanWellFounded DEF OpToRel
<1>2. T # {} /\ T \subseteq Nat
  <2>1. PICK i \in I : TRUE
    OBVIOUS
  <2>2. n - i \in Nat /\ n - (n - i) = i
    BY <2>1
  <2> QED BY <2>1, <2>2
<1>3. PICK k \in T : \A j \in T : ~(<<j, k>> \in Down)
  <2> HIDE DEF T, Down
  <2> QED BY <1>1, <1>2, WFMin
<1>4. n - k \in I
  OBVIOUS
<1>5. \A i \in I : i <= n - k
  <2> SUFFICES ASSUME NEW i \in I, ~(i <= n - k) PROVE FALSE
    OBVIOUS
  <2>1. k \in Nat /\ n - i \in Nat /\ n - (n - i) = i /\ n - i < k
    OBVIOUS
  <2>2. n - i \in T /\ <<n - i, k>> \in Down
    BY <2>1
  <2> QED BY <1>3, <2>2
<1> QED BY <1>4, <1>5 DEF Max

(* The pair behind all others is the last with its name or its value.      *)
LEMMA LastOfAll ==
    ASSUME NEW n \in Nat, NEW S \in SUBSET (1 .. n)
    PROVE  Max(S \cup {n + 1}) = n + 1
<1> DEFINE T == S \cup {n + 1}
<1>1. n + 1 \in T /\ \A y \in T : y <= n + 1 /\ y \in Int
  OBVIOUS
<1> HIDE DEF T
<1>2. Max(T) \in T /\ \A y \in T : Max(T) >= y
  BY <1>1 DEF Max
<1>3. Max(T) = n + 1
  BY <1>1, <1>2
<1> QED BY <1>3 DEF T

(* A pair with a new name changes the map by name at that name, and a pair *)
(* the map by value at its value.                                          *)
LEMMA MapsFollow ==
    ASSUME NEW s, IsSequence(s), NEW n, NEW v
    PROVE  LET a == Append(s, [value |-> v, name |-> n]) IN
           /\ n \notin NamesOf(s) => ByName(a) = With(ByName(s), n, v)
           /\ ByValue(a) = With(ByValue(s), v, n)
<1> DEFINE e == [value |-> v, name |-> n]
           a == Append(s, e)
           l == Len(s)
<1>1. /\ DOMAIN s = 1 .. l /\ l \in Nat /\ DOMAIN a = 1 .. l + 1
      /\ \A i \in 1 .. l : a[i] = s[i]
      /\ a[l + 1] = e
  BY Appended
<1> HIDE DEF a, l
<1>2. e.value = v /\ e.name = n
  OBVIOUS
<1> HIDE DEF e
<1>3. 1 .. l + 1 = (1 .. l) \cup {l + 1} /\ l + 1 \notin 1 .. l
  BY <1>1
<1>4. NamesOf(a) = NamesOf(s) \cup {n} /\ ValuesOf(a) = ValuesOf(s) \cup {v}
  BY <1>1, <1>2, <1>3 DEF NamesOf, ValuesOf
<1>5. ASSUME n \notin NamesOf(s)
      PROVE  ByName(a) = With(ByName(s), n, v)
  <2>1. ASSUME NEW k \in NamesOf(s)
        PROVE  a[Max({i \in DOMAIN a : a[i].name = k})].value
                 = s[Max({i \in DOMAIN s : s[i].name = k})].value
    <3> DEFINE I == {i \in DOMAIN s : s[i].name = k}
    <3>1. {i \in DOMAIN a : a[i].name = k} = I
      BY <1>1, <1>2, <1>3, <1>5, <2>1
    <3>2. I \in SUBSET (1 .. l) /\ I # {}
      BY <1>1, <2>1 DEF NamesOf
    <3>3. Max(I) \in 1 .. l
      <4> HIDE DEF I
      <4> QED BY <1>1, <3>2, LastPlace
    <3> HIDE DEF I
    <3>4. a[Max(I)] = s[Max(I)]
      BY <1>1, <3>3
    <3> QED BY <3>1, <3>4 DEF I
  <2>2. {i \in DOMAIN a : a[i].name = n} = {} \cup {l + 1}
    BY <1>1, <1>2, <1>3, <1>5 DEF NamesOf
  <2>3. Max({} \cup {l + 1}) = l + 1
    BY <1>1, LastOfAll
  <2>4. a[Max({i \in DOMAIN a : a[i].name = n})].value = v
    BY <1>1, <1>2, <2>2, <2>3
  <2> QED BY <1>4, <1>5, <2>1, <2>4 DEF ByName, With
<1>6. ByValue(a) = With(ByValue(s), v, n)
  <2>1. ASSUME NEW k \in ValuesOf(s), k # v
        PROVE  a[Max({i \in DOMAIN a : a[i].value = k})].name
                 = s[Max({i \in DOMAIN s : s[i].value = k})].name
    <3> DEFINE I == {i \in DOMAIN s : s[i].value = k}
    <3>1. {i \in DOMAIN a : a[i].value = k} = I
      BY <1>1, <1>2, <1>3, <2>1
    <3>2. I \in SUBSET (1 .. l) /\ I # {}
      BY <1>1, <2>1 DEF ValuesOf
    <3>3. Max(I) \in 1 .. l
      <4> HIDE DEF I
      <4> QED BY <1>1, <3>2, LastPlace
    <3> HIDE DEF I
    <3>4. a[Max(I)] = s[Max(I)]
      BY <1>1, <3>3
    <3> QED BY <3>1, <3>4 DEF I
  <2> DEFINE J == {i \in DOMAIN s : s[i].value = v}
  <2>2. {i \in DOMAIN a : a[i].value = v} = J \cup {l + 1}
    BY <1>1, <1>2, <1>3
  <2>3. J \in SUBSET (1 .. l)
    BY <1>1
  <2> HIDE DEF J
  <2>4. Max(J \cup {l + 1}) = l + 1
    BY <1>1, <2>3, LastOfAll
  <2>5. a[Max({i \in DOMAIN a : a[i].value = v})].name = n
    BY <1>1, <1>2, <2>2, <2>4
  <2> QED BY <1>4, <2>1, <2>5 DEF ByValue, With
<1> QED BY <1>5, <1>6 DEF a, e

(* A value added leaves the maps of its tag current.                       *)
LEMMA AddCurrent ==
    ASSUME NEW self, IsTag(self), TagCurrent(self), NEW n, NEW v
    PROVE  IsTag(AddEnumValue(self, n, v)) /\ TagCurrent(AddEnumValue(self, n, v))
<1> DEFINE s == self.values
           a == Append(s, [value |-> v, name |-> n])
           b == IF self.byName = <<>> THEN <<>> ELSE With(self.byName, n, v)
           c == IF self.byValue = <<>> THEN <<>> ELSE With(self.byValue, v, n)
           new == AddEnumValue(self, n, v)
<1>1. CASE n \in NamesOf(s)
  BY <1>1 DEF AddEnumValue
<1>2. CASE n \notin NamesOf(s)
  <2>1. new = [values |-> a, byName |-> b, byValue |-> c]
    BY <1>2 DEF AddEnumValue
  <2>2. IsSequence(s)
    BY DEF IsTag
  <2>3. IsSequence(a)
    BY <2>2, Appended
  <2>4. ByName(a) = With(ByName(s), n, v) /\ ByValue(a) = With(ByValue(s), v, n)
    BY <1>2, <2>2, MapsFollow
  <2>5. b = <<>> \/ b = ByName(a)
    BY <2>4 DEF TagCurrent
  <2>6. c = <<>> \/ c = ByValue(a)
    BY <2>4 DEF TagCurrent
  <2> HIDE DEF a, b, c, new
  <2>7. new.values = a /\ new.byName = b /\ new.byValue = c
    BY <2>1
  <2> QED BY <2>1, <2>3, <2>5, <2>6, <2>7 DEF IsTag, TagCurrent, new
<1> QED BY <1>1, <1>2

(* A deletion drops the maps, or changes nothing.                          *)
LEMMA DeleteCurrent ==
    ASSUME NEW self, IsTag(self), TagCurrent(self), NEW n, NEW v
    PROVE  /\ IsTag(DelEnumName(self, n)) /\ TagCurrent(DelEnumName(self, n))
           /\ IsTag(DelEnumValue(self, v)) /\ TagCurrent(DelEnumValue(self, v))
           /\ IsTag(DelEnumBoth(self, n, v)) /\ TagCurrent(DelEnumBoth(self, n, v))
<1> DEFINE Fresh(s) == [NewTag EXCEPT !.values = s]
<1>1. ASSUME NEW s, IsSequence(s) PROVE IsTag(Fresh(s)) /\ TagCurrent(Fresh(s))
  BY <1>1 DEF NewTag, IsTag, TagCurrent
<1>2. IsSequence(NotNamed(self.values, n)) /\ IsSequence(NotWorth(self.values, v))
  BY Remaining DEF NotNamed, NotWorth, IsTag
<1>3. /\ IsTag(Fresh(NotNamed(self.values, n))) /\ TagCurrent(Fresh(NotNamed(self.values, n)))
      /\ IsTag(Fresh(NotWorth(self.values, v))) /\ TagCurrent(Fresh(NotWorth(self.values, v)))
  BY <1>1, <1>2
<1>4. IsTag(DelEnumName(self, n)) /\ TagCurrent(DelEnumName(self, n))
  BY <1>3 DEF DelEnumName
<1>5. IsTag(DelEnumValue(self, v)) /\ TagCurrent(DelEnumValue(self, v))
  BY <1>3 DEF DelEnumValue
<1>6. IsTag(DelEnumBoth(self, n, v)) /\ TagCurrent(DelEnumBoth(self, n, v))
  BY <1>4 DEF DelEnumBoth
<1> QED BY <1>4, <1>5, <1>6

(* A look-up builds a map, or changes nothing.                             *)
LEMMA LookUpCurrent ==
    ASSUME NEW self, IsTag(self), TagCurrent(self)
    PROVE  /\ IsTag(EnumByName(self)) /\ TagCurrent(EnumByName(self))
           /\ IsTag(EnumByValue(self)) /\ TagCurrent(EnumByValue(self))
<1> DEFINE s == self.values
           f == self.byName
           g == self.byValue
<1>1. self = [values |-> s, byName |-> f, byValue |-> g]
  BY DEF IsTag
<1>2. /\ [self EXCEPT !.byName = ByName(s)] = [values |-> s, byName |-> ByName(s), byValue |-> g]
      /\ [self EXCEPT !.byValue = ByValue(s)] = [values |-> s, byName |-> f, byValue |-> ByValue(s)]
  <2> HIDE DEF s, f, g
  <2> QED BY <1>1
<1>3. IsTag(EnumByName(self)) /\ TagCurrent(EnumByName(self))
  BY <1>2 DEF EnumByName, IsTag, TagCurrent
<1>4. IsTag(EnumByValue(self)) /\ TagCurrent(EnumByValue(self))
  BY <1>2 DEF EnumByValue, IsTag, TagCurrent
<1> QED BY <1>3, <1>4

(* A tag added leaves the maps of its reference current.                   *)
LEMMA AddTagCurrent ==
    ASSUME NEW self, IsReference(self), ReferenceCurrent(self), NEW n, NEW t
    PROVE  IsReference(AddTag(self, n, t)) /\ ReferenceCurrent(AddTag(self, n, t))
<1> DEFINE inst == [name |-> n, tag |-> t]
           all == self.tags
           new == AddTag(self, n, t)
<1>1. inst.name = n /\ inst.tag = t
  OBVIOUS
<1>2. ASSUME NEW f \in MapsByName(all)
      PROVE  With(f, n, inst) \in MapsByName(all \cup {inst})
  <2> HIDE DEF inst, all
  <2>1. {x.name : x \in all \cup {inst}} = {x.name : x \in all} \cup {n}
    BY <1>1
  <2>2. f \in [{x.name : x \in all} -> all] /\ \A k \in DOMAIN f : f[k].name = k
    BY <1>2 DEF MapsByName
  <2>3. With(f, n, inst) \in [{x.name : x \in all} \cup {n} -> all \cup {inst}]
    BY <2>2 DEF With
  <2>4. \A k \in DOMAIN With(f, n, inst) : With(f, n, inst)[k].name = k
    BY <1>1, <2>2 DEF With
  <2> QED BY <2>1, <2>3, <2>4 DEF MapsByName
<1>3. ASSUME NEW f \in MapsByTag(all)
      PROVE  With(f, t, inst) \in MapsByTag(all \cup {inst})
  <2> HIDE DEF inst, all
  <2>1. {x.tag : x \in all \cup {inst}} = {x.tag : x \in all} \cup {t}
    BY <1>1
  <2>2. f \in [{x.tag : x \in all} -> all] /\ \A k \in DOMAIN f : f[k].tag = k
    BY <1>3 DEF MapsByTag
  <2>3. With(f, t, inst) \in [{x.tag : x \in all} \cup {t} -> all \cup {inst}]
    BY <2>2 DEF With
  <2>4. \A k \in DOMAIN With(f, t, inst) : With(f, t, inst)[k].tag = k
    BY <1>1, <2>2 DEF With
  <2> QED BY <2>1, <2>3, <2>4 DEF MapsByTag
<1>4. new = [tags   |-> all \cup {inst},
             byName |-> IF self.byName = <<>> THEN <<>> ELSE With(self.byName, n, inst),
             byTag  |-> IF self.byTag = <<>> THEN <<>> ELSE With(self.byTag, t, inst)]
  BY DEF AddTag
<1> HIDE DEF new
<1>5. /\ new.tags = all \cup {inst}
      /\ new.byName = IF self.byName = <<>> THEN <<>> ELSE With(self.byName, n, inst)
      /\ new.byTag = IF self.byTag = <<>> THEN <<>> ELSE With(self.byTag, t, inst)
      /\ IsReference(new)
  BY <1>4 DEF IsReference
<1>6. new.byName = <<>> \/ new.byName \in MapsByName(new.tags)
  <2> HIDE DEF inst
  <2> QED BY <1>2, <1>5 DEF ReferenceCurrent
<1>7. new.byTag = <<>> \/ new.byTag \in MapsByTag(new.tags)
  <2> HIDE DEF inst
  <2> QED BY <1>3, <1>5 DEF ReferenceCurrent
<1> QED BY <1>5, <1>6, <1>7 DEF new, ReferenceCurrent

(* A look-up in a reference may build either of two maps for one name.     *)
LEMMA LookUpTagCurrent ==
    ASSUME NEW self, IsReference(self), ReferenceCurrent(self),
           NEW new \in LooksByName(self) \cup LooksByTag(self)
    PROVE  IsReference(new) /\ ReferenceCurrent(new)
<1> DEFINE all == self.tags
           f == self.byName
           g == self.byTag
<1>1. self = [tags |-> all, byName |-> f, byTag |-> g]
  BY DEF IsReference
<1>2. CASE new = self
  BY <1>2
<1>3. ASSUME NEW h \in MapsByName(all), new = [self EXCEPT !.byName = h]
      PROVE  IsReference(new) /\ ReferenceCurrent(new)
  <2>1. new = [tags |-> all, byName |-> h, byTag |-> g]
    <3> HIDE DEF all, f, g
    <3> QED BY <1>1, <1>3
  <2> QED BY <1>3, <2>1 DEF IsReference, ReferenceCurrent
<1>4. ASSUME NEW h \in MapsByTag(all), new = [self EXCEPT !.byTag = h]
      PROVE  IsReference(new) /\ ReferenceCurrent(new)
  <2>1. new = [tags |-> all, byName |-> f, byTag |-> h]
    <3> HIDE DEF all, f, g
    <3> QED BY <1>1, <1>4
  <2> QED BY <1>4, <2>1 DEF IsReference, ReferenceCurrent
<1>5. \/ new = self
      \/ \E h \in MapsByName(all) : new = [self EXCEPT !.byName = h]
      \/ \E h \in MapsByTag(all) : new = [self EXCEPT !.byTag = h]
  BY DEF LooksByName, LooksByTag
<1> QED BY <1>2, <1>3, <1>4, <1>5

-----------------------------------------------------------------------------
(* A new tag and a new reference have no maps.                             *)
LEMMA TagsInitInv == TagsInit => TagsInv
<1> SUFFICES ASSUME TagsInit PROVE TagsInv
  OBVIOUS
<1>1. IsSequence(<<>>)
  BY DEF IsSequence
<1> QED BY <1>1 DEF TagsInit, NewTag, NewReference, TagsInv, IsTag, IsReference, TagCurrent,
                    ReferenceCurrent

(* Every edit and every look-up preserves the invariant.                   *)
LEMMA TagsNextInv == TagsInv /\ [TagsNext]_tags => TagsInv'
<1> SUFFICES ASSUME TagsInv, [TagsNext]_tags PROVE TagsInv'
  OBVIOUS
<1> USE DEF TagsInv
<1>1. CASE EditsEnum
  <2>1. PICK n \in Names, v \in Names :
          tag' \in {AddEnumValue(tag, n, v), DelEnumName(tag, n), DelEnumValue(tag, v),
                    DelEnumBoth(tag, n, v)}
    BY <1>1 DEF EditsEnum
  <2>2. IsTag(tag') /\ TagCurrent(tag')
    BY <2>1, AddCurrent, DeleteCurrent
  <2>3. ref' = ref
    BY <1>1 DEF EditsEnum
  <2> QED BY <2>2, <2>3 DEF IsTag, TagCurrent, IsReference, ReferenceCurrent
<1>2. CASE LooksUpEnum
  <2>1. tag' = EnumByName(tag) \/ tag' = EnumByValue(tag)
    BY <1>2 DEF LooksUpEnum
  <2>2. IsTag(tag') /\ TagCurrent(tag')
    BY <2>1, LookUpCurrent
  <2>3. ref' = ref
    BY <1>2 DEF LooksUpEnum
  <2> QED BY <2>2, <2>3 DEF IsTag, TagCurrent, IsReference, ReferenceCurrent
<1>3. CASE AddsTag
  <2>1. PICK n \in Names, t \in Names : ref' = AddTag(ref, n, t)
    BY <1>3 DEF AddsTag
  <2>2. IsReference(ref') /\ ReferenceCurrent(ref')
    BY <2>1, AddTagCurrent
  <2>3. tag' = tag
    BY <1>3 DEF AddsTag
  <2> QED BY <2>2, <2>3 DEF IsTag, TagCurrent, IsReference, ReferenceCurrent
<1>4. CASE LooksUpTag
  <2>1. ref' \in LooksByName(ref) \cup LooksByTag(ref)
    BY <1>4 DEF LooksUpTag
  <2>2. IsReference(ref') /\ ReferenceCurrent(ref')
    BY <2>1, LookUpTagCurrent
  <2>3. tag' = tag
    BY <1>4 DEF LooksUpTag
  <2> QED BY <2>2, <2>3 DEF IsTag, TagCurrent, IsReference, ReferenceCurrent
<1>5. CASE UNCHANGED tags
  BY <1>5 DEF tags, IsTag, TagCurrent, IsReference, ReferenceCurrent
<1> QED BY <1>1, <1>2, <1>3, <1>4, <1>5 DEF TagsNext

(* The maps of a tag and of a reference are current whatever the           *)
(* application added, deleted and looked up before.                        *)
THEOREM MapsCurrent == TagsSpec => []CachesCurrent
<1>1. TagsInv => CachesCurrent
  BY DEF TagsInv, TagCurrent, ReferenceCurrent, CachesCurrent
<1> QED BY TagsInitInv, TagsNextInv, <1>1, PTL DEF TagsSpec
=============================================================================
