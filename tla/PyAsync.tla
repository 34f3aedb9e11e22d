------------------------------- MODULE PyAsync -------------------------------
(***************************************************************************)
(* The Python engine over its asynchronous store                           *)
(* (fixengine/database_message_store_aiosqlite.py), step by step of the    *)
(* event loop.                                                             *)
(*                                                                         *)
(* With the synchronous store a send runs in one piece (PyEngine).  This   *)
(* store suspends its caller while a worker thread executes a statement,   *)
(* so the receive task, the heartbeat task and the application's tasks     *)
(* meet at the store's lock: a task reads the next number, writes the      *)
(* message to the connection at once, and then keeps and counts it, each   *)
(* under the lock, which is handed over in order of arrival.               *)
(*                                                                         *)
(* The record w is the whole system: the session (up), the counters in     *)
(* memory (in, out), the sessions row on disk (row), the database          *)
(* connection (conn), the lock with the tasks that wait for it (lock, its  *)
(* head the holder; taken once the holder has woken; done once the thread  *)
(* has executed its statement), what each task is in the middle of (op),   *)
(* the numbers sent (wire) and the numbers handed to the application       *)
(* (handed).  The record past remembers what a property has to know of     *)
(* earlier steps.                                                          *)
(***************************************************************************)
EXTENDS Integers, Sequences, FiniteSets

CONSTANTS
    Apps,           \* the tasks of the application
    Reader,         \* the receive task
    Hb,             \* the heartbeat task
    MaxSeq,         \* bounds the numbers
    MaxRestarts     \* bounds the processes

ASSUME TasksDiffer == Reader # Hb /\ {Reader, Hb} \cap Apps = {}
ASSUME BoundsAreNaturals == MaxSeq \in Nat /\ MaxRestarts \in Nat

Tasks == Apps \cup {Reader, Hb}

VARIABLES w, past

vars == <<w, past>>

Idle == [t \in Tasks |-> "none"]

Init ==
    /\ w = [up |-> FALSE, in |-> 1, out |-> 1, row |-> <<1, 1>>, conn |-> "open",
            lock |-> <<>>, taken |-> FALSE, done |-> FALSE, op |-> Idle,
            wire |-> <<>>, handed |-> <<>>]
    /\ past = [loose |-> FALSE, unsaved |-> FALSE, rolled |-> FALSE,
               dropped |-> {}, restarts |-> 0]

Ops == {"none", "keep", "count", "keepIn", "countIn", "leave", "shut", "close"}

System ==
    [up : BOOLEAN, in : Nat \ {0}, out : Nat \ {0}, row : (Nat \ {0}) \X (Nat \ {0}),
     conn : {"open", "closing", "closed"}, lock : Seq(Tasks), taken : BOOLEAN,
     done : BOOLEAN, op : [Tasks -> Ops], wire : Seq(Nat), handed : Seq(Nat)]

Past == [loose : BOOLEAN, unsaved : BOOLEAN, rolled : BOOLEAN,
         dropped : SUBSET Nat, restarts : 0 .. MaxRestarts]

TypeOK == w \in System /\ past \in Past

-----------------------------------------------------------------------------
(* What a task does between two of its awaits.                             *)
Released(v) == [v EXCEPT !.lock = Tail(@), !.taken = FALSE, !.done = FALSE]

HandedUp(v) == [v EXCEPT !.handed = Append(@, v.in - 1)]

(* The operation is over: send_message returns; a message received and     *)
(* counted is handed up.                                                   *)
Over(v, t) ==
    LET u == [v EXCEPT !.op[t] = "none"] IN
    IF v.op[t] = "countIn" THEN HandedUp(u) ELSE u

(* The increments change the counter in memory as soon as they have the    *)
(* lock.                                                                   *)
Incremented(v, o) ==
    CASE o = "count"   -> [v EXCEPT !.out = @ + 1]
      [] o = "countIn" -> [v EXCEPT !.in = @ + 1]
      [] OTHER         -> v

(* The holder goes on.  shutdown only passes through the lock, and close   *)
(* closes what is open.  Without a connection a count stays in memory; on  *)
(* one that is closing, and for a message to keep on one that is gone, the *)
(* statement raises, and the task drops what it was doing.                 *)
Taken(v) ==
    LET t == Head(v.lock)
        o == v.op[t]
        counted == Incremented(v, o)
    IN  CASE o = "shut" /\ v.conn = "open" ->
               [Released(v) EXCEPT !.op[t] = "close", !.conn = "closing"]
          [] o = "shut" /\ v.conn # "open" -> [Released(v) EXCEPT !.op[t] = "none"]
          [] o # "shut" /\ v.conn = "open" -> [counted EXCEPT !.taken = TRUE]
          [] o \in {"count", "countIn"} /\ v.conn = "closed" -> Over(Released(counted), t)
          [] OTHER -> [Released(counted) EXCEPT !.op[t] = "none"]

(* async with self._lock: at once when nobody holds it or waits for it.    *)
Acquires(v, t, o) ==
    LET u == [v EXCEPT !.lock = Append(@, t), !.op[t] = o] IN
    IF v.lock = <<>> THEN Taken(u) ELSE u

-----------------------------------------------------------------------------
(* Messages written to a connection whose number is not counted yet, in    *)
(* memory or on disk.                                                      *)
Uncounted(v, t) ==
    v.op[t] = "keep" \/ (v.op[t] = "count" /\ ~(v.taken /\ Head(v.lock) = t))

Unsaved(v, t) == Uncounted(v, t) \/ (v.op[t] = "count" /\ ~v.done)

(* A count that stays in memory.                                           *)
CountsInMemory(v) == (v.in # w.in \/ v.out # w.out) /\ v.conn # "open"

(* send_message: the number is read and the message is on the wire before  *)
(* the first await that suspends; store_message comes next, unless the     *)
(* store is closed.                                                        *)
send_message(t) ==
    /\ w.up /\ w.op[t] = "none"
    /\ Len(w.wire) < MaxSeq /\ w.out <= MaxSeq
    /\ LET v == [w EXCEPT !.wire = Append(@, w.out)] IN
       w' = Acquires(v, t, IF w.conn = "closed" THEN "count" ELSE "keep")
    /\ past' = [past EXCEPT !.loose = @ \/ \E u \in Tasks : Uncounted(w, u),
                            !.unsaved = @ \/ CountsInMemory(w')]

(* process_single_fix_message, for the next number: kept, counted, handed  *)
(* up, one after the other.                                                *)
process_single_fix_message ==
    /\ w.up /\ w.op[Reader] = "none"
    /\ w.in <= MaxSeq
    /\ w' = Acquires(w, Reader, IF w.conn = "closed" THEN "countIn" ELSE "keepIn")
    /\ past' = [past EXCEPT !.unsaved = @ \/ CountsInMemory(w')]

(* A task that waited wakes up as the holder.  What it raises costs a      *)
(* message that is sent its count, and a message received its hand-up.     *)
Wakes ==
    /\ w.lock # <<>> /\ ~w.taken
    /\ LET t == Head(w.lock) IN
       /\ w' = Taken(w)
       /\ past' = [past EXCEPT
             !.loose = @ \/ (w.op[t] = "keep" /\ w.conn # "open"),
             !.unsaved = @ \/ CountsInMemory(w'),
             !.dropped = @ \cup (IF w.op[t] = "countIn" /\ w.conn = "closing"
                                   THEN {w.in} ELSE {})]

(* A slip: saves one of the counters only.                                 *)
RowOutOnly == <<w.row[1], w.out>>

(* save_sequence_numbers: both counters, whichever has changed.            *)
Saved == <<w.in, w.out>>

(* The worker thread executes and commits the holder's statement.          *)
Executes ==
    /\ w.taken /\ ~w.done
    /\ w' = [w EXCEPT !.done = TRUE,
                      !.row = IF w.op[Head(w.lock)] \in {"count", "countIn"}
                                THEN Saved ELSE @]
    /\ UNCHANGED past

(* A slip: a message that is sent is not counted.                          *)
FollowUpUncounted(v, t) ==
    IF v.op[t] = "keepIn" THEN Acquires(v, t, "countIn") ELSE Over(v, t)

(* What follows a statement: the count follows the keeping.                *)
FollowUp(v, t) ==
    CASE v.op[t] = "keep"   -> Acquires(v, t, "count")
      [] v.op[t] = "keepIn" -> Acquires(v, t, "countIn")
      [] OTHER              -> Over(v, t)

(* The holder resumes after its statement.                                 *)
Resumes ==
    /\ w.taken /\ w.done
    /\ w' = FollowUp(Released(w), Head(w.lock))
    /\ UNCHANGED past

(* disconnect, of the application or of the receive task (a timeout's is   *)
(* PyConn's): the state changes and the network goes down at once ...      *)
disconnect(t) ==
    /\ t # Hb /\ w.up /\ w.op[t] = "none"
    /\ w' = [w EXCEPT !.up = FALSE, !.op[t] = "leave"]
    /\ UNCHANGED past

(* What is left of a queue when a task leaves it.                          *)
Without(s, t) ==
    IF \E i \in 1 .. Len(s) : s[i] = t
      THEN LET k == CHOOSE i \in 1 .. Len(s) : s[i] = t IN
           SubSeq(s, 1, k - 1) \o SubSeq(s, k + 1, Len(s))
      ELSE s

(* ... Heartbeat.stop cancels the heartbeat task wherever it is suspended  *)
(* (a statement under way is left to the thread and may not be committed), *)
(* and the store is closed.                                                *)
CancelledHb(v) ==
    LET rest == Without(v.lock, Hb)
        held == v.lock # <<>> /\ Head(v.lock) = Hb
    IN  [v EXCEPT !.op[Hb] = "none", !.lock = rest,
                  !.taken = @ /\ ~held, !.done = @ /\ ~held]

stop(t) ==
    /\ w.op[t] = "leave"
    /\ w' = Acquires(CancelledHb(w), t, "shut")
    /\ past' = [past EXCEPT !.loose = @ \/ Uncounted(w, Hb),
                            !.unsaved = @ \/ (Unsaved(w, Hb) /\ ~Uncounted(w, Hb))]

close(t) ==
    /\ w.op[t] = "close"
    /\ w' = [w EXCEPT !.conn = "closed", !.op[t] = "none"]
    /\ UNCHANGED past

(* start and logon, once the tasks of the last connection have ended: the  *)
(* Logon is a message like any other, unless it resets.                    *)
start(t) ==
    /\ ~w.up /\ w.op = Idle
    /\ Len(w.wire) < MaxSeq /\ w.out <= MaxSeq
    /\ LET v == [w EXCEPT !.up = TRUE, !.wire = Append(@, w.out)] IN
       w' = Acquires(v, t, IF w.conn = "closed" THEN "count" ELSE "keep")
    /\ past' = [past EXCEPT !.unsaved = @ \/ CountsInMemory(w')]

(* The process dies and another one starts: initialize opens the database  *)
(* and reads the row.                                                      *)
Restart ==
    /\ past.restarts < MaxRestarts
    /\ w' = [w EXCEPT !.up = FALSE, !.in = w.row[1], !.out = w.row[2], !.conn = "open",
                      !.lock = <<>>, !.taken = FALSE, !.done = FALSE, !.op = Idle]
    /\ past' = [past EXCEPT
          !.restarts = @ + 1,
          !.loose = @ \/ past.unsaved \/ \E t \in Tasks : Unsaved(w, t),
          !.rolled = @ \/ past.unsaved,
          !.unsaved = FALSE,
          !.dropped = @ \cup (IF w.op[Reader] = "countIn" /\ w.done /\ Head(w.lock) = Reader
                                THEN {w.row[1] - 1} ELSE {})]

Next ==
    \/ \E t \in Tasks : send_message(t) \/ disconnect(t) \/ stop(t) \/ close(t)
    \/ \E t \in Apps : start(t)
    \/ process_single_fix_message
    \/ Wakes \/ Executes \/ Resumes
    \/ Restart

Spec == Init /\ [][Next]_vars

-----------------------------------------------------------------------------
(* Numbers are used one after the other, across reconnects and restarts    *)
(* (prd.md:95), as long as no send began before another one had counted    *)
(* its number, none was cut short by the heartbeat's cancellation, a       *)
(* closing store or the end of the process, and no process ended with      *)
(* counts that were only in its memory.                                    *)
SentInSequence ==
    ~past.loose => \A i \in 1 .. Len(w.wire) : w.wire[i] = i

(* "All sequence number logic ... is now fully async-aware"                *)
(* (fix_session_logic.md:163): no two messages go out with one number      *)
(* within the life of a process.  They do when a task sends while another  *)
(* has not counted its number yet.                                         *)
NumbersUsedOnce ==
    past.restarts = 0 =>
        \A i, j \in 1 .. Len(w.wire) : i # j => w.wire[i] # w.wire[j]

(* "MUST maintain sequence number state across restarts" (prd.md:95): with *)
(* a session up, no task at work on the store, and no send cut short or    *)
(* begun beside another, the row is what memory holds.  After a disconnect,*)
(* which closes the store, and a reconnect, which does not open it, it is  *)
(* not, and a restart would go back.                                       *)
SavedWhileUp ==
    ~past.loose /\ w.up /\ w.op = Idle => w.row = <<w.in, w.out>>

(* A message received is handed to the application at most once and in     *)
(* order, across restarts too: it is counted on disk before it is handed   *)
(* up.  One that is counted and never handed up is the one the reader is   *)
(* at, or one that the end of the process or of the store took from it.    *)
HandedUpOnce ==
    ~past.rolled =>
        /\ \A i, j \in 1 .. Len(w.handed) : i < j => w.handed[i] < w.handed[j]
        /\ \A n \in 1 .. w.in - 1 :
             \/ \E i \in 1 .. Len(w.handed) : w.handed[i] = n
             \/ n \in past.dropped
             \/ w.op[Reader] = "countIn" /\ n = w.in - 1
=============================================================================
