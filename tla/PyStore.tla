------------------------------ MODULE PyStore -------------------------------
(***************************************************************************)
(* The message stores of the Python engine, as operations on a record:     *)
(* fixengine/database_message_store.py and, with the same schema and the   *)
(* same operations, database_message_store_aiosqlite.py.                   *)
(*                                                                         *)
(* The counters are the next numbers to receive and to send.  They live in *)
(* memory and are written through to the sessions table by every change,   *)
(* under the store's lock, as long as the database is open: once it is     *)
(* closed a change is kept in memory and lost with the process.  Messages  *)
(* are kept in one table, keyed by the sender and the number, a later one  *)
(* replacing an earlier one.                                               *)
(***************************************************************************)
EXTENDS Integers

(* A row of the sessions table; {} stands for a table without the row.     *)
NoRow == {}

NewStore == [in |-> 1, out |-> 1, open |-> TRUE, row |-> NoRow, kept |-> {}]

(* save_sequence_numbers: a failed write is logged and forgotten.          *)
Save(s) == IF s.open THEN [s EXCEPT !.row = {<<s.in, s.out>>}] ELSE s

(* load_sequence_numbers.                                                  *)
Load(s) == IF s.row = NoRow THEN <<1, 1>> ELSE CHOOSE r \in s.row : TRUE

(* A new process: the constructor opens the database, initialize reads the *)
(* counters.                                                               *)
Reopened(s) ==
    LET r == Load(s) IN [s EXCEPT !.in = r[1], !.out = r[2], !.open = TRUE]

IncrementIn(s)  == Save([s EXCEPT !.in = @ + 1])
IncrementOut(s) == Save([s EXCEPT !.out = @ + 1])

(* The database store refuses a number below 1; the aiosqlite store, which *)
(* checks nothing, is only given what the engine passes on.                *)
Settable(n) == n >= 1

SetIn(s, n)  == IF Settable(n) THEN Save([s EXCEPT !.in = n]) ELSE s
SetOut(s, n) == IF Settable(n) THEN Save([s EXCEPT !.out = n]) ELSE s

ResetNumbers(s) == Save([s EXCEPT !.in = 1, !.out = 1])

(* get_current_outgoing_sequence_number: the number used last.             *)
LastOut(s) == IF s.out > 1 THEN s.out - 1 ELSE 0

(* store_message: of the engine's own messages; the rows of the peer's,     *)
(* which nothing reads, are left out.                                      *)
Keep(s, seq, type) ==
    IF s.open THEN [s EXCEPT !.kept = {k \in @ : k.seq # seq} \cup {[seq |-> seq, type |-> type]}]
    ELSE s

(* get_message: the row for the number, none once the database is closed.  *)
Kept(s, seq) == IF s.open THEN {k \in s.kept : k.seq = seq} ELSE {}

Close(s) == [s EXCEPT !.open = FALSE]
=============================================================================
