----------------------------- MODULE SeqManager -----------------------------
(***************************************************************************)
(* The sequence-number manager of one FIX session (engine/seqnum.go) and   *)
(* the row of the sessions table it persists to (store/sqlite.go).         *)
(*                                                                         *)
(* Every operation changes its counter and takes a snapshot of both        *)
(* counters under the mutex, and only after the unlock hands that snapshot *)
(* to Store.SaveSessionSeq.  The two halves of a call are therefore two    *)
(* actions, and the saves of two callers may reach the store in an order   *)
(* other than the one in which the counters changed.                       *)
(***************************************************************************)
EXTENDS Integers, FiniteSets

CONSTANTS
    Callers,      \* goroutines that use the manager (senders, readLoop, scheduler)
    MaxSeq,       \* bound: no operation takes a counter above this number
    MaxRestarts,  \* bound: how often the process dies and starts again
    SetValues,    \* the numbers SetIncoming and SetOutgoing are called with
    Faults        \* which store operations may fail: "read", "write"

ASSUME SeqManagerAssumption ==
    /\ MaxSeq \in Nat
    /\ MaxRestarts \in Nat
    /\ SetValues \subseteq -1 .. MaxSeq
    /\ Faults \subseteq {"read", "write"}

VARIABLES
    inSeq,     \* SeqManager.in: the last number received
    outSeq,    \* SeqManager.out: the last number handed out
    row,       \* the persisted pair; a missing row reads as 0, 0
    call,      \* for each caller, the call it is in and the snapshot it took
    restarts,  \* process restarts so far
    issued,    \* history: numbers IncrementOutgoing returned, less those a
               \* later SetOutgoing gave back
    clean,     \* history: no two calls have overlapped and no load has failed
    unsaved    \* history: the last save failed

seqVars == <<inSeq, outSeq, row, call, restarts, issued, clean, unsaved>>

Numbers == -1 .. MaxSeq
Ops  == {"none", "IncrementOutgoing", "IncrementIncoming", "SetOutgoing", "SetIncoming"}
Row  == [out : Numbers, in : Numbers]
Call == [op : Ops, vOut : Numbers, vIn : Numbers]
Idle == [op |-> "none", vOut |-> 0, vIn |-> 0]

SeqTypeOK ==
    /\ inSeq \in Numbers
    /\ outSeq \in Numbers
    /\ row \in Row
    /\ call \in [Callers -> Call]
    /\ restarts \in 0 .. MaxRestarts
    /\ issued \subseteq Numbers
    /\ clean \in BOOLEAN
    /\ unsaved \in BOOLEAN

SeqInit ==
    /\ inSeq = 0
    /\ outSeq = 0
    /\ row = [out |-> 0, in |-> 0]
    /\ call = [c \in Callers |-> Idle]
    /\ restarts = 0
    /\ issued = {}
    /\ clean = TRUE
    /\ unsaved = FALSE

-----------------------------------------------------------------------------
(* The locked half of a call: the counters take their new values and the   *)
(* caller keeps a snapshot of both.                                        *)
Locked(c, op, newOut, newIn) ==
    /\ call[c] = Idle
    /\ outSeq' = newOut
    /\ inSeq' = newIn
    /\ call' = [call EXCEPT ![c] = [op |-> op, vOut |-> newOut, vIn |-> newIn]]
    /\ clean' = (clean /\ \A d \in Callers : call[d] = Idle)
    /\ UNCHANGED <<row, restarts, unsaved>>

IncrementOutgoing(c) ==
    /\ outSeq < MaxSeq
    /\ Locked(c, "IncrementOutgoing", outSeq + 1, inSeq)
    /\ UNCHANGED issued

IncrementIncoming(c) ==
    /\ inSeq < MaxSeq
    /\ Locked(c, "IncrementIncoming", outSeq, inSeq + 1)
    /\ UNCHANGED issued

(* A caller that sets the outgoing number gives the numbers above it back. *)
SetOutgoing(c, n) ==
    /\ Locked(c, "SetOutgoing", n, inSeq)
    /\ issued' = {k \in issued : k <= n}

SetIncoming(c, n) ==
    /\ Locked(c, "SetIncoming", outSeq, n)
    /\ UNCHANGED issued

-----------------------------------------------------------------------------
(* Slips the properties must notice: swapped arguments of SaveSessionSeq;  *)
(* only the outgoing column written.                                       *)
SavedSwapped(c) == row' = [out |-> call[c].vIn, in |-> call[c].vOut]
SavedOutOnly(c) == row' = [row EXCEPT !.out = call[c].vOut]

(* The unlocked half: INSERT OR REPLACE of the snapshot, then the return.  *)
SaveSessionSeq(c) == row' = [out |-> call[c].vOut, in |-> call[c].vIn]

Saved(c) ==
    /\ call[c].op # "none"
    /\ SaveSessionSeq(c)
    /\ issued' = IF call[c].op = "IncrementOutgoing"
                   THEN issued \cup {call[c].vOut} ELSE issued
    /\ call' = [call EXCEPT ![c] = Idle]
    /\ unsaved' = FALSE
    /\ UNCHANGED <<inSeq, outSeq, restarts, clean>>

(* The store returns an error: the call reports it, the counter stays      *)
(* where the locked half put it and the row is as it was.                  *)
SaveFailed(c) ==
    /\ "write" \in Faults
    /\ call[c].op # "none"
    /\ call' = [call EXCEPT ![c] = Idle]
    /\ unsaved' = TRUE
    /\ UNCHANGED <<inSeq, outSeq, row, restarts, issued, clean>>

-----------------------------------------------------------------------------
(* NewSeqManager keeps a persisted number only when it is above zero.      *)
Loaded(n) == IF n > 0 THEN n ELSE 0

(* The process dies wherever its callers are; the next one starts with     *)
(* NewSeqManager, which reads the row, or goes on from zero if it cannot.  *)
NewSeqManager(read) ==
    /\ restarts < MaxRestarts
    /\ read \/ "read" \in Faults
    /\ restarts' = restarts + 1
    /\ outSeq' = IF read THEN Loaded(row.out) ELSE 0
    /\ inSeq' = IF read THEN Loaded(row.in) ELSE 0
    /\ call' = [c \in Callers |-> Idle]
    /\ clean' = (clean /\ read)
    /\ unsaved' = FALSE
    /\ UNCHANGED <<row, issued>>

Operation(c) ==
    \/ IncrementOutgoing(c)
    \/ IncrementIncoming(c)
    \/ \E n \in SetValues : SetOutgoing(c, n) \/ SetIncoming(c, n)
    \/ Saved(c)
    \/ SaveFailed(c)

SeqNext ==
    \/ \E c \in Callers : Operation(c)
    \/ \E read \in BOOLEAN : NewSeqManager(read)

SeqSpec == SeqInit /\ [][SeqNext]_seqVars

-----------------------------------------------------------------------------
(* The number the next IncrementOutgoing returns was not returned before:  *)
(* the persistence that "survives restarts" (doc/plan.md:51) means that no *)
(* restart takes the outgoing counter below a number already handed out.   *)
NextNumberFresh == \A k \in issued : k <= outSeq

(* What the code does guarantee: as long as no two calls overlapped        *)
(* between their unlock and their save and every load succeeded, numbers   *)
(* stay fresh through write failures, resets and restarts at any point.    *)
FreshUnlessOverlapped == clean => NextNumberFresh

(* "All sequence operations trigger store updates" (doc/task.md:73): once  *)
(* no call is in progress the row is what a restart must find, both        *)
(* numbers of it, unless calls overlapped or the last save failed.         *)
RowCurrentWhenQuiet ==
    (clean /\ ~unsaved /\ \A c \in Callers : call[c] = Idle) =>
        /\ outSeq = Loaded(row.out) \/ outSeq = row.out
        /\ inSeq = Loaded(row.in) \/ inSeq = row.in
=============================================================================
