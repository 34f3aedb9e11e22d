------------------------------ MODULE FrameLink ------------------------------
(***************************************************************************)
(* What a Session promises the engine about outgoing frames: frames are    *)
(* written in the order in which Send accepted them, none twice and none   *)
(* skipped, and once the link is down nothing is accepted or written.  A   *)
(* link that closes may lose the frames it has accepted and not written.   *)
(***************************************************************************)
EXTENDS Naturals, Sequences

CONSTANT Frames

VARIABLES accepted, written, down

linkVars == <<accepted, written, down>>

Init ==
    /\ accepted = <<>>
    /\ written = <<>>
    /\ down = FALSE

Accept(f) ==
    /\ ~down
    /\ accepted' = Append(accepted, f)
    /\ UNCHANGED <<written, down>>

Write ==
    /\ ~down
    /\ Len(written) < Len(accepted)
    /\ written' = Append(written, accepted[Len(written) + 1])
    /\ UNCHANGED <<accepted, down>>

GoDown ==
    /\ ~down
    /\ down' = TRUE
    /\ UNCHANGED <<accepted, written>>

Next ==
    \/ \E f \in Frames : Accept(f)
    \/ Write
    \/ GoDown

Spec == Init /\ [][Next]_linkVars
=============================================================================
