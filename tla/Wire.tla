-------------------------------- MODULE Wire --------------------------------
(***************************************************************************)
(* Messages on their way from ToWire at one end of a TCP connection to     *)
(* OnMessage at the other: module Framing cuts the frames off the stream,  *)
(* and readLoop parses each of them with codec.New(nil).                   *)
(***************************************************************************)
EXTENDS Codec, Framing

CONSTANT File   \* the dictionary file that GroupsReadBack reads with

VARIABLE delivered   \* the messages handed to OnMessage or the Processor

vars == <<framingVars, delivered>>
-----------------------------------------------------------------------------
\* SetLenAndChecksum: a message with tags 9 and 10, and what Framing writes.
Stamped(m) ==
    LET parts == [begin |-> m[8].text,
                  body |-> Bytes(Fields(RestrictDomain(m, LAMBDA t : t \notin {8, 9, 10})))]
    IN  [message |-> (9 :> [text |-> Itoa(Len(parts.body))])
                     @@ (10 :> [text |-> ThreeDigits(Checksum(Summed(parts)))])
                     @@ m] @@ parts

\* What is sent was stamped, and Serialise writes it the way Framing has it:
\* canonical order puts 8 and 9 first and 10 last.
ASSUME WireAssumption ==
    \A m \in Messages : m = Stamped(m.message) /\ Serialise(m.message) = ToWire(m)
-----------------------------------------------------------------------------
Init == FramingInit /\ delivered = <<>>

\* A frame that was cut off is parsed and dispatched; a frame that does not
\* parse is logged, and the loop goes on.
Dispatch ==
    /\ CutsOff
    /\ delivered' = delivered \o Parse(NoSpec, Last(cut'))

Reads == \E n \in 1 .. ReadSize : ReadBytes(n)

Next ==
    \/ Dispatch
    \/ (Reads \/ Incomplete \/ ReadEnds) /\ UNCHANGED delivered

Spec == Init /\ [][Next]_vars
-----------------------------------------------------------------------------
\* A message of plain fields: no groups and no separator in a text.
Plain(m) == \A t \in DOMAIN m : ~IsGroup(m[t]) /\ SOH \notin ToSet(m[t].text)

\* Every plain message whose frame was cut off is delivered once, in order
\* and as it was stamped by ToWire, whatever the other messages contain.
ReceivedAsSent ==
    LET plain == SelectSeq([k \in DOMAIN cut |-> sent[k].message], Plain)
    IN  SelectSeq(delivered, LAMBDA m : m \in ToSet(plain)) = plain

\* A fragment fits the groups of a dictionary when every member of a group
\* has the group's first tag, which sorts before its other tags, when members
\* hold tags of the group only, and when no tag of a group occurs around it.
RECURSIVE Fits(_, _, _)
Fits(f, groups, around) ==
    /\ DOMAIN groups \cap DOMAIN f = {t \in DOMAIN f : IsGroup(f[t])}
    /\ \A t \in DOMAIN groups \cap DOMAIN f :
        LET gs == groups[t]
        IN  /\ gs.tags \cap (DOMAIN f \cup around) = {}
            /\ \A j \in DOMAIN f[t].members :
                LET member == f[t].members[j]
                IN  /\ gs.first \in DOMAIN member /\ ~IsGroup(member[gs.first])
                    /\ \A u \in DOMAIN member : TagKey(gs.first) <= TagKey(u)
                    /\ DOMAIN member \subseteq gs.tags
                    /\ Fits(member, gs.nested, gs.tags \cup DOMAIN f \cup around)

Spec35(m) == Loaded(File)[m[35].text]

Known(m) == 35 \in DOMAIN m /\ m[35].text \in DOMAIN File.messages

\* Read with a dictionary, the frame of a message that fits it gives the
\* message back: every member of every group, nested groups included.
GroupsReadBack ==
    \A k \in DOMAIN cut :
        LET m == sent[k].message
        IN  /\ Known(m)
            /\ Fits(m, Spec35(m), {})
            /\ \A t \in DOMAIN m : IsGroup(m[t]) \/ SOH \notin ToSet(m[t].text)
            => Parse(Loaded(File), cut[k]) = <<m>>
=============================================================================
