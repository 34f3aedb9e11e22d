------------------------------ MODULE Framing ------------------------------
(***************************************************************************)
(* Frames on their way through a TCP connection: ToWire writes a message   *)
(* with its length and its checksum, readLoop of engine/session reads what *)
(* arrives and cuts frames off its buffer by their BodyLength.             *)
(*                                                                         *)
(* The peer's writes are one stream of bytes, chosen at the start; TCP     *)
(* delivers it in pieces of any size, which is also all that the times of  *)
(* the writes could change.  How a session ends is the subject of module   *)
(* Session; here it may end between any two reads.                         *)
(***************************************************************************)
EXTENDS FixBytes, SequencesExt

CONSTANTS
    Messages,   \* what is written: m.begin the text of tag 8, m.body the
                \* bytes of all fields but 8, 9 and 10
    Bursts,     \* the sequences of messages a peer may send
    ReadSize    \* the length of tmp, the buffer of one Read

ASSUME FramingAssumption ==
    /\ ReadSize \in Nat \ {0}
    /\ Bursts \subseteq Seq(Messages)
    /\ \A m \in Messages : m.begin \in Seq(Byte \ {SOH}) /\ m.body \in Seq(Byte)

VARIABLES
    sent,       \* the peer's messages
    wire,       \* bytes written and not yet read
    buf,        \* bytes read and not yet cut off
    phase,      \* where readLoop is: "read", "cut" or "done"
    cut         \* the frames cut off so far

framingVars == <<sent, wire, buf, phase, cut>>
-----------------------------------------------------------------------------
(* FixMessage.SetLenAndChecksum and the bytes that are then written.       *)

\* The bytes that tag 10 sums.
Summed(m) ==
    Field(8) \o m.begin \o <<SOH>> \o Field(9) \o Itoa(Len(m.body)) \o <<SOH>> \o m.body

ToWire(m) ==
    Summed(m) \o Field(10) \o ThreeDigits(Checksum(Summed(m))) \o <<SOH>>

\* What the peer has written up to the end of message k.
Written(k) ==
    LET bytes[i \in 0 .. Len(sent)] ==
            IF i = 0 THEN <<>> ELSE bytes[i - 1] \o ToWire(sent[i])
    IN  bytes[k]
-----------------------------------------------------------------------------
(* findBodyLengthFrameEnd *)

\* The text at place k of the buffer is t.
At(bytes, k, t) ==
    /\ k + Len(t) - 1 <= Len(bytes)
    /\ \A i \in DOMAIN t : bytes[k + i - 1] = t[i]

FirstSOH(bytes, from) ==
    SelectInSubSeq(bytes, from, Len(bytes), LAMBDA b : b = SOH)

\* fmt.Sscanf("%d"): the digits the text starts with, NotANumber without any.
Scanned(text) ==
    LET other == SelectInSeq(text, LAMBDA b : ~IsDigit(b))
    IN  Atoi(IF other = 0 THEN text ELSE SubSeq(text, 1, other - 1))

NoFrame == 0

\* A slip: the frame ends at the first "10=" that follows a separator.
FrameEndAtTen(bytes) ==
    LET ten == SelectInSeq([i \in DOMAIN bytes |-> i],
                           LAMBDA i : bytes[i] = SOH /\ At(bytes, i + 1, Field(10)))
    IN  IF ten # 0 /\ Len(bytes) >= ten + 7 THEN ten + 7 ELSE NoFrame

\* The last byte of the frame at the front of the buffer, or NoFrame when it
\* is not complete or is none.
FrameEnd(bytes) ==
    LET begin == FirstSOH(bytes, 1)
        value == begin + 3
        stop == FirstSOH(bytes, value)
        length == Scanned(SubSeq(bytes, value, stop - 1))
        trailer == stop + 1 + length
    IN  IF /\ Len(bytes) >= 3 /\ At(bytes, 1, Field(8))
           /\ begin # 0
           /\ Len(bytes) >= begin + 3 /\ At(bytes, begin + 1, Field(9))
           /\ stop # 0
           /\ length # NotANumber
           /\ Len(bytes) >= trailer + 6
           /\ At(bytes, trailer, Field(10))
           /\ \A i \in 3 .. 5 : IsDigit(bytes[trailer + i])
           /\ bytes[trailer + 6] = SOH
        THEN trailer + 6 ELSE NoFrame
-----------------------------------------------------------------------------
FramingInit ==
    /\ sent \in Bursts
    /\ wire = Written(Len(sent))
    /\ buf = <<>>
    /\ phase = "read"
    /\ cut = <<>>

\* Conn.Read returns n bytes, which go to the end of the buffer.
ReadBytes(n) ==
    /\ phase = "read"
    /\ n <= Len(wire)
    /\ buf' = buf \o SubSeq(wire, 1, n)
    /\ wire' = SubSeq(wire, n + 1, Len(wire))
    /\ phase' = "cut"
    /\ UNCHANGED <<sent, cut>>

\* A complete frame is consumed, and the inner loop looks for the next one.
CutsOff ==
    /\ phase = "cut"
    /\ FrameEnd(buf) # NoFrame
    /\ cut' = Append(cut, SubSeq(buf, 1, FrameEnd(buf)))
    /\ buf' = SubSeq(buf, FrameEnd(buf) + 1, Len(buf))
    /\ UNCHANGED <<sent, wire, phase>>

\* No complete frame is left, so the loop reads again.
Incomplete ==
    /\ phase = "cut"
    /\ FrameEnd(buf) = NoFrame
    /\ phase' = "read"
    /\ UNCHANGED <<sent, wire, buf, cut>>

\* Read returns an error that is no timeout, or the session is stopped.
ReadEnds ==
    /\ phase = "read"
    /\ phase' = "done"
    /\ UNCHANGED <<sent, wire, buf, cut>>

FramingNext ==
    \/ \E n \in 1 .. ReadSize : ReadBytes(n)
    \/ CutsOff
    \/ Incomplete
    \/ ReadEnds

FramingSpec == FramingInit /\ [][FramingNext]_framingVars
-----------------------------------------------------------------------------
\* The frames readLoop cuts off are the frames written, in their order, also
\* when a text contains separators and a trailer of its own; and before it
\* reads again it has cut off every frame whose last byte has arrived,
\* however the bytes were divided over the reads.
FramesAsSent ==
    /\ cut = [k \in 1 .. Len(cut) |-> ToWire(sent[k])]
    /\ phase = "read" =>
         LET arrived == Len(Written(Len(sent))) - Len(wire)
         IN  \A k \in DOMAIN sent : Len(Written(k)) <= arrived => k <= Len(cut)
=============================================================================
