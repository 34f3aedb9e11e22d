-------------------------------- MODULE Codec --------------------------------
(***************************************************************************)
(* FIX messages and their bytes: FixMessage.ToWire, Codec.Serialise and    *)
(* Codec.Parse with and without a dictionary.                              *)
(*                                                                         *)
(* A fragment is a function from tags to values; a value is [text |->      *)
(* bytes] or, for a repeating group, [members |-> sequence of fragments].  *)
(* A field on the wire is a pair of tag and text.                          *)
(***************************************************************************)
EXTENDS Dictionary, FixBytes

-----------------------------------------------------------------------------
(* Canonical order *)

HeaderTags == <<8, 9, 35, 1128, 1156, 1129, 49, 56, 115, 128,
                90, 91, 34, 50, 142, 57, 143, 116, 144, 129, 145,
                43, 97, 52, 122, 212, 213, 347, 369, 370>>

TrailerTags == <<93, 89, 10>>

HeaderSortMap ==
    [t \in ToSet(HeaderTags) |-> SelectInSeq(HeaderTags, LAMBDA x : x = t) - 1]

TrailerSortMap ==
    [t \in ToSet(TrailerTags) |-> 2^30 - 4 + SelectInSeq(TrailerTags, LAMBDA x : x = t)]

\* tagSortKey and the codec's tagKey: header, body by number, trailer.
TagKey(t) ==
    IF t \in DOMAIN TrailerSortMap THEN TrailerSortMap[t]
    ELSE IF t \in DOMAIN HeaderSortMap THEN HeaderSortMap[t]
    ELSE Len(HeaderTags) + t

\* sortedTags
SortedTags(f) ==
    LET before(t) == {u \in DOMAIN f : TagKey(u) < TagKey(t)}
    IN  [k \in 1 .. Cardinality(DOMAIN f) |->
            CHOOSE t \in DOMAIN f : Cardinality(before(t)) = k - 1]
-----------------------------------------------------------------------------
(* Serialising *)

IsGroup(v) == "members" \in DOMAIN v

\* The fields of a fragment in the order in which writeVal writes them: a
\* group is its count and then the fields of each member.
RECURSIVE Fields(_)
Fields(f) ==
    LET tags == SortedTags(f)
        Written(t) ==
            IF IsGroup(f[t])
            THEN <<<<t, Itoa(Len(f[t].members))>>>>
                 \o FlattenSeq([j \in DOMAIN f[t].members |-> Fields(f[t].members[j])])
            ELSE <<<<t, f[t].text>>>>
    IN  FlattenSeq([k \in DOMAIN tags |-> Written(tags[k])])

Bytes(fields) ==
    FlattenSeq([k \in DOMAIN fields |->
                  Field(fields[k][1]) \o fields[k][2] \o <<SOH>>])

Serialise(m) == Bytes(Fields(m))

-----------------------------------------------------------------------------
(* Parsing *)

RECURSIVE Split(_)
Split(buf) ==
    LET end == SelectInSeq(buf, LAMBDA b : b = SOH)
    IN  IF end = 0 THEN <<buf>>
        ELSE <<SubSeq(buf, 1, end - 1)>> \o Split(SubSeq(buf, end + 1, Len(buf)))

\* A slip: the last "=" ends the tag.
DelimiterLast(field) == SelectLastInSeq(field, LAMBDA b : b = Equals)

\* The first "=" of a field ends its tag, later ones belong to its text.
Delimiter(field) == SelectInSeq(field, LAMBDA b : b = Equals)

\* tokenise, with the tags read as numbers.  A field without "=" is an error
\* of the whole buffer; it leaves no tokens, and a tag that is no number is
\* NotANumber.
Tokens(buf) ==
    LET fields == SelectSeq(Split(buf), LAMBDA field : field # <<>>)
    IN  [k \in DOMAIN fields |->
            <<Atoi(SubSeq(fields[k], 1, Delimiter(fields[k]) - 1)),
              SubSeq(fields[k], Delimiter(fields[k]) + 1, Len(fields[k]))>>]

Malformed(buf) == \E field \in ToSet(Split(buf)) : field # <<>> /\ Delimiter(field) = 0

\* A field whose tag is no number is passed over.
Numbered(tokens) == SelectSeq(tokens, LAMBDA p : p[1] # NotANumber)

\* Parse without a dictionary: a tag that occurs again overwrites.
Flat(tokens) ==
    FoldLeft(LAMBDA m, p : (p[1] :> [text |-> p[2]]) @@ m, <<>>, Numbered(tokens))

NoMember == <<>>

\* A slip: the member in progress at the end of a group is forgotten.
ClosedEarly(done, member) == done

\* The member in progress joins the finished ones.
Closed(done, member) == IF member = NoMember THEN done ELSE Append(done, member)

\* parseGroup from token i on: the token it stops at (0 for an error) and the
\* members read.  Only finished members count against the group's count.
RECURSIVE ParseGroup(_, _, _, _, _, _)
ParseGroup(tokens, i, gs, count, done, member) ==
    LET tag == tokens[i][1]
        text == tokens[i][2]
        stop == [at |-> i, members |-> Closed(done, member)]
    IN  IF i > Len(tokens) \/ Len(done) >= count \/ tag = NotANumber THEN stop
        ELSE IF tag = gs.first
        THEN ParseGroup(tokens, i + 1, gs, count,
                        IF member = NoMember THEN done ELSE Append(done, member),
                        tag :> [text |-> text])
        ELSE IF member = NoMember \/ tag \notin gs.tags THEN stop
        ELSE IF tag \notin DOMAIN gs.nested
        THEN ParseGroup(tokens, i + 1, gs, count, done, (tag :> [text |-> text]) @@ member)
        ELSE LET sub == IF Atoi(text) = NotANumber THEN [at |-> 0, members |-> <<>>]
                        ELSE ParseGroup(tokens, i + 1, gs.nested[tag], Atoi(text), <<>>, NoMember)
             IN  IF sub.at = 0 THEN sub
                 ELSE ParseGroup(tokens, sub.at, gs, count, done,
                                 (tag :> [members |-> sub.members]) @@ member)

\* Parse with the groups of the message's type: at most one message, none at
\* an error.
RECURSIVE Grouped(_, _, _, _)
Grouped(tokens, i, groups, m) ==
    LET tag == tokens[i][1]
        text == tokens[i][2]
    IN  IF i > Len(tokens) THEN <<m>>
        ELSE IF tag = NotANumber THEN Grouped(tokens, i + 1, groups, m)
        ELSE IF tag \notin DOMAIN groups
        THEN Grouped(tokens, i + 1, groups, (tag :> [text |-> text]) @@ m)
        ELSE LET rg == IF Atoi(text) = NotANumber THEN [at |-> 0, members |-> <<>>]
                       ELSE ParseGroup(tokens, i + 1, groups[tag], Atoi(text), <<>>, NoMember)
             IN  IF rg.at = 0 THEN <<>>
                 ELSE Grouped(tokens, rg.at, groups, (tag :> [members |-> rg.members]) @@ m)

\* The message type is looked for in the first six fields only.
TypeOf(tokens) ==
    LET k == SelectInSubSeq(tokens, 1, IF Len(tokens) < 6 THEN Len(tokens) ELSE 6,
                            LAMBDA p : p[1] = 35)
    IN  IF k = 0 THEN <<>> ELSE tokens[k][2]

\* Codec.Parse: at most one message.  The codec without a dictionary has a
\* spec that knows no message type.
NoSpec == <<>>

Parse(spec, buf) ==
    LET tokens == Tokens(buf)
    IN  IF Malformed(buf) THEN <<>>
        ELSE IF TypeOf(tokens) \in DOMAIN spec
        THEN Grouped(tokens, 1, spec[TypeOf(tokens)], <<>>)
        ELSE <<Flat(tokens)>>
=============================================================================
