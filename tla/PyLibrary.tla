----------------------------- MODULE PyLibrary -----------------------------
(***************************************************************************)
(* The Python library at work.  Either an application edits a message and  *)
(* writes it to a stream, again and again and among bytes that are no      *)
(* message, and an engine cuts messages out of what it reads of that       *)
(* stream (on_network_data, pyfixmsg_plus/fixengine/engine.py:343); or an  *)
(* application edits and looks up the tags of a specification.             *)
(***************************************************************************)
EXTENDS PyMessage, PyTags

CONSTANTS
    SpecFile,      \* the specification, as PyReference has it
    Drafts,        \* the messages the application starts from
    Updates,       \* what it applies to them: tag -> value
    Junk,          \* bytes between messages: [symbols, swallows]
    MaxPieces,     \* bound: messages and junk on the stream
    MaxEdits,      \* bound: edits of the message
    ReadSizes,     \* how much a read may bring
    MaxNoise,      \* 8192: bytes without a begin of a message
    MaxHead        \* 4096: bytes of a message without its length

VARIABLES
    uses,          \* "stream" or "tags"
    doc,           \* the message the application edits
    edits,
    pieces,        \* what was written, in order: messages and junk
    rest,          \* what was not read yet
    buffer,        \* self.incoming_buffer
    received,
    limited        \* a limit was met with the first half of a begin in the buffer

stream == <<doc, edits, pieces, rest, buffer, received, limited>>
libraryVars == <<uses, stream, tags>>

Types == MessageTypes(SpecFile)

LibraryInit ==
    /\ uses \in {"stream", "tags"}
    /\ doc \in IF uses = "stream" THEN Drafts ELSE {<<>>}
    /\ edits = 0 /\ pieces = <<>> /\ rest = <<>> /\ buffer = <<>>
    /\ received = <<>> /\ limited = FALSE
    /\ TagsInit

-----------------------------------------------------------------------------
(* The application edits its message, at the top or wherever a tag is.     *)
(* Nothing was read yet: reading later changes no byte.                    *)
Writing ==
    /\ uses = "stream"
    /\ buffer = <<>> /\ received = <<>> /\ ~limited

Edited(new) ==
    /\ Writing
    /\ edits < MaxEdits
    /\ doc' = new
    /\ edits' = edits + 1
    /\ UNCHANGED <<uses, pieces, rest, buffer, received, limited, tags>>

Edits == \E update \in Updates : Edited(Apply(doc, update))

EditsEverywhere ==
    \E t \in AllTags(doc) \ {8, 35} :
        /\ \A path \in FindAll(doc, t) : ~IsRepeating(ValueAt(doc, path))
        /\ Edited(UpdateAll(doc, t, Str(7)))

Writes(piece, symbols) ==
    /\ Writing
    /\ Len(pieces) < MaxPieces
    /\ pieces' = Append(pieces, piece)
    /\ rest' = rest \o symbols
    /\ UNCHANGED <<uses, doc, edits, buffer, received, limited, tags>>

WritesMessage == Writes([message |-> SetLenAndChecksum(doc)], to_wire(doc, Types))
WritesJunk == \E junk \in Junk : Writes([junk |-> junk], junk.symbols)

-----------------------------------------------------------------------------
(* How on_network_data cuts messages out of the buffer.                    *)
FIX == Letters
Begin == <<Tag(8), Val(FIX)>>

Places(s, pattern) ==
    {i \in 1 .. (Len(s) - Len(pattern) + 1) : SubSeq(s, i, i + Len(pattern) - 1) = pattern}

From(s, i) == SubSeq(s, i, Len(s))

(* What is left when the first begin is given up.                          *)
NextBegin(s) ==
    LET begins == Places(s, Begin) \ {1} IN
    IF begins = {} THEN <<>> ELSE From(s, Min(begins))

HalfBegin(s) == s # <<>> /\ Last(s) = Tag(8)

Digits(text) == Len(text) = 1 /\ text[1][1] = "val" /\ text[1][2] < Letters - 1

(* process_single_fix_message, as far as the codec: a message of fewer     *)
(* than four fields raises, and is dropped.                                *)
Taken(out, frame) ==
    IF Len(FieldsOf(frame)) < 4 THEN out ELSE Append(out, parse(frame, Types))

RECURSIVE Framed(_)
Framed(r) ==
    LET begins == Places(r.buf, Begin)
        cur == From(r.buf, Min(begins))
        heads == Places(cur, <<Sep, Tag(9)>>)
        value == Min(heads) + 2
        ends == {i \in Places(cur, <<Sep>>) : i >= value}
        length == SubSeq(cur, value, Min(ends) - 1)
        end == Min(ends) + length[1][2] + FieldLen
        Stop(left) == [r EXCEPT !.buf = left, !.limited = @ \/ (left = <<>> /\ HalfBegin(r.buf))]
    IN
    CASE begins = {} -> Stop(IF Len(r.buf) > MaxNoise THEN <<>> ELSE r.buf)
      [] begins # {} /\ heads = {} ->
            Stop(IF Len(cur) > MaxHead THEN NextBegin(cur) ELSE cur)
      [] begins # {} /\ heads # {} /\ ends = {} ->
            Stop(IF Len(cur) > MaxHead THEN <<>> ELSE cur)
      [] begins # {} /\ heads # {} /\ ends # {} ->
            CASE ~Digits(length) -> Framed([r EXCEPT !.buf = From(cur, Min(ends))])
              [] Digits(length) /\ Len(cur) < end -> Stop(cur)
              [] Digits(length) /\ Len(cur) >= end /\ cur[end] # Sep ->
                    Framed([Stop(NextBegin(cur)) EXCEPT !.out = r.out])
              [] OTHER -> Framed([r EXCEPT !.buf = From(cur, end + 1),
                                           !.out = Taken(r.out, SubSeq(cur, 1, end))])

(* A read brings so many bytes, or what there is.                          *)
on_network_data ==
    /\ uses = "stream"
    /\ rest # <<>>
    /\ \E size \in ReadSizes :
         LET n == Min({size, Len(rest)})
             after == Framed([buf |-> buffer \o SubSeq(rest, 1, n), out |-> received, limited |-> limited])
         IN  /\ rest' = From(rest, n + 1)
             /\ buffer' = after.buf
             /\ received' = after.out
             /\ limited' = after.limited
    /\ UNCHANGED <<uses, doc, edits, pieces, tags>>

-----------------------------------------------------------------------------
UsesTags == uses = "tags" /\ TagsNext /\ UNCHANGED <<uses, stream>>

LibraryNext ==
    \/ Edits \/ EditsEverywhere \/ WritesMessage \/ WritesJunk \/ on_network_data
    \/ UsesTags

LibrarySpec == LibraryInit /\ [][LibraryNext]_libraryVars

-----------------------------------------------------------------------------
(* A message that can be read back: every member begins with the tag the   *)
(* first one begins with and has a place of its own for every tag; there   *)
(* is no tag its group does not list itself, no empty group and no two     *)
(* groups in a row (_process_group knows no count and looks for direct     *)
(* tags behind an inner group).                                            *)
RECURSIVE FitsGroup(_, _)
FitsGroup(members, level) ==
    \A i \in DOMAIN members :
        LET order == Sorted(members[i], level) IN
        /\ order # <<>>
        /\ Cardinality({Key(level, t) : t \in DOMAIN members[i]}) = Len(order)
        /\ order[1] = Sorted(members[1], level)[1]
        /\ ~IsRepeating(members[i][order[1]])
        /\ \A j \in 2 .. Len(order) :
             LET v == members[i][order[j]] IN
             IF ~IsRepeating(v) THEN order[j] \in level.tags
             ELSE /\ v.members # <<>>
                  /\ FitsGroup(v.members, level.groups[order[j]])
                  /\ j < Len(order) => ~IsRepeating(members[i][order[j + 1]])

Readable(m) ==
    \A t \in {u \in DOMAIN m : IsRepeating(m[u])} :
        FitsGroup(m[t].members, Types[m[35].text].groups[t])

IsMessage(i) == "message" \in DOMAIN pieces[i]

(* Behind junk that swallows what follows it, up to the next message.      *)
Swallowed(i) ==
    \E j \in 1 .. (i - 1) : /\ ~IsMessage(j) /\ pieces[j].junk.swallows
                            /\ \A k \in (j + 1) .. (i - 1) : ~IsMessage(k)

Arrives(i) == IsMessage(i) /\ ~Swallowed(i)

RECURSIVE IsSubsequence(_, _)
IsSubsequence(s, t) ==
    \/ s = <<>>
    \/ t # <<>> /\ IsSubsequence(IF Head(s) = Head(t) THEN Tail(s) ELSE s, Tail(t))

SentAt(set) ==
    [i \in 1 .. Cardinality(set) |->
        pieces[CHOOSE j \in set : Cardinality({k \in set : k <= j}) = i].message]

(* However the bytes are divided over reads and whatever stands between    *)
(* the messages, those that can be read back arrive as they were sent, in  *)
(* order, each once; none that is complete waits for a later read.  Not    *)
(* promised: a message behind bytes that pass for the begin of a message   *)
(* without a length or with one that is too long, and one whose begin is   *)
(* divided over two reads when the buffer is at its limit.                 *)
ArrivesAsSent ==
    (uses = "stream" /\ ~Writing /\ ~limited /\ \A i \in DOMAIN pieces : IsMessage(i) => Readable(pieces[i].message)) =>
        /\ rest = <<>> => IsSubsequence(SentAt({i \in DOMAIN pieces : Arrives(i)}), received)
        /\ (\A i \in DOMAIN pieces : IsMessage(i)) => IsPrefix(received, SentAt(DOMAIN pieces))

(* The traversals of a message agree (fixmessage.py:56-119): a tag is      *)
(* among all_tags, is anywhere and has a path when it has one of them, and *)
(* update_all changes what is at the end of every path and nothing else.   *)
TagsAgree ==
    Writing =>
        /\ \A t \in UNION {AllTags(draft) : draft \in Drafts \cup {doc}} :
             /\ t \in AllTags(doc) <=> Anywhere(doc, t)
             /\ Anywhere(doc, t) <=> FindAll(doc, t) # {}
        /\ \A t \in AllTags(doc) :
             LET new == UpdateAll(doc, t, Str(7)) IN
             /\ \A path \in FindAll(doc, t) : ValueAt(new, path) = Str(7)
             /\ \A u \in AllTags(doc) \ {t} : \A path \in FindAll(doc, u) :
                   \/ IsRepeating(ValueAt(doc, path))
                   \/ \E p \in FindAll(doc, t) : IsPrefix(p, path)
                   \/ path \in FindAll(new, u) /\ ValueAt(new, path) = ValueAt(doc, path)
=============================================================================
