----------------------------- MODULE PyMessage -----------------------------
(***************************************************************************)
(* Messages of the Python library: a FixFragment with its repeating groups *)
(* and the traversals over them (pyfixmsg/fixmessage.py, RepeatingGroup in *)
(* pyfixmsg/__init__.py), and how a message gets on the wire and back      *)
(* (len_and_chsum, pyfixmsg/codecs/stringfix.py).                          *)
(*                                                                         *)
(* A fragment is a function from tags to values; a value is a text, named  *)
(* by a number, or a repeating group, [members |-> sequence of fragments]. *)
(* The text of a number below Letters is that number in digits.  A field   *)
(* on the wire is a pair of tag and text.                                  *)
(***************************************************************************)
EXTENDS PyReference, FiniteSetsExt

Letters == 1000
Str(n) == [text |-> n]
Empty == Str(Letters - 1)     \* the empty string

IsRepeating(v) == "members" \in DOMAIN v

-----------------------------------------------------------------------------
(* FixFragment.anywhere, all_tags and find_all, with those of a group.  A  *)
(* path alternates count tags and positions and ends with the tag.         *)
RECURSIVE Anywhere(_, _)
Anywhere(f, tag) ==
    \/ tag \in DOMAIN f
    \/ \E t \in DOMAIN f : IsRepeating(f[t])
          /\ \E j \in DOMAIN f[t].members : Anywhere(f[t].members[j], tag)

RECURSIVE AllTags(_)
AllTags(f) ==
    DOMAIN f \cup
    UNION {UNION {AllTags(f[t].members[j]) : j \in DOMAIN f[t].members} :
               t \in {u \in DOMAIN f : IsRepeating(f[u])}}

(* A slip: the tags of groups in groups are not looked for.                *)
FindShallow(f, tag) ==
    {<<tag>> : t \in {tag} \cap DOMAIN f} \cup
    UNION {{<<t, j, tag>> : j \in {i \in DOMAIN f[t].members :
                                      tag \in DOMAIN f[t].members[i]}} :
               t \in {u \in DOMAIN f : IsRepeating(f[u])}}

RECURSIVE FindAll(_, _)
FindAll(f, tag) ==
    {<<tag>> : t \in {tag} \cap DOMAIN f} \cup
    UNION {UNION {{<<t, j>> \o path : path \in FindAll(f[t].members[j], tag)} :
                      j \in {i \in DOMAIN f[t].members : Anywhere(f[t].members[i], tag)}} :
               t \in {u \in DOMAIN f : IsRepeating(f[u])}}

(* update_all: the value at the end of every path.                         *)
RECURSIVE SetAt(_, _, _)
SetAt(f, path, v) ==
    IF Len(path) = 1 THEN (path[1] :> v) @@ f
    ELSE [f EXCEPT ![path[1]].members[path[2]] = SetAt(@, SubSeq(path, 3, Len(path)), v)]

UpdateAll(f, tag, v) ==
    FoldSet(LAMBDA path, g : SetAt(g, path, v), f, FindAll(f, tag))

RECURSIVE ValueAt(_, _)
ValueAt(f, path) ==
    IF Len(path) = 1 THEN f[path[1]]
    ELSE ValueAt(f[path[1]].members[path[2]], SubSeq(path, 3, Len(path)))

(* set_or_delete and apply; None and the empty text delete.                *)
SetOrDelete(f, tag, v) ==
    IF v # Empty THEN (tag :> v) @@ f ELSE Restrict(f, DOMAIN f \ {tag})

Apply(f, update) == FoldSet(LAMBDA t, g : SetOrDelete(g, t, update[t]), f, DOMAIN update)

-----------------------------------------------------------------------------
(* _calculate_length_and_get_ordered_byte_parts: how many fields a         *)
(* fragment has on the wire, the counts of its groups included, and the    *)
(* sum of what they are made of.  Their order, which the code goes to      *)
(* lengths to restore, changes neither.                                    *)
Plus(a, b) == <<a[1] + b[1], a[2] + b[2]>>

(* A slip: a group's count is not counted.                                 *)
RECURSIVE TotalOfMembers(_)
TotalOfMembers(f) ==
    FoldSet(LAMBDA t, sum :
                Plus(sum, IF ~IsRepeating(f[t]) THEN <<1, t + f[t].text>>
                          ELSE FoldLeft(LAMBDA s, member : Plus(s, TotalOfMembers(member)),
                                        <<0, 0>>, f[t].members)),
            <<0, 0>>, DOMAIN f)

RECURSIVE Total(_)
Total(f) ==
    FoldSet(LAMBDA t, sum :
                Plus(sum, IF ~IsRepeating(f[t]) THEN <<1, t + f[t].text>>
                          ELSE FoldLeft(LAMBDA s, member : Plus(s, Total(member)),
                                        <<1, t + Len(f[t].members)>>, f[t].members)),
            <<0, 0>>, DOMAIN f)

(* len_and_chsum, set_len_and_chksum.  A field has the length of three     *)
(* symbols; the checksum is taken modulo 256, in digits.                   *)
FieldLen == 3

LenAndChecksum(m) ==
    LET body == Total(Restrict(m, DOMAIN m \ {8, 9, 10}))
        length == FieldLen * body[1]
        begin == IF 8 \in DOMAIN m THEN 8 + m[8].text ELSE 0
    IN  <<length, (begin + 9 + length + body[2]) % 256>>

SetLenAndChecksum(m) ==
    LET lc == LenAndChecksum(m) IN (9 :> Str(lc[1])) @@ (10 :> Str(lc[2])) @@ m

-----------------------------------------------------------------------------
(* Codec._unmap: the fields in the order of the specification, tags it     *)
(* does not know behind those it knows, by number.  Of two with one place  *)
(* the lower comes first; the code leaves them in their order of insertion. *)
Key(level, t) == IF t \in DOMAIN level.key THEN level.key[t] ELSE 1000000 + t

Before(level, t, u) ==
    Key(level, t) < Key(level, u) \/ (Key(level, t) = Key(level, u) /\ t < u)

Sorted(f, level) ==
    [i \in 1 .. Cardinality(DOMAIN f) |->
        CHOOSE t \in DOMAIN f : Cardinality({u \in DOMAIN f : Before(level, u, t)}) = i - 1]

RECURSIVE Unmap(_, _)
Unmap(f, level) ==
    FoldLeft(LAMBDA fields, t :
                 IF ~IsRepeating(f[t]) THEN Append(fields, <<t, f[t].text>>)
                 ELSE Append(fields, <<t, Len(f[t].members)>>)
                      \o FoldLeft(LAMBDA s, member : s \o Unmap(member, level.groups[t]),
                                  <<>>, f[t].members),
             <<>>, Sorted(f, level))

(* to_wire and serialise: "tag", "value", separator.                       *)
Sep == <<"soh", 0>>
Tag(t) == <<"tag", t>>
Val(v) == <<"val", v>>

serialise(m, types) ==
    FlattenSeq([i \in DOMAIN Unmap(m, types[m[35].text]) |->
                   LET field == Unmap(m, types[m[35].text])[i] IN
                   <<Tag(field[1]), Val(field[2]), Sep>>])

to_wire(m, types) == serialise(SetLenAndChecksum(m), types)

-----------------------------------------------------------------------------
(* Codec._process_group, from the field behind the count on: the first tag *)
(* seen begins a member wherever it comes again.  A group inside that ends *)
(* with neither the first tag nor a tag of this group ends this one too.   *)
RECURSIVE Members(_, _, _, _, _)
Members(fields, level, first, member, done) ==
    IF fields = <<>> THEN [members |-> Append(done, member), rest |-> <<>>]
    ELSE LET t == Head(fields)[1]
             one == t :> Str(Head(fields)[2])
             more == Tail(fields)
         IN
         CASE first = 0 -> Members(more, level, t, one, done)
           [] first # 0 /\ t = first -> Members(more, level, first, one, Append(done, member))
           [] first # 0 /\ t # first /\ t \in level.tags ->
                Members(more, level, first, one @@ member, done)
           [] first # 0 /\ t # first /\ t \notin level.tags
                /\ t \in DOMAIN level.groups ->
                LET inner == Members(more, level.groups[t], 0, <<>>, <<>>)
                    with == (t :> [members |-> inner.members]) @@ member
                    next == IF inner.rest = <<>> THEN 0 ELSE Head(inner.rest)[1]
                IN  IF next = first \/ next \in level.tags
                      THEN Members(inner.rest, level, first, with, done)
                      ELSE [members |-> Append(done, with), rest |-> inner.rest]
           [] OTHER -> [members |-> Append(done, member), rest |-> fields]

(* parse: fields to a message.  A count of zero is an empty group, at the  *)
(* top level only.                                                         *)
RECURSIVE Top(_, _, _)
Top(fields, groups, msg) ==
    IF fields = <<>> THEN msg
    ELSE LET t == Head(fields)[1]
             v == Head(fields)[2]
         IN
         CASE t \notin DOMAIN groups -> Top(Tail(fields), groups, (t :> Str(v)) @@ msg)
           [] t \in DOMAIN groups /\ v = 0 ->
                Top(Tail(fields), groups, (t :> [members |-> <<>>]) @@ msg)
           [] OTHER ->
                LET g == Members(Tail(fields), groups[t], 0, <<>>, <<>>) IN
                Top(g.rest, groups, (t :> [members |-> g.members]) @@ msg)

FieldsOf(frame) ==
    [i \in 1 .. (Len(frame) \div FieldLen) |->
        <<frame[FieldLen * i - 2][2], frame[FieldLen * i - 1][2]>>]

(* The message type is looked for in the first four fields; a type the     *)
(* specification does not have is read without groups.                     *)
parse(frame, types) ==
    LET fields == FieldsOf(frame)
        named == {i \in 1 .. 4 : fields[i][1] = 35 /\ fields[i][2] \in DOMAIN types}
    IN  Top(fields, IF named = {} THEN <<>> ELSE types[fields[Max(named)][2]].groups, <<>>)
=============================================================================
