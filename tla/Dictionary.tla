----------------------------- MODULE Dictionary -----------------------------
(***************************************************************************)
(* The repeating groups that fixmsg/spec reads out of a QuickFIX file.     *)
(*                                                                         *)
(* An element of the file is a sequence of children in document order.  A  *)
(* child is a record: [field |-> n], [group |-> n, kids |-> children] or   *)
(* [component |-> c], with the field's number in place of its name.  A     *)
(* file is a record of the numbers it defines (fields), its components and *)
(* its messages, the latter two functions from name or type to children.   *)
(*                                                                         *)
(* A loaded group is a record [first, tags, nested], where nested maps the *)
(* count tags of the groups inside it to groups.  Required fields, field   *)
(* types and values, which only the validator reads, are left out.         *)
(***************************************************************************)
EXTENDS Naturals, SequencesExt

\* xml.Unmarshal collects the children of each kind in a list of its own.
OfKind(kids, kind) == SelectSeq(kids, LAMBDA k : kind \in DOMAIN k)

\* A child whose name the file does not define is passed over.
KnownFields(kids, xml) ==
    SelectSeq(OfKind(kids, "field"), LAMBDA k : k.field \in xml.fields)

KnownGroups(kids, xml) ==
    SelectSeq(OfKind(kids, "group"), LAMBDA k : k.group \in xml.fields)

KnownComponents(kids, xml) ==
    SelectSeq(OfKind(kids, "component"),
              LAMBDA k : k.component \in DOMAIN xml.components)

\* The number a group starts with, before there is one.
NoTag == 0

EmptyGroup == [first |-> NoTag, tags |-> {}, nested |-> <<>>]

\* The tags that populateGroupSpec sees directly below an element, in the
\* order in which it sees them: fields first, then groups.
Listed(kids, xml) ==
    LET fields == KnownFields(kids, xml)
        groups == KnownGroups(kids, xml)
    IN  [i \in DOMAIN fields |-> fields[i].field]
        \o [i \in DOMAIN groups |-> groups[i].group]

\* populateGroupSpec: what stands directly below the element, then each
\* component it names, which may set the first tag once more.
RECURSIVE Populated(_, _, _)
Populated(gs, kids, xml) ==
    LET listed == Listed(kids, xml)
        own == [first |-> IF listed = <<>> THEN gs.first ELSE Head(listed),
                tags |-> gs.tags \cup ToSet(listed),
                nested |-> FoldLeft(LAMBDA sub, g :
                                      (g.group :> Populated(EmptyGroup, g.kids, xml)) @@ sub,
                                    gs.nested, KnownGroups(kids, xml))]
    IN  FoldLeft(LAMBDA sofar, c : Populated(sofar, xml.components[c.component], xml),
                 own, KnownComponents(kids, xml))

\* collectFields: the groups of a message, those of its components included.
RECURSIVE Collected(_, _, _)
Collected(dest, kids, xml) ==
    LET own == FoldLeft(LAMBDA sub, g :
                          (g.group :> Populated(EmptyGroup, g.kids, xml)) @@ sub,
                        dest, KnownGroups(kids, xml))
    IN  FoldLeft(LAMBDA sofar, c : Collected(sofar, xml.components[c.component], xml),
                 own, KnownComponents(kids, xml))

\* buildSpec: the groups of every message type.
Loaded(xml) == [type \in DOMAIN xml.messages |-> Collected(<<>>, xml.messages[type], xml)]
=============================================================================
