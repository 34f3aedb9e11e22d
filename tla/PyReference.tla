---------------------------- MODULE PyReference ----------------------------
(***************************************************************************)
(* The specification a Python codec works with (pyfixmsg/reference.py):    *)
(* the groups of a message type and the order of its fields, as a QuickFIX *)
(* file has them.                                                          *)
(*                                                                         *)
(* A composition is the sequence of the elements of a message, a group or  *)
(* a component in the file: [field |-> tag], [group |-> count tag,         *)
(* kids |-> composition] and [component |-> composition].                  *)
(***************************************************************************)
EXTENDS Integers, Sequences, FiniteSets, TLC, SequencesExt

FieldsIn(comp) == {comp[j].field : j \in {i \in DOMAIN comp : "field" \in DOMAIN comp[i]}}

(* _get_groups: a composition's own groups, and those of its components.   *)
RECURSIVE GetGroups(_)
GetGroups(comp) ==
    UNION {CASE "group" \in DOMAIN comp[j]     -> {comp[j]}
             [] "component" \in DOMAIN comp[j] -> GetGroups(comp[j].component)
             [] OTHER                          -> {} : j \in DOMAIN comp}

(* _extract_sorting_key: header tags by their place, trailer tags last.    *)
(* The counting goes on behind the header, a component's fields start one  *)
(* behind the component, and the next element does not skip them.          *)
LastKey == 10000000

RECURSIVE Placed(_, _, _)
Placed(comp, start, key) ==
    FoldLeft(LAMBDA k, j :
                 LET item == comp[j] IN
                 CASE "field" \in DOMAIN item -> (item.field :> start + j - 1) @@ k
                   [] "group" \in DOMAIN item -> (item.group :> start + j - 1) @@ k
                   [] OTHER -> Placed(item.component, start + j, k),
             key, [j \in DOMAIN comp |-> j])

SortingKey(comp, header, trailer) ==
    LET base == [t \in ToSet(header) \cup ToSet(trailer) |->
                     IF t \in ToSet(header) THEN SelectInSeq(header, LAMBDA x : x = t) - 1
                     ELSE LastKey - Len(trailer) + SelectInSeq(trailer, LAMBDA x : x = t)]
    IN  Placed(comp, Len(header), base)

(* Group and MessageType: the tags a group takes for its own - not those   *)
(* of its components - its groups, and its order.                          *)
RECURSIVE Level(_, _)
Level(comp, file) ==
    LET inner == GetGroups(comp) IN
    [tags   |-> FieldsIn(comp),
     groups |-> [t \in {g.group : g \in inner} |->
                     Level((CHOOSE g \in inner : g.group = t).kids, file)],
     key    |-> SortingKey(comp, file.header, file.trailer)]

(* add_group; without a place the count tag sorts behind the known ones.   *)
AddGroup(level, added, file) ==
    LET more == [level EXCEPT !.groups = (added.group :> Level(added.kids, file)) @@ @] IN
    IF added.at = 0 THEN more
    ELSE [more EXCEPT !.key = (added.group :> added.at) @@ @]

(* FixSpec: message types by their MsgType.  The file's own groups come    *)
(* first, then those the application adds.                                 *)
MessageTypes(file) ==
    [type \in DOMAIN file.messages |->
        FoldLeft(LAMBDA l, a : IF a.type = type THEN AddGroup(l, a, file) ELSE l,
                 Level(file.messages[type], file), file.added)]

=============================================================================
