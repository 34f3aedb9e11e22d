------------------------------- MODULE PyTags -------------------------------
(***************************************************************************)
(* The tags of a specification (pyfixmsg/reference.py:32-148) and an       *)
(* application that edits them and looks them up: a FixTag with its        *)
(* enumerated values, a TagsReference with its tags, and the maps that     *)
(* both build when they are first looked up.                               *)
(***************************************************************************)
EXTENDS Integers, Sequences, FiniteSets, FiniteSetsExt

CONSTANTS
    Names,         \* the names of enumerated values and of tags
    MaxOps         \* bound: operations on the tags

VARIABLES
    tag,           \* a FixTag
    ref,           \* a TagsReference
    ops

tags == <<tag, ref, ops>>

-----------------------------------------------------------------------------
(* FixTag: the values of a tag, pairs of a value and its name, with a map  *)
(* by name and one by value that are built when they are first used.       *)
NewTag == [values |-> <<>>, byName |-> <<>>, byValue |-> <<>>]

NamesOf(values) == {values[i].name : i \in DOMAIN values}
ValuesOf(values) == {values[i].value : i \in DOMAIN values}

(* Of two pairs with the same key the later one counts.                    *)
ByName(values) ==
    [n \in NamesOf(values) |-> values[Max({i \in DOMAIN values : values[i].name = n})].value]
ByValue(values) ==
    [v \in ValuesOf(values) |-> values[Max({i \in DOMAIN values : values[i].value = v})].name]

(* A map after map[key] = value.                                           *)
With(map, key, value) ==
    [k \in DOMAIN map \cup {key} |-> IF k = key THEN value ELSE map[k]]

(* The values at the places kept, in their order.                          *)
Picked(values, kept) ==
    [k \in 1 .. Cardinality(kept) |->
        values[CHOOSE i \in kept : Cardinality({j \in kept : j <= i}) = k]]

(* add_enum_value; a name that is known is an error.                       *)
AddEnumValue(self, n, v) ==
    IF n \in NamesOf(self.values) THEN self
    ELSE [values  |-> Append(self.values, [value |-> v, name |-> n]),
          byName  |-> IF self.byName = <<>> THEN <<>> ELSE With(self.byName, n, v),
          byValue |-> IF self.byValue = <<>> THEN <<>> ELSE With(self.byValue, v, n)]

NotNamed(values, n) == Picked(values, {i \in DOMAIN values : values[i].name # n})
NotWorth(values, v) == Picked(values, {i \in DOMAIN values : values[i].value # v})

(* A slip: the maps are kept.                                              *)
DelEnumKeeping(self, n) == [self EXCEPT !.values = NotNamed(@, n)]

(* del_enum_value, by name, by value and by both: then the map by name     *)
(* must be there, and agree.  Both maps are dropped, unless what is to go  *)
(* is not known.                                                           *)
DelEnumName(self, n) ==
    IF n \notin NamesOf(self.values) THEN self
    ELSE [NewTag EXCEPT !.values = NotNamed(self.values, n)]

DelEnumValue(self, v) ==
    IF v \notin ValuesOf(self.values) THEN self
    ELSE [NewTag EXCEPT !.values = NotWorth(self.values, v)]

DelEnumBoth(self, n, v) ==
    IF n \in DOMAIN self.byName /\ self.byName[n] = v THEN DelEnumName(self, n) ELSE self

EnumByName(self) ==
    IF self.byName = <<>> THEN [self EXCEPT !.byName = ByName(self.values)] ELSE self
EnumByValue(self) ==
    IF self.byValue = <<>> THEN [self EXCEPT !.byValue = ByValue(self.values)] ELSE self

-----------------------------------------------------------------------------
(* TagsReference: a set of tags, with a map by name and one by number.  Of *)
(* two tags with one name either may be the one in the map.                *)
NewReference == [tags |-> {}, byName |-> <<>>, byTag |-> <<>>]

(* add_tag.  A tag added is an object of its own, also beside one like it. *)
AddTag(self, n, t) ==
    LET inst == [name |-> n, tag |-> t] IN
    [tags   |-> self.tags \cup {inst},
     byName |-> IF self.byName = <<>> THEN <<>> ELSE With(self.byName, n, inst),
     byTag  |-> IF self.byTag = <<>> THEN <<>> ELSE With(self.byTag, t, inst)]

(* The maps by_name and by_tag may build.                                  *)
MapsByName(all) ==
    {f \in [{x.name : x \in all} -> all] : \A n \in DOMAIN f : f[n].name = n}
MapsByTag(all) ==
    {f \in [{x.tag : x \in all} -> all] : \A t \in DOMAIN f : f[t].tag = t}

LooksByName(self) ==
    IF self.byName # <<>> THEN {self}
    ELSE {[self EXCEPT !.byName = f] : f \in MapsByName(self.tags)}
LooksByTag(self) ==
    IF self.byTag # <<>> THEN {self}
    ELSE {[self EXCEPT !.byTag = f] : f \in MapsByTag(self.tags)}

-----------------------------------------------------------------------------
(* The application edits and looks up tags.                                *)
TagsInit == tag = NewTag /\ ref = NewReference /\ ops = 0

Operation == ops < MaxOps /\ ops' = ops + 1

EditsEnum ==
    /\ Operation
    /\ UNCHANGED ref
    /\ \E n, v \in Names :
          tag' \in {AddEnumValue(tag, n, v), DelEnumName(tag, n), DelEnumValue(tag, v),
                    DelEnumBoth(tag, n, v)}

LooksUpEnum ==
    /\ Operation
    /\ UNCHANGED ref
    /\ tag' \in {EnumByName(tag), EnumByValue(tag)}

AddsTag ==
    /\ Operation
    /\ UNCHANGED tag
    /\ \E n, t \in Names : ref' = AddTag(ref, n, t)

LooksUpTag ==
    /\ Operation
    /\ UNCHANGED tag
    /\ ref' \in LooksByName(ref) \cup LooksByTag(ref)

TagsNext == EditsEnum \/ LooksUpEnum \/ AddsTag \/ LooksUpTag

TagsSpec == TagsInit /\ [][TagsNext]_tags

-----------------------------------------------------------------------------
(* The maps of a tag and of a reference that were built by an earlier      *)
(* look-up are what a look-up would build now (reference.py:56-148).       *)
CachesCurrent ==
    /\ tag.byName \in {<<>>, ByName(tag.values)}
    /\ tag.byValue \in {<<>>, ByValue(tag.values)}
    /\ ref.byName = <<>> \/ ref.byName \in MapsByName(ref.tags)
    /\ ref.byTag = <<>> \/ ref.byTag \in MapsByTag(ref.tags)
=============================================================================
