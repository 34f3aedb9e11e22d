---------------------------- MODULE MCPyLibrary ----------------------------
(***************************************************************************)
(* A small instance of PyLibrary: a specification with a plain message     *)
(* type and one with groups, groups in groups and components.              *)
(***************************************************************************)
EXTENDS PyLibrary

PyField(t) == [field |-> t]
PyGroup(t, kids) == [group |-> t, kids |-> kids]
Component(comp) == [component |-> comp]

PyPlain == 65
PyOrder == 68

MCPyFile ==
    [header   |-> <<8, 9, 35, 34>>,
     trailer  |-> <<93, 10>>,
     messages |-> PyPlain :> <<PyField(58)>>
                  @@ PyOrder :> <<PyField(11),
                                Component(<<PyGroup(453, <<PyField(448), PyField(447),
                                                         PyGroup(802, <<PyField(523), PyField(803)>>),
                                                         PyField(452)>>)>>),
                                PyGroup(78, <<PyField(79), Component(<<PyField(80)>>)>>),
                                PyField(58)>>,
     added    |-> <<[type |-> PyOrder, group |-> 555, kids |-> <<PyField(600)>>, at |-> 0],
                    [type |-> PyOrder, group |-> 518, kids |-> <<PyField(519)>>, at |-> 5]>>]

Many(s) == [members |-> s]

Heading(type) == (8 :> Str(FIX)) @@ (35 :> Str(type)) @@ (34 :> Str(2))

Subs == Many(<<(523 :> Str(3)) @@ (803 :> Str(4)), 523 :> Str(1003)>>)
PyParty(v) == (448 :> Str(v)) @@ (447 :> Str(5))

\* Parties, the first with parties of its own and a field behind them, the
\* second with them at its end; and a group the application added.
PyParties ==
    (453 :> Many(<<PyParty(1001) @@ (802 :> Subs) @@ (452 :> Str(6)), 448 :> Str(2),
                      PyParty(3) @@ (802 :> Subs)>>))
    @@ (555 :> Many(<<600 :> Str(1), 600 :> Str(2)>>)) @@ (58 :> Str(1002)) @@ Heading(PyOrder)

\* No allocation, an added group with a place, and a tag the specification
\* does not know.
Allocations ==
    (78 :> Many(<<>>)) @@ (518 :> Many(<<519 :> Str(1)>>)) @@ (9001 :> Str(1)) @@ Heading(PyOrder)

\* A member with a tag of a component.
Unfit == (78 :> Many(<<(79 :> Str(1)) @@ (80 :> Str(2))>>)) @@ Heading(PyOrder)

MCDrafts == {(58 :> Str(1001)) @@ Heading(PyPlain), PyParties, Allocations, Unfit}

MCUpdates == {(58 :> Empty) @@ (11 :> Str(1)), 453 :> Empty, 34 :> Str(3)}

\* Bytes without a begin; a length that is no number, one that ends within a
\* field, one that ends after a field too early, one that is too long; and a
\* begin without a length.
MCHead(length) == Begin \o <<Sep, Tag(9), Val(length), Sep>>
Body == <<Tag(35), Val(PyPlain), Sep, Tag(58), Val(1001), Sep, Tag(34), Val(1), Sep>>
Check == <<Tag(10), Val(0), Sep>>

Stray(symbols) == [symbols |-> symbols, swallows |-> FALSE]
Trap(symbols) == [symbols |-> symbols, swallows |-> TRUE]

MCJunk ==
    {Stray(<<Val(1001), Sep, Tag(9), Val(3)>>),
     Stray(MCHead(1001) \o Body \o Check), Stray(MCHead(4) \o Body \o Check),
     Stray(MCHead(3) \o Body \o Check), Stray(MCHead(0) \o Check),
     Trap(MCHead(15) \o Body \o Check), Trap(MCHead(13) \o Body \o Check),
     Trap(Begin \o <<Sep, Tag(58)>>)}

MCReadSizes == {1, 7, 40}
MCNames == {1, 2}
=============================================================================
