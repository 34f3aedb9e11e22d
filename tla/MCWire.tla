------------------------------- MODULE MCWire -------------------------------
(* Small instances of Wire: ten messages, alone, in pairs and in threes.    *)
EXTENDS Wire

A == 65
D == 68
Y == 89

Text(bytes) == [text |-> bytes]

Typed(type) == (8 :> Text(<<A>>)) @@ (35 :> Text(<<type>>))

\* A body shorter than ten bytes, and one of more than a hundred.
Heartbeat == Typed(Zero)
Long == (58 :> Text([i \in 1 .. 95 |-> A])) @@ Typed(D)

\* A text with the delimiter and the start of a trailer in it.
Order == (58 :> Text(<<A, Equals, Zero + 1, Zero, Equals>>)) @@ Typed(D)

\* Data with separators: a trailer and a piece without "=", which the codec
\* cannot parse, and a field whose tag is no number.
Trailer == <<SOH, Zero + 1, Zero, Equals, Zero, Zero, Zero, SOH>>
Data == (96 :> Text(<<A>> \o Trailer \o <<Y>>)) @@ Typed(Zero)
Odd == (96 :> Text(<<A, SOH, Y, Equals, A>>)) @@ Typed(Zero)

Group(members) == [members |-> members]

\* Allocations (78) with parties of their own (756): two members, the first
\* with two parties, a field after the group; and none.
Party(b) == (757 :> Text(<<b>>)) @@ (758 :> Text(<<Y>>))
Allocated ==
    (78 :> Group(<<(79 :> Text(<<A>>)) @@ (80 :> Text(<<Zero>>))
                      @@ (756 :> Group(<<Party(A), Party(D)>>)),
                   79 :> Text(<<D>>)>>))
    @@ (100 :> Text(<<Y>>)) @@ Typed(D)
Unallocated == (78 :> Group(<<>>)) @@ Typed(D)

\* Parties (453), whose first tag 448 does not sort first.
Parties == (453 :> Group(<<(448 :> Text(<<A>>)) @@ (447 :> Text(<<D>>)),
                           448 :> Text(<<Y>>)>>)) @@ Typed(D)

\* A side (552), a group with a component after its first field.
Sided == (552 :> Group(<<54 :> Text(<<A>>)>>)) @@ Typed(D)

MCFile ==
    LET f(n) == [field |-> n]
        g(n, kids) == [group |-> n, kids |-> kids]
        c(name) == [component |-> name]
        allocs == g(78, <<f(79), f(80), g(756, <<f(757), f(758)>>)>>)
    IN  [fields |-> {54, 58, 78, 79, 80, 100, 447, 448, 453, 552, 756, 757, 758},
         components |-> ("Parties" :> <<g(453, <<f(448), f(447)>>)>>)
                        @@ ("Allocs" :> <<allocs>>),
         messages |-> (<<D>> :> <<f(58), g(552, <<f(54), c("Parties"), f(99)>>),
                                  c("Allocs"), c("Parties"), c("Unknown"), f(100)>>)
                      @@ (<<Zero>> :> <<>>)]

Mixed == {Stamped(m) : m \in {Heartbeat, Order, Data, Odd, Allocated, Unallocated, Parties, Sided}}
MCMessages == Mixed \cup {Stamped(Long)}

MCBursts ==
    {<<Stamped(Long), Stamped(Heartbeat)>>,
     <<Stamped(Heartbeat), Stamped(Order), Stamped(Heartbeat)>>}
    \cup {<<m>> : m \in Mixed}
    \cup {<<m, Stamped(n)>> : m \in Mixed, n \in {Order, Data, Allocated}}

=============================================================================
