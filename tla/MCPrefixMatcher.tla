-------------------------- MODULE MCPrefixMatcher --------------------------
(***************************************************************************)
(* Sequences and choices of a leaf and a group of two leaves, in both      *)
(* orders, all groups, a wildcard, ranges with and without a bound.        *)
(***************************************************************************)
EXTENDS PrefixMatcher

CONSTANTS a, b

Leaf(id, names, range) ==
  [kind |-> "element", id |-> id, names |-> names, min |-> range[1], max |-> range[2], children |-> <<>>]
Group(kind, id, range, members) ==
  [kind |-> kind, id |-> id, names |-> {}, min |-> range[1], max |-> range[2], children |-> members]

Once == <<1, 1>>
LeafRanges == {Once, <<0, 1>>, <<2, 2>>}
OuterRanges == {Once, <<2, 2>>, <<0, Unbounded>>}
InnerRanges == {Once, <<0, 2>>, <<1, Unbounded>>}

Leaves(id) == {Leaf(id, {x}, r) : x \in {a, b}, r \in LeafRanges}
Inner == {Group(k, 5, r, <<x, y>>) : k \in {"sequence", "choice"}, r \in InnerRanges,
                                     x \in {l \in Leaves(2) : l.names = {a}}, y \in Leaves(3)}
Nested == {Group(k, 6, r, m) : k \in {"sequence", "choice"}, r \in OuterRanges,
                               m \in UNION {{<<l, g>>, <<g, l>>} : l \in Leaves(1), g \in Inner}}
Alls == {Group("all", 6, r, <<Leaf(1, {a}, x), Leaf(2, {b}, y)>>) :
           r \in {Once, <<0, 1>>}, x \in {Once, <<0, 1>>, <<0, 0>>}, y \in {Once, <<0, 1>>}}
Wild == {Group("sequence", 6, r, <<Leaf(1, {a}, x), [Leaf(2, {a, b}, y) EXCEPT !.kind = "any"]>>) :
           r \in OuterRanges, x \in LeafRanges, y \in {Once, <<0, Unbounded>>, <<1, 2>>}}

MCParticles == Nested \cup Alls \cup Wild
=============================================================================
