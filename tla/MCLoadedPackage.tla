------------------------- MODULE MCLoadedPackage --------------------------
(* A root opus that links to an opus and, from there, to a score and back   *)
(* to the root: a cycle, a document in its original formatting and one the  *)
(* encoder wrote.  One graph is enough for every way a synchronisation can  *)
(* fail; the second one is there to be stale.                               *)
EXTENDS LoadedPackage, TLC

Opus(p) == [kind |-> "opus", path |-> p]
Score(p) == [kind |-> "score", path |-> p]
RootLinks == <<Opus("b.xml")>>
NestedLinks == <<Opus("a.xml"), Score("c.xml")>>
MCLinkLists == {RootLinks, NestedLinks, <<>>}

MCFirstRoot == [kind |-> "opus", text |-> "one", links |-> RootLinks]
Stored(form, kind, text, links) ==
  [form |-> form, body |-> [kind |-> kind, text |-> text, links |-> links]]

MCOriginals == [p \in Paths |->
  CASE p = "b.xml" -> Stored("canonical", "opus", "one", NestedLinks)
    [] p = "c.xml" -> Stored("raw", "score", "one", <<>>)
    [] OTHER -> Missing]

MCForeign == {Garbage, Stored("raw", "score", "two", <<>>)}
Symmetry == Permutations(Graphs) \cup Permutations(RootObjects)
\* Every budget from none to more than a load ever needs at once, so that each
\* charge of each stage is refused in some load.
MCLimits == 0..6
MCEdited == {<<6, FALSE>>}
MCPathOrder == <<"a.xml", "b.xml", "c.xml", "z.xml">>

=============================================================================
