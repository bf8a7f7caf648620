---------------------------- MODULE ContentModel ----------------------------
(***************************************************************************)
(* The content-model matcher of the XSD kernel (internal/xsd/particle.go): *)
(* which children of an element a content model accepts, and which leaf    *)
(* particle accounts for each child (the witness).  A particle is a record *)
(* with an occurrence range; a leaf has the names it can consume (one for  *)
(* an element, those of the allowed namespaces for a wildcard) and an id.  *)
(*                                                                         *)
(* The matcher keeps sets of end positions, never parse histories, skips   *)
(* repetitions without progress and reconstructs one witness afterwards.   *)
(* Its memo tables hold results of pure functions and are left out, as are *)
(* the second pass that collects the names of a diagnostic and cyclic      *)
(* particles, which Prepare rejects.  The reference at the end is what a   *)
(* content model means: the set of its derivations, by concatenation.      *)
(***************************************************************************)
EXTENDS Integers, Sequences, FiniteSets, FiniteSetsExt, SequencesExt

Unbounded == -1      \* the max of a particle that may occur any number of times

IsLeaf(p) == p.kind \in {"element", "any"}
AllowsAnother(p, count) == p.max = Unbounded \/ count < p.max

-----------------------------------------------------------------------------
(* Prepare: the structural checks, and which bodies accept nothing at all   *)

\* Nullable: the body, before its occurrence range, accepts no children.
RECURSIVE Nullable(_)
Nullable(p) ==
  LET Empty(c) == c.min = 0 \/ Nullable(c)
      members == {p.children[i] : i \in DOMAIN p.children}
  IN CASE IsLeaf(p)         -> FALSE
       [] p.kind = "choice" -> \E c \in members : Empty(c)
       [] OTHER             -> \A c \in members : Empty(c)

CanBeEmpty(p) == p.min = 0 \/ Nullable(p)

RECURSIVE Prepare(_)
Prepare(p) ==
  LET active == {i \in DOMAIN p.children : p.children[i].max # 0}
  IN /\ p.max # Unbounded => p.min <= p.max
     /\ \A i \in DOMAIN p.children : Prepare(p.children[i])
     /\ p.kind = "all" =>
          /\ p.max \in {0, 1}
          /\ \A i \in DOMAIN p.children : p.children[i].kind = "element" /\ p.children[i].max \in {0, 1}
          /\ \A i, j \in active : i # j => p.children[i].names # p.children[j].names

-----------------------------------------------------------------------------
(* End positions.  Position s means that the first s children are consumed. *)

Consumes(p, w, s) == s < Len(w) /\ w[s + 1] \in p.names

\* The members of an all group consume children greedily, each at most once.
RECURSIVE All(_, _, _, _)
All(p, w, end, used) ==
  LET free == {i \in DOMAIN p.children \ used : p.children[i].max # 0 /\ Consumes(p.children[i], w, end)}
  IN IF free # {} THEN All(p, w, end + 1, used \cup {Min(free)})
     ELSE IF \E i \in DOMAIN p.children \ used : p.children[i].min > 0 THEN {} ELSE {end}

Limit(p, w, s) == IF AllowsAnother(p, Len(w) - s) THEN Len(w) - s ELSE p.max

\* Defect: empty occurrences do not count.
CountsOnly(p, count) == count >= p.min

\* This many occurrences, padded with empty ones, satisfy the minimum.
Enough(p, count) == Nullable(p) \/ count >= p.min

RECURSIVE Match(_, _, _), Body(_, _, _), Repeat(_, _, _, _, _), InSequence(_, _, _, _)

\* The ends after count and more occurrences, each of which makes progress.
Repeat(p, w, current, count, limit) ==
  IF count > limit \/ current = {} THEN {}
  ELSE LET next == UNION {Body(p, w, s) \ {s} : s \in current}
       IN (IF Enough(p, count) THEN next ELSE {}) \cup Repeat(p, w, next, count + 1, limit)

Match(p, w, s) ==
  CASE p.min = 1 /\ p.max = 1          -> Body(p, w, s)
    [] IsLeaf(p) /\ p.max \in {0, 1}   -> {s} \cup (IF p.max = 1 THEN Body(p, w, s) ELSE {})
    [] OTHER -> (IF CanBeEmpty(p) THEN {s} ELSE {}) \cup Repeat(p, w, {s}, 1, Limit(p, w, s))

\* The ends of the members from the i-th on.
InSequence(p, w, current, i) ==
  IF i > Len(p.children) THEN current
  ELSE InSequence(p, w, UNION {Match(p.children[i], w, s) : s \in current}, i + 1)

Body(p, w, s) ==
  CASE IsLeaf(p)           -> IF Consumes(p, w, s) THEN {s + 1} ELSE {}
    [] p.kind = "choice"   -> UNION {Match(p.children[i], w, s) : i \in DOMAIN p.children}
    [] p.kind = "sequence" -> InSequence(p, w, {s}, 1)
    [] p.kind = "all"      -> All(p, w, s, {})

-----------------------------------------------------------------------------
(* The witness: the leaf that accounts for each child between two ends.     *)
(* A set with the one witness, or none when it cannot be reconstructed.     *)

\* Layer[e] is the position from which e was reached first: positions are
\* visited in descending order.
Layer(ends, current) ==
  [e \in UNION {ends[s] : s \in current} |-> Max({s \in current : e \in ends[s]})]

\* The positions that lead to end through the layers.
RECURSIVE Split(_, _)
Split(layers, end) ==
  IF layers = <<>> THEN <<end>>
  ELSE Append(Split(Front(layers), Last(layers)[end]), end)

\* The parts' witnesses one after another, or none if one of them has none.
RECURSIVE Joined(_)
Joined(parts) ==
  IF parts = <<>> THEN {<<>>}
  ELSE {a \o b : a \in Joined(Front(parts)), b \in Last(parts)}

\* The member that consumes each child, in order.
RECURSIVE AllWitness(_, _, _, _)
AllWitness(p, w, s, end) ==
  IF s = end THEN <<>>
  ELSE LET i == CHOOSE k \in DOMAIN p.children : p.children[k].max # 0 /\ Consumes(p.children[k], w, s)
       IN <<p.children[i].id>> \o AllWitness(p, w, s + 1, end)

\* Defect: the end is accepted as soon as some number of occurrences reaches it.
AnyCount(p, count, layer, end) == end \in DOMAIN layer

Reached(p, count, layer, end) == end \in DOMAIN layer /\ Enough(p, count)

RECURSIVE Witness(_, _, _, _), BodyWitness(_, _, _, _), Occurrences(_, _, _, _, _, _), Members(_, _, _, _, _)

\* The layers of the fewest occurrences that reach end, or none.
Occurrences(p, w, current, end, limit, layers) ==
  IF Len(layers) = limit \/ current = {} THEN <<>>
  ELSE LET layer == Layer([s \in current |-> {e \in Body(p, w, s) : s < e /\ e <= end}], current)
           more == Append(layers, layer)
       IN IF Reached(p, Len(more), layer, end) THEN more
          ELSE Occurrences(p, w, DOMAIN layer, end, limit, more)

Members(p, w, current, end, layers) ==
  IF Len(layers) = Len(p.children) THEN layers
  ELSE LET c == p.children[Len(layers) + 1]
           layer == Layer([s \in current |-> {e \in Match(c, w, s) : e <= end}], current)
       IN Members(p, w, DOMAIN layer, end, Append(layers, layer))

\* The witness of one occurrence. A leaf is an element particle, or a wildcard in
\* a bound document; the matcher without bindings (Context.local is nil) leaves
\* wildcards out of the witness and is not modelled.
BodyWitness(p, w, s, end) ==
  CASE IsLeaf(p) -> IF end = s + 1 THEN {<<p.id>>} ELSE {}
    [] p.kind = "choice" ->
         LET fitting == {i \in DOMAIN p.children : end \in Match(p.children[i], w, s)}
         IN IF fitting = {} THEN {} ELSE Witness(p.children[Min(fitting)], w, s, end)
    [] p.kind = "sequence" ->
         LET layers == Members(p, w, {s}, end, <<>>)
             at == Split(layers, end)
         IN IF layers = <<>> \/ end \notin DOMAIN Last(layers) THEN {}
            ELSE Joined([i \in DOMAIN p.children |-> Witness(p.children[i], w, at[i], at[i + 1])])
    [] p.kind = "all" -> IF All(p, w, s, {}) = {end} THEN {AllWitness(p, w, s, end)} ELSE {}

Witness(p, w, s, end) ==
  IF s = end THEN IF CanBeEmpty(p) THEN {<<>>} ELSE {}
  ELSE IF p.max = 1 THEN BodyWitness(p, w, s, end)
  ELSE LET layers == Occurrences(p, w, {s}, end, Limit(p, w, s), <<>>)
           at == Split(layers, end)
       IN IF layers = <<>> THEN {}
          ELSE Joined([i \in DOMAIN layers |-> BodyWitness(p, w, at[i], at[i + 1])])

\* Run: the longest end and its witness; no match has end -1.
NoMatch == [next |-> -1, witness |-> {}]

Run(p, w) ==
  LET ends == Match(p, w, 0)
  IN IF ~Prepare(p) \/ ends = {} THEN NoMatch
     ELSE [next |-> Max(ends), witness |-> Witness(p, w, 0, Max(ends))]

-----------------------------------------------------------------------------
(* Reference: derivations, as sequences of <<leaf id, name>>                *)

Concat(A, B, n) == {s \in {a \o b : a \in A, b \in B} : Len(s) <= n}

RECURSIVE Power(_, _, _)
Power(A, k, n) == IF k = 0 THEN {<<>>} ELSE Concat(Power(A, k - 1, n), A, n)

\* The derivations of length at most n: of the body, and of the particle.
RECURSIVE BodyDerivations(_, _), Derivations(_, _), SequenceDerivations(_, _)
SequenceDerivations(members, n) ==
  IF members = <<>> THEN {<<>>}
  ELSE Concat(SequenceDerivations(Front(members), n), Derivations(Last(members), n), n)

\* Every order of a set of members that includes the required ones.
Arrangements(p, n) ==
  LET active == {i \in DOMAIN p.children : p.children[i].max # 0}
      required == {i \in active : p.children[i].min > 0}
      orders == UNION {SetToSeqs(S) : S \in {T \in SUBSET active : Cardinality(T) <= n}}
  IN {[word |-> [k \in DOMAIN o |-> <<p.children[o[k]].id, CHOOSE x \in p.children[o[k]].names : TRUE>>],
       complete |-> required \subseteq {o[k] : k \in DOMAIN o}] : o \in orders}

BodyDerivations(p, n) ==
  CASE IsLeaf(p)           -> {<< <<p.id, x>> >> : x \in p.names}
    [] p.kind = "choice"   -> UNION {Derivations(p.children[i], n) : i \in DOMAIN p.children}
    [] p.kind = "sequence" -> SequenceDerivations(p.children, n)
    [] p.kind = "all"      -> {a.word : a \in {b \in Arrangements(p, n) : b.complete}}

Derivations(p, n) ==
  UNION {Power(BodyDerivations(p, n), k, n) : k \in p.min .. (IF p.max = Unbounded THEN p.min + n ELSE p.max)}

Names(d) == [i \in DOMAIN d |-> d[i][2]]
=============================================================================
