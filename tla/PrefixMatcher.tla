--------------------------- MODULE PrefixMatcher ---------------------------
(***************************************************************************)
(* Prefix binding (internal/xsd/prefix.go): a push matcher takes the       *)
(* children of an element one by one and binds each to the leaf particle   *)
(* that it and the children before it determine, whatever follows.  It     *)
(* keeps the set of configurations in which the latest child was consumed. *)
(* A configuration is the path of open frames from the root particle to    *)
(* the leaf.  Binding stops for good at a child that no configuration      *)
(* accepts, at one with two candidate leaves and at one that leaves too    *)
(* many configurations.  The bound on visits (prefixVisitLimit) stops it   *)
(* in the same way and is left out.  Configurations are canonical: two     *)
(* with the same frames are one.                                           *)
(***************************************************************************)
EXTENDS ContentModel

CONSTANTS
  Particles,     \* the content models
  Alphabet,      \* names of children
  MaxChildren,   \* bound on the children of an element
  StateLimit     \* prefixStateLimit

ASSUME LimitAssumption == MaxChildren \in Nat /\ StateLimit \in Nat \ {0}

VARIABLES
  particle,    \* the content model
  children,    \* names of the children so far
  states,      \* m.states
  bound,       \* leaf ids of the children bound so far
  stopped, ambiguous

vars == <<particle, children, states, bound, stopped, ambiguous>>

-----------------------------------------------------------------------------
(* The search for the next child x                                          *)

Frame(q, count) == [particle |-> q, count |-> count, index |-> 1, used |-> {}, consumed |-> FALSE]

\* emit: in every frame the current occurrence has now consumed a child.
Emit(path) == {[i \in DOMAIN path |-> [path[i] EXCEPT !.consumed = TRUE]]}

\* Every unused member of the all group on top may consume the child.
AllMembers(path, x) ==
  LET f == Last(path)
      free == {i \in DOMAIN f.particle.children \ f.used :
                 f.particle.children[i].max # 0 /\ x \in f.particle.children[i].names}
  IN UNION {Emit(Append(Append(Front(path), [f EXCEPT !.index = i]), Frame(f.particle.children[i], 0))) :
              i \in free}

\* Defect: completed occurrences are not counted.
NotCounted(f) == f

\* One occurrence more.  For an unbounded particle the count saturates.
Counted(f) ==
  IF f.particle.max # Unbounded \/ f.count < f.particle.min THEN [f EXCEPT !.count = @ + 1] ELSE f

\* Defect: a particle is left only after its minimum was really consumed.
CanLeaveFull(f) == f.count >= f.particle.min

CanLeave(f) == f.count >= f.particle.min \/ Nullable(f.particle)

RECURSIVE Start(_, _), Leave(_, _)

\* Another occurrence of the particle on top, or none when that is enough.
Start(path, x) ==
  LET f == Last(path)
      q == f.particle
      fresh == Frame(q, f.count)
      Enter(i) == Start(Append(Append(Front(path), [fresh EXCEPT !.index = i]), Frame(q.children[i], 0)), x)
      another ==
        CASE IsLeaf(q)           -> IF x \in q.names THEN Emit(Append(Front(path), fresh)) ELSE {}
          [] q.kind = "sequence" -> IF q.children # <<>> THEN Enter(1) ELSE {}
          [] q.kind = "choice"   -> UNION {Enter(i) : i \in DOMAIN q.children}
          [] q.kind = "all"      -> AllMembers(Append(Front(path), fresh), x)
  IN (IF AllowsAnother(q, f.count) THEN another ELSE {})
       \cup (IF CanLeave(f) THEN Leave(Front(path), x) ELSE {})

Finish(path, x) == Start(Append(Front(path), Counted(Last(path))), x)

\* The parent's current member was left: go on with the next one, or finish
\* the body when the occurrence has consumed a child.
Leave(path, x) ==
  IF path = <<>> THEN {}
  ELSE LET f == Last(path)
           q == f.particle
           finished(top) == IF f.consumed THEN Finish(Append(Front(path), top), x) ELSE {}
           marked == [f EXCEPT !.used = @ \cup {f.index}]
       IN CASE q.kind = "sequence" /\ f.index < Len(q.children) ->
                 Start(Append(Append(Front(path), [f EXCEPT !.index = @ + 1]),
                              Frame(q.children[f.index + 1], 0)), x)
            [] q.kind = "all" ->
                 AllMembers(Append(Front(path), marked), x) \cup
                   IF \E i \in DOMAIN q.children \ marked.used : q.children[i].min > 0 THEN {}
                   ELSE finished(marked)
            [] OTHER -> finished(f)

-----------------------------------------------------------------------------

Init ==
  /\ particle \in Particles /\ Prepare(particle)
  /\ children = <<>> /\ states = {} /\ bound = <<>>
  /\ stopped = FALSE /\ ambiguous = FALSE

\* push: the leaf that all configurations agree on is bound to the child.
push(x) ==
  LET out == IF bound = <<>> THEN Start(<<Frame(particle, 0)>>, x)
             ELSE UNION {Finish(path, x) : path \in states}
      leaves == {Last(path).particle : path \in out}
      overflow == Cardinality(out) > StateLimit
      stop == overflow \/ Cardinality(leaves) # 1
  IN /\ ~stopped /\ Len(children) < MaxChildren
     /\ children' = Append(children, x)
     /\ stopped' = stop
     /\ ambiguous' = (stop /\ out # {})
     /\ states' = IF stop THEN {} ELSE out
     /\ bound' = IF stop THEN bound ELSE Append(bound, (CHOOSE leaf \in leaves : TRUE).id)
     /\ UNCHANGED particle

\* Children after the first one that was not bound stay unbound.
pushStopped(x) ==
  /\ stopped /\ Len(children) < MaxChildren
  /\ children' = Append(children, x)
  /\ UNCHANGED <<particle, states, bound, stopped, ambiguous>>

Next == \E x \in Alphabet : push(x) \/ pushStopped(x)

Spec == Init /\ [][Next]_vars

-----------------------------------------------------------------------------
(* Properties                                                               *)

\* The beginnings, of length at most n, of derivations.
RECURSIVE Openings(_, _)
Openings(p, n) ==
  LET derivations == BodyDerivations(p, n)
      before(i) == SequenceDerivations(SubSeq(p.children, 1, i - 1), n)
      ofBody ==
        CASE IsLeaf(p)           -> derivations
          [] p.kind = "choice"   -> UNION {Openings(p.children[i], n) : i \in DOMAIN p.children}
          [] p.kind = "sequence" -> UNION {Concat(before(i), Openings(p.children[i], n), n) : i \in DOMAIN p.children}
          [] p.kind = "all"      -> {a.word : a \in Arrangements(p, n)}
      last == IF p.max = Unbounded THEN p.min + n ELSE p.max
  IN {<<>>} \cup UNION {Concat(Power(derivations, k - 1, n), ofBody, n) : k \in 1 .. last}

\* The derivations that begin with the first i children.
Reading(i) == {d \in Openings(particle, i) : Names(d) = SubSeq(children, 1, i)}

\* A complete match accepts the longest beginning of the children that the
\* content model derives, and none when it derives no beginning: skipped
\* repetitions, padding and greedy all groups lose nothing.
LongestExact ==
  Run(particle, children).next =
    LET n == Len(children)
        words == {Names(d) : d \in Derivations(particle, n)}
    IN Max({-1} \cup {i \in 0 .. n : SubSeq(children, 1, i) \in words})

\* A match always has a witness, and the leaves it names, in this order and
\* with these repetitions, derive the children it accounts for.
WitnessDerives ==
  LET result == Run(particle, children)
  IN result.next >= 0 =>
       \E ids \in result.witness :
         [i \in 1 .. result.next |-> <<ids[i], children[i]>>] \in Derivations(particle, result.next)

\* The bound leaves are the only ones: every derivation that begins with the
\* bound children reads them in this way, whatever follows, and there is one.
BindingDetermined ==
  bound # <<>> =>
    Reading(Len(bound)) = {[i \in DOMAIN bound |-> <<bound[i], children[i]>>]}

\* Without ambiguity binding stops only at a child that no continuation of
\* the content model accepts.
StopsOnlyWhenRejected ==
  stopped /\ ~ambiguous => Reading(Len(bound) + 1) = {}
=============================================================================
