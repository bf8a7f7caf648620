------------------------- MODULE ResourceGraphProofs -------------------------
(***************************************************************************)
(* Proofs about the walk over the resource graph, for any web of finitely  *)
(* many links per document, any resolver and any limits.                   *)
(*                                                                         *)
(* WalkInv relates the run's queue to the session's adoptions, edges and   *)
(* seals: every item of the queue is owned by the first adoption of its    *)
(* context, and the edges are exactly the templates walked so far.  The    *)
(* session therefore accepts every call of the run.                        *)
(*                                                                         *)
(* Layers says that the queue is in breadth-first order: depths never      *)
(* decrease along it and no link leads down by more than one.  By          *)
(* induction over distances, a context is queued at its distance from the  *)
(* primary document, and, with Exhaustive, a walk that nothing stopped has *)
(* expanded exactly what is within reach.  Within is the project's         *)
(* recursive reference; Iteration shows that it is well defined, Induction *)
(* is used as a fact about sets of numbers.                                *)
(***************************************************************************)
EXTENDS ResourceGraph, FiniteSetTheorems, FunctionTheorems, WellFoundedInduction, TLAPS

-----------------------------------------------------------------------------
(* The inductive invariant                                                  *)

\* The contexts there are: the primary document and what the resolver knows.
Contexts == {Root} \cup UNION {Known(uri) : uri \in DOMAIN Serve}

\* The link templates of the document a context stands for.
Templates(c) == 1..Len(Links[PinOf(c)])

\* What enqueue appends to the queue.
Items == [context : Contexts, adoption : Nat, depth : Nat]

\* Adoption a is the first one of its context.
IsOwner(a, list) ==
  a \in DOMAIN list /\ \A b \in DOMAIN list : list[b] = list[a] => a <= b

\* The session has an edge for template t of adoption a.
Has(a, t) == \E e \in edges : e[1] = a /\ e[2] = t

\* Types of the run's and the session's state; no call was refused.
Types ==
  /\ queue \in Seq(Items) /\ adoptions \in Seq(Contexts)
  /\ at \in 1..(Len(queue) + 1) /\ link \in Nat \ {0}
  /\ edges \subseteq Nat \X Nat \X Nat
  /\ stop # "refused"

\* One identity stands for one content, and what is adopted has a pin.
Pinned ==
  /\ pins \subseteq DOMAIN Links /\ cache \subseteq pins
  /\ \A x, y \in pins : CanonicalOf(x) = CanonicalOf(y) => x = y
  /\ \A a \in DOMAIN adoptions : PinOf(adoptions[a]) \in pins

\* The queue holds every expanded context once, with its owner.
Owned ==
  /\ Len(adoptions) >= 1
  /\ \A i \in DOMAIN queue :
       IsOwner(queue[i].adoption, adoptions) /\ adoptions[queue[i].adoption] = queue[i].context
  /\ \A i, j \in DOMAIN queue : queue[i].context = queue[j].context => i = j
  /\ expanded = {queue[i].context : i \in DOMAIN queue}

\* How far the walk has come: what is before at is sealed, and there is an edge
\* for every template walked and for no other.
Progress ==
  /\ DOMAIN sealed = {queue[i].adoption : i \in 1..(at - 1)}
  /\ \A i \in DOMAIN queue, t \in Nat :
       Has(queue[i].adoption, t) <=>
         t \in Templates(queue[i].context) /\ (i < at \/ (i = at /\ t < link))
  /\ \A e \in edges : /\ \E i \in DOMAIN queue : e[1] = queue[i].adoption
                      /\ e[3] = 0 \/ e[3] \in 2..Len(adoptions)
  /\ IsFiniteSet(edges) /\ linked = Cardinality(edges)

\* A satisfied bundle is the one of a finished run with every link resolved.
Resolved ==
  satisfied =>
    /\ phase = "done"
    /\ \A a \in DOMAIN adoptions : \A t \in Templates(adoptions[a]) :
         \E e \in edges : adoptions[e[1]] = adoptions[a] /\ e[2] = t /\ e[3] # 0

\* The run and the session agree.
WalkInv == Types /\ Pinned /\ Owned /\ Progress /\ Resolved

\* The walk has followed a link from one item's context to the other's.
Leads(i, j) == <<queue[i].context, queue[j].context>> \in Found

\* Depths never decrease along the queue and grow by at most one after at;
\* every context but the primary one was found from one less deep, and no link
\* leads further down than one level.
Layers ==
  /\ Len(queue) >= 1 /\ queue[1].context = Root /\ queue[1].depth = 1
  /\ \A i, j \in DOMAIN queue : i <= j => queue[i].depth <= queue[j].depth
  /\ \A i \in DOMAIN queue : i >= at => queue[i].depth <= queue[at].depth + 1
  /\ \A j \in DOMAIN queue : j > 1 =>
       /\ queue[j].depth \in 2..j
       /\ \E i \in DOMAIN queue : Leads(i, j) /\ queue[i].depth = queue[j].depth - 1
  /\ \A i, j \in DOMAIN queue : Leads(i, j) => queue[j].depth <= queue[i].depth + 1

\* What is adopted is expanded, or the walk has stopped; a run that finishes
\* without having stopped has walked the whole queue.
Exhaustive ==
  /\ stop = "none" => Seen \subseteq expanded
  /\ phase = "done" => stop # "none" \/ at > Len(queue)

\* The invariant of the walk.
Inv == WalkInv /\ Layers /\ Exhaustive
-----------------------------------------------------------------------------
(* Owners                                                                   *)

\* Every set of natural numbers has a least element.
LEMMA Least ==
  ASSUME NEW T, T \subseteq Nat, T # {}
  PROVE  \E x \in T : \A y \in T : x <= y
<1> DEFINE R == OpToRel(<, Nat)
<1>1. IsWellFoundedOn(R, Nat)
  BY NatLessThanWellFounded
<1>2. \A x, y \in Nat : x < y => <<x, y>> \in R
  BY DEF OpToRel
<1> HIDE DEF R
<1>3. PICK x \in T : \A y \in T : <<y, x>> \notin R
  BY <1>1, WFMin
<1>4. ASSUME NEW y \in T PROVE x <= y
  <2>1. x \in Nat /\ y \in Nat
    BY <1>3
  <2>2. ~(y < x)
    BY <1>2, <1>3, <2>1
  <2> QED
    BY <2>1, <2>2
<1> QED
  BY <1>4

\* The least adoption of a context is the one expansionOwner finds.
LEMMA OwnerIs ==
  ASSUME NEW list, DOMAIN list \subseteq Nat, NEW a, IsOwner(a, list)
  PROVE  expansionOwner(list[a], list) = a
<1> DEFINE P(x) == list[x] = list[a] /\ \A b \in DOMAIN list : list[b] = list[a] => x <= b
<1>1. a \in DOMAIN list /\ P(a)
  BY DEF IsOwner
<1>2. ASSUME NEW x \in DOMAIN list, P(x) PROVE x = a
  <2>1. x <= a /\ a <= x /\ x \in Nat /\ a \in Nat
    BY <1>1, <1>2
  <2> QED
    BY <2>1
<1>3. expansionOwner(list[a], list) = CHOOSE x \in DOMAIN list : P(x)
  BY DEF expansionOwner
<1> HIDE DEF P
<1>4. (CHOOSE x \in DOMAIN list : P(x)) = a
  BY <1>1, <1>2
<1> QED
  BY <1>3, <1>4

\* Every adopted context has an owner.
LEMMA HasOwner ==
  ASSUME NEW list, DOMAIN list \subseteq Nat, NEW b \in DOMAIN list
  PROVE  /\ IsOwner(expansionOwner(list[b], list), list)
         /\ list[expansionOwner(list[b], list)] = list[b]
<1>1. PICK a \in {x \in DOMAIN list : list[x] = list[b]} : \A y \in {x \in DOMAIN list : list[x] = list[b]} : a <= y
  BY Least
<1>2. IsOwner(a, list) /\ list[a] = list[b]
  BY <1>1 DEF IsOwner
<1> QED
  BY <1>2, OwnerIs

\* An owner stays one when an adoption is appended.
LEMMA OwnerStays ==
  ASSUME NEW list \in Seq(Contexts), NEW c \in Contexts, NEW a, IsOwner(a, list)
  PROVE  IsOwner(a, Append(list, c)) /\ Append(list, c)[a] = list[a]
<1>1. DOMAIN list = 1..Len(list) /\ DOMAIN Append(list, c) = 1..(Len(list) + 1)
  OBVIOUS
<1>2. a \in 1..Len(list) /\ Append(list, c)[a] = list[a]
  BY <1>1 DEF IsOwner
<1>3. ASSUME NEW b \in 1..(Len(list) + 1), Append(list, c)[b] = list[a] PROVE a <= b
  <2>1. CASE b = Len(list) + 1
    BY <1>2, <2>1
  <2>2. CASE b # Len(list) + 1
    <3>1. b \in 1..Len(list) /\ Append(list, c)[b] = list[b]
      BY <2>2
    <3> QED
      BY <1>1, <1>3, <3>1 DEF IsOwner
  <2> QED
    BY <2>1, <2>2
<1> QED
  BY <1>1, <1>2, <1>3 DEF IsOwner

-----------------------------------------------------------------------------
(* The link being walked                                                    *)

\* The item that has the link, its owner, and what is still to happen to them.
LEMMA AtLink ==
  ASSUME WalkInv, HasLink
  PROVE  /\ at \in DOMAIN queue /\ Item = queue[at] /\ Item \in Items
         /\ link \in Templates(Item.context)
         /\ IsOwner(Item.adoption, adoptions) /\ adoptions[Item.adoption] = Item.context
         /\ Item.adoption \notin DOMAIN sealed
         /\ ~Has(Item.adoption, link)
<1>1. at \in DOMAIN queue /\ queue[at] \in Items /\ Item = queue[at]
  BY DEF WalkInv, Types, HasLink, Walking, Item
<1>2. link \in Templates(Item.context)
  <2>1. PinOf(Item.context) \in DOMAIN Links
    BY <1>1 DEF WalkInv, Pinned, Owned, IsOwner
  <2>2. Len(Links[PinOf(Item.context)]) \in Nat
    BY <2>1, WebAssumption
  <2> QED
    BY <2>2 DEF WalkInv, Types, HasLink, Templates
<1>3. IsOwner(Item.adoption, adoptions) /\ adoptions[Item.adoption] = Item.context
  BY <1>1 DEF WalkInv, Owned
<1>4. Item.adoption \notin DOMAIN sealed
  <2> SUFFICES ASSUME NEW i \in 1..(at - 1), queue[i].adoption = Item.adoption PROVE FALSE
    BY DEF WalkInv, Progress
  <2>1. i \in DOMAIN queue /\ i # at
    BY <1>1 DEF WalkInv, Types
  <2>2. queue[i].context = queue[at].context
    BY <1>1, <1>3, <2>1 DEF WalkInv, Owned
  <2> QED
    BY <1>1, <2>1, <2>2 DEF WalkInv, Owned
<1>5. ~Has(Item.adoption, link)
  <2>1. link \in Nat /\ at \in Nat
    BY DEF WalkInv, Types
  <2> QED
    BY <1>1, <2>1 DEF WalkInv, Progress
<1> QED
  BY <1>1, <1>2, <1>3, <1>4, <1>5

\* The session accepts an edge without target ...
LEMMA AcceptsUnresolved ==
  ASSUME WalkInv, HasLink
  PROVE  CanObserveEdge(Item.adoption, link, 0, adoptions)
<1>1. DOMAIN adoptions \subseteq Nat
  BY DEF WalkInv, Types
<1>2. expansionOwner(adoptions[Item.adoption], adoptions) = Item.adoption
  BY <1>1, AtLink, OwnerIs
<1> QED
  BY <1>2, AtLink DEF CanObserveEdge, Has

\* ... and one to the target adopted for it.
LEMMA AcceptsTarget ==
  ASSUME WalkInv, HasLink, NEW c \in Contexts
  PROVE  CanObserveEdge(Item.adoption, link, Len(Append(adoptions, c)), Append(adoptions, c))
<1> DEFINE list == Append(adoptions, c)
<1>1. adoptions \in Seq(Contexts) /\ Len(list) = Len(adoptions) + 1 /\ DOMAIN list \subseteq Nat
  BY DEF WalkInv, Types
<1>2. IsOwner(Item.adoption, list)
  BY <1>1, AtLink, OwnerStays
<1>3. expansionOwner(list[Item.adoption], list) = Item.adoption
  BY <1>1, <1>2, OwnerIs
<1>4. Item.adoption \in 1..Len(adoptions)
  BY <1>1, AtLink DEF IsOwner
<1>5. Len(adoptions) \in Nat /\ Len(adoptions) >= 1
  BY <1>1 DEF WalkInv, Owned
<1>6. Len(list) # 0 /\ Len(list) # 1 /\ Len(list) # Item.adoption
  BY <1>1, <1>4, <1>5
<1>7. \A e \in edges : e[3] # Len(list)
  BY <1>1, <1>5 DEF WalkInv, Progress
<1> QED
  BY <1>3, <1>6, <1>7, AtLink DEF CanObserveEdge, Has

-----------------------------------------------------------------------------
(* The steps of the walk                                                    *)

\* The queue only grows, by items whose owner no other item has.
Grows ==
  /\ queue' \in Seq(Items)
  /\ \A i \in DOMAIN queue : i \in DOMAIN queue' /\ queue'[i] = queue[i]
  /\ \A i \in DOMAIN queue' \ DOMAIN queue :
       i > at /\ \A j \in DOMAIN queue : queue'[i].adoption # queue[j].adoption

\* Different items have different owners.
LEMMA OwnersDiffer ==
  ASSUME WalkInv, NEW i \in DOMAIN queue, NEW j \in DOMAIN queue, queue[i].adoption = queue[j].adoption
  PROVE  i = j
BY DEF WalkInv, Owned

\* Adopting a target, expanded or not.
LEMMA AdoptStep ==
  ASSUME WalkInv, HasLink, NEW c \in Contexts, adoptions' = Append(adoptions, c),
         enqueue(c, adoptions') \/ UNCHANGED <<expanded, queue>>
  PROVE  Owned' /\ Grows /\ adoptions' \in Seq(Contexts) /\ Len(adoptions') = Len(adoptions) + 1
<1>1. adoptions \in Seq(Contexts) /\ queue \in Seq(Items) /\ at \in DOMAIN queue
  BY AtLink DEF WalkInv, Types
<1>2. adoptions' \in Seq(Contexts) /\ Len(adoptions') = Len(adoptions) + 1 /\ adoptions'[Len(adoptions')] = c
      /\ DOMAIN adoptions' = 1..Len(adoptions')
  BY <1>1
<1>3. Len(adoptions') >= 1
  BY <1>1, <1>2 DEF WalkInv, Owned
<1>4. \A i \in DOMAIN queue : /\ IsOwner(queue[i].adoption, adoptions')
                              /\ adoptions'[queue[i].adoption] = queue[i].context
  <2> TAKE i \in DOMAIN queue
  <2>1. IsOwner(queue[i].adoption, adoptions) /\ adoptions[queue[i].adoption] = queue[i].context
    BY DEF WalkInv, Owned
  <2>2. /\ IsOwner(queue[i].adoption, Append(adoptions, c))
        /\ Append(adoptions, c)[queue[i].adoption] = adoptions[queue[i].adoption]
    BY <1>1, <2>1, OwnerStays
  <2> QED
    BY <2>1, <2>2
<1>5. CASE UNCHANGED <<expanded, queue>>
  <2>1. queue' = queue /\ expanded' = expanded
    BY <1>5
  <2>2. Grows
    BY <1>1, <2>1 DEF Grows
  <2>3. Owned'
    <3>1. /\ \A i, j \in DOMAIN queue : queue[i].context = queue[j].context => i = j
          /\ expanded = {queue[i].context : i \in DOMAIN queue}
      BY DEF WalkInv, Owned
    <3>2. expanded' = {queue'[i].context : i \in DOMAIN queue'}
      BY <2>1, <3>1
    <3>3. \A i, j \in DOMAIN queue' : queue'[i].context = queue'[j].context => i = j
      BY <2>1, <3>1
    <3>4. \A i \in DOMAIN queue' : /\ IsOwner(queue'[i].adoption, adoptions')
                                   /\ adoptions'[queue'[i].adoption] = queue'[i].context
      BY <1>4, <2>1
    <3> QED
      BY <1>3, <3>2, <3>3, <3>4 DEF Owned
  <2> QED
    BY <1>2, <2>2, <2>3
<1>6. CASE enqueue(c, adoptions') /\ c \notin expanded
  <2> DEFINE own == expansionOwner(c, adoptions')
             new == [context |-> c, adoption |-> own, depth |-> Item.depth + 1]
  <2>1. queue' = Append(queue, new) /\ expanded' = expanded \cup {c}
    BY <1>6 DEF enqueue, Expanded
  <2>2. IsOwner(own, adoptions') /\ adoptions'[own] = c
    <3>1. Len(adoptions') \in DOMAIN adoptions' /\ DOMAIN adoptions' \subseteq Nat
      BY <1>2, <1>3
    <3> QED
      BY <1>2, <3>1, HasOwner
  <2>3. new \in Items
    <3>1. own \in Nat
      BY <1>2, <2>2 DEF IsOwner
    <3>2. Item.depth \in Nat
      BY AtLink DEF Items
    <3> QED
      BY <3>1, <3>2 DEF Items
  <2>4. new.context = c /\ new.adoption = own
    OBVIOUS
  <2> HIDE DEF new, own
  <2>5. /\ queue' \in Seq(Items) /\ DOMAIN queue = 1..Len(queue) /\ DOMAIN queue' = 1..(Len(queue) + 1)
        /\ \A i \in DOMAIN queue : queue'[i] = queue[i]
        /\ queue'[Len(queue) + 1] = new
    BY <1>1, <2>1, <2>3
  <2>6. \A j \in DOMAIN queue : queue[j].context # c
    BY <1>6 DEF WalkInv, Owned
  <2>7. \A j \in DOMAIN queue : queue[j].adoption # own
    BY <1>4, <2>2, <2>6
  <2>8. Grows
    <3>1. \A i \in DOMAIN queue' \ DOMAIN queue : i = Len(queue) + 1 /\ i > at
      BY <1>1, <2>5
    <3> QED
      BY <2>4, <2>5, <2>7, <3>1 DEF Grows
  <2>9. \A i \in DOMAIN queue' : /\ IsOwner(queue'[i].adoption, adoptions')
                                 /\ adoptions'[queue'[i].adoption] = queue'[i].context
    <3>1. \A i \in DOMAIN queue' : i \in DOMAIN queue \/ i = Len(queue) + 1
      BY <2>5
    <3> QED
      BY <1>4, <2>2, <2>4, <2>5, <3>1
  <2>10. \A i, j \in DOMAIN queue' : queue'[i].context = queue'[j].context => i = j
    <3>1. \A i, j \in DOMAIN queue : queue[i].context = queue[j].context => i = j
      BY DEF WalkInv, Owned
    <3>2. \A i \in DOMAIN queue' : i \in DOMAIN queue \/ i = Len(queue) + 1
      BY <2>5
    <3> QED
      BY <2>4, <2>5, <2>6, <3>1, <3>2
  <2>11. expanded' = {queue'[i].context : i \in DOMAIN queue'}
    <3>1. \A i \in DOMAIN queue' : i \in DOMAIN queue \/ i = Len(queue) + 1
      BY <2>5
    <3>2. expanded = {queue[i].context : i \in DOMAIN queue}
      BY DEF WalkInv, Owned
    <3>3. DOMAIN queue \subseteq DOMAIN queue' /\ Len(queue) + 1 \in DOMAIN queue'
      BY <1>1, <2>5
    <3> QED
      BY <2>1, <2>4, <2>5, <3>1, <3>2, <3>3
  <2> QED
    BY <1>2, <1>3, <2>8, <2>9, <2>10, <2>11 DEF Owned
<1>7. CASE c \in expanded /\ enqueue(c, adoptions')
  BY <1>5, <1>7 DEF enqueue, Expanded
<1> QED
  BY <1>5, <1>6, <1>7

\* The edge of the link.
LEMMA EdgeStep ==
  ASSUME WalkInv, HasLink, NEW target,
         target = 0 \/ target \in 2..Len(adoptions'),
         edges' = edges \cup {<<Item.adoption, link, target>>},
         linked' = linked + 1, link' = link + 1, at' = at, sealed' = sealed,
         Len(adoptions') \in Nat, Len(adoptions') >= Len(adoptions), Grows
  PROVE  Progress' /\ edges' \subseteq Nat \X Nat \X Nat /\ link' \in Nat \ {0}
<1> DEFINE own == Item.adoption
           edge == <<own, link, target>>
<1>1. /\ own = queue[at].adoption /\ own \in Nat /\ at \in DOMAIN queue /\ link \in Nat \ {0} /\ at \in Nat
      /\ link \in Templates(queue[at].context) /\ Item = queue[at] /\ ~Has(own, link)
  BY AtLink DEF Items, WalkInv, Types
<1>2. edge[1] = own /\ edge[2] = link /\ edge[3] = target /\ edges' = edges \cup {edge}
  OBVIOUS
<1> HIDE DEF edge
<1>3. edges' \subseteq Nat \X Nat \X Nat /\ link' \in Nat \ {0}
  <2>1. target \in Nat
    OBVIOUS
  <2> QED
    BY <1>1, <2>1 DEF edge, WalkInv, Types
<1>4. \A a, t : Has(a, t)' <=> Has(a, t) \/ (a = own /\ t = link)
  BY <1>2 DEF Has
<1> HIDE DEF own
<1>5. DOMAIN sealed' = {queue'[i].adoption : i \in 1..(at' - 1)}
  <2>1. \A i \in 1..(at - 1) : queue'[i] = queue[i]
    BY <1>1 DEF Grows, WalkInv, Types
  <2>2. DOMAIN sealed = {queue[i].adoption : i \in 1..(at - 1)}
    BY DEF WalkInv, Progress
  <2> QED
    BY <2>1, <2>2
<1>6. ASSUME NEW i \in DOMAIN queue, NEW t \in Nat
      PROVE  Has(queue[i].adoption, t)' <=>
               t \in Templates(queue[i].context) /\ (i < at \/ (i = at /\ t < link + 1))
  <2>1. Has(queue[i].adoption, t) <=> t \in Templates(queue[i].context) /\ (i < at \/ (i = at /\ t < link))
    BY DEF WalkInv, Progress
  <2>2. (queue[i].adoption = own) <=> (i = at)
    BY <1>1, OwnersDiffer
  <2>3. i \in Nat
    BY DEF WalkInv, Types
  <2>4. (t < link + 1) <=> (t < link \/ t = link)
    BY <1>1
  <2> DEFINE g == queue[i].adoption
  <2>k. queue'[i] = queue[i]
    BY DEF Grows
  <2>h. Has(g, t)' <=> Has(g, t) \/ (g = own /\ t = link)
    BY <1>4, <2>k
  <2> HIDE DEF g
  <2>5. CASE i = at
    <3>1. Has(queue[i].adoption, t)' <=> Has(queue[i].adoption, t) \/ t = link
      BY <2>h, <2>2, <2>5 DEF g
    <3>2. ~(at < at)
      BY <1>1
    <3> QED
      BY <1>1, <2>1, <2>4, <2>5, <3>1, <3>2
  <2>6. CASE i # at
    BY <2>h, <2>1, <2>2, <2>6 DEF g
  <2> QED
    BY <2>5, <2>6
<1>7. ASSUME NEW i \in DOMAIN queue' \ DOMAIN queue, NEW t \in Nat
      PROVE  ~Has(queue[i].adoption, t)' /\ ~(i < at \/ i = at)
  <2>1. i > at /\ \A j \in DOMAIN queue : queue'[i].adoption # queue[j].adoption
    BY DEF Grows
  <2>2. i \in Nat
    BY DEF Grows
  <2>3. ~Has(queue'[i].adoption, t)
    BY <2>1 DEF Has, WalkInv, Progress
  <2> QED
    BY <1>1, <1>4, <2>1, <2>2, <2>3
<1>8. \A i \in DOMAIN queue', t \in Nat :
        Has(queue[i].adoption, t)' <=>
          t \in Templates(queue'[i].context) /\ (i < at' \/ (i = at' /\ t < link'))
  <2> TAKE i \in DOMAIN queue', t \in Nat
  <2>1. CASE i \in DOMAIN queue
    <3>1. queue'[i] = queue[i]
      BY <2>1 DEF Grows
    <3> QED
      BY <1>6, <2>1, <3>1
  <2>2. CASE i \notin DOMAIN queue
    BY <1>7, <2>2
  <2> QED
    BY <2>1, <2>2
<1>9. \A e \in edges' : /\ \E i \in DOMAIN queue' : e[1] = queue'[i].adoption
                        /\ e[3] = 0 \/ e[3] \in 2..Len(adoptions')
  <2> TAKE e \in edges'
  <2>1. CASE e = edge
    BY <1>1, <1>2, <2>1 DEF Grows
  <2>2. CASE e \in edges
    <3>1. PICK i \in DOMAIN queue : e[1] = queue[i].adoption
      BY <2>2 DEF WalkInv, Progress
    <3>2. e[3] = 0 \/ e[3] \in 2..Len(adoptions)
      BY <2>2 DEF WalkInv, Progress
    <3>3. Len(adoptions) \in Nat
      BY DEF WalkInv, Types
    <3>4. e[3] = 0 \/ e[3] \in 2..Len(adoptions')
      BY <3>2, <3>3
    <3>5. i \in DOMAIN queue' /\ queue'[i] = queue[i]
      BY <3>1 DEF Grows
    <3> QED
      BY <3>1, <3>4, <3>5
  <2> QED
    BY <1>2, <2>1, <2>2
<1>10. IsFiniteSet(edges') /\ linked' = Cardinality(edges')
  <2>1. edge \notin edges
    BY <1>1, <1>2 DEF Has
  <2>2. IsFiniteSet(edges) /\ linked = Cardinality(edges)
    BY DEF WalkInv, Progress
  <2>3. IsFiniteSet(edges \cup {edge}) /\ Cardinality(edges \cup {edge}) = Cardinality(edges) + 1
    BY <2>1, <2>2, FS_AddElement
  <2> QED
    BY <1>2, <2>2, <2>3
<1> QED
  BY <1>3, <1>5, <1>8, <1>9, <1>10 DEF Progress, Templates

\* A finished run has no link left to walk.
LEMMA NotSatisfied ==
  ASSUME WalkInv, phase = "walking", satisfied' = satisfied
  PROVE  Resolved'
BY DEF WalkInv, Resolved

\* A link without a target keeps the invariant, and the session takes its edge.
LEMMA UnresolvedStep ==
  ASSUME WalkInv, HasLink, NEW error, error # "refused", UnresolvedLink(error)
  PROVE  WalkInv' /\ edges' = edges \cup {<<Item.adoption, link, 0>>} /\ stop' = error
<1>1. edges' = edges \cup {<<Item.adoption, link, 0>>} /\ stop' = error
  BY AcceptsUnresolved DEF UnresolvedLink
<1>2. /\ linked' = linked + 1 /\ link' = link + 1 /\ queue' = queue /\ at' = at /\ expanded' = expanded
      /\ pins' = pins /\ cache' = cache /\ adoptions' = adoptions /\ sealed' = sealed
      /\ satisfied' = satisfied
  BY DEF UnresolvedLink
<1>3. Grows
  BY <1>2 DEF Grows, WalkInv, Types
<1>4. Len(adoptions') \in Nat /\ Len(adoptions') >= Len(adoptions)
  BY <1>2 DEF WalkInv, Types
<1>5. Progress' /\ edges' \subseteq Nat \X Nat \X Nat /\ link' \in Nat \ {0}
  BY <1>1, <1>2, <1>3, <1>4, EdgeStep
<1>6. Types'
  BY <1>1, <1>2, <1>5 DEF WalkInv, Types
<1>7. Pinned'
  BY <1>2 DEF WalkInv, Pinned
<1>8. Owned'
  BY <1>2 DEF WalkInv, Owned, IsOwner
<1>9. Resolved'
  BY <1>2, NotSatisfied DEF HasLink, Walking
<1> QED
  BY <1>1, <1>5, <1>6, <1>7, <1>8, <1>9 DEF WalkInv

\* A link with a target keeps the invariant, and the session takes its edge.
LEMMA FollowStep ==
  ASSUME WalkInv, HasLink, NEW c \in Contexts, NEW error, error # "refused", FollowLink(c, error),
         pins' \subseteq DOMAIN Links, pins \subseteq pins', cache' \subseteq pins', PinOf(c) \in pins',
         \A x, y \in pins' : CanonicalOf(x) = CanonicalOf(y) => x = y
  PROVE  /\ WalkInv' /\ adoptions' = Append(adoptions, c) /\ stop' = error
         /\ edges' = edges \cup {<<Item.adoption, link, Len(adoptions')>>}
<1>1. /\ edges' = edges \cup {<<Item.adoption, link, Len(adoptions')>>} /\ stop' = error
      /\ adoptions' = Append(adoptions, c)
  BY AcceptsTarget DEF FollowLink
<1>2. /\ linked' = linked + 1 /\ link' = link + 1 /\ at' = at /\ sealed' = sealed /\ satisfied' = satisfied
      /\ enqueue(c, adoptions') \/ UNCHANGED <<expanded, queue>>
  BY <1>1 DEF FollowLink
<1>3. Owned' /\ Grows /\ adoptions' \in Seq(Contexts) /\ Len(adoptions') = Len(adoptions) + 1
  BY <1>1, <1>2, AdoptStep
<1>4. /\ Len(adoptions') \in Nat /\ Len(adoptions') >= Len(adoptions)
      /\ Len(adoptions') \in 2..Len(adoptions')
  BY <1>3 DEF WalkInv, Types, Owned
<1>5. Progress' /\ edges' \subseteq Nat \X Nat \X Nat /\ link' \in Nat \ {0}
  BY <1>1, <1>2, <1>3, <1>4, EdgeStep
<1>6. Types'
  <2>1. queue \in Seq(Items) /\ queue' \in Seq(Items) /\ at \in 1..Len(queue)
    BY <1>3, AtLink DEF Grows, WalkInv, Types
  <2>2. at \in DOMAIN queue'
    BY <1>3, <2>1 DEF Grows
  <2>3. at' \in 1..(Len(queue') + 1)
    BY <1>2, <2>1, <2>2
  <2> QED
    BY <1>1, <1>3, <1>5, <2>1, <2>3 DEF Types
<1>7. Pinned'
  <2>1. ASSUME NEW a \in DOMAIN adoptions' PROVE PinOf(adoptions'[a]) \in pins'
    <3>1. adoptions \in Seq(Contexts)
      BY DEF WalkInv, Types
    <3>2. (a \in DOMAIN adoptions /\ adoptions'[a] = adoptions[a]) \/ adoptions'[a] = c
      BY <1>1, <3>1
    <3> QED
      BY <3>2 DEF WalkInv, Pinned
  <2> QED
    BY <2>1 DEF Pinned
<1>8. Resolved'
  BY <1>2, NotSatisfied DEF HasLink, Walking
<1> QED
  BY <1>1, <1>3, <1>5, <1>6, <1>7, <1>8 DEF WalkInv

\* The pins of the run and the target of a link.
LEMMA PinsAgree ==
  ASSUME WalkInv
  PROVE  /\ pins \subseteq DOMAIN Links /\ cache \subseteq pins
         /\ \A x, y \in pins : CanonicalOf(x) = CanonicalOf(y) => x = y
         /\ \A uri \in DOMAIN Serve : \A answer \in Known(uri) :
              answer \in Contexts /\ PinOf(answer) \in DOMAIN Links
BY WebAssumption DEF WalkInv, Pinned, Contexts

\* The resolver is asked for URIs only.
LEMMA TemplateServed ==
  ASSUME WalkInv, External
  PROVE  Template \in DOMAIN Serve
<1>1. HasLink /\ Template \notin {Self, Unusable}
  BY DEF External, MayLink
<1>2. PinOf(Item.context) \in DOMAIN Links /\ link \in Templates(Item.context)
  BY <1>1, AtLink DEF WalkInv, Pinned, Owned, IsOwner
<1>3. Links[PinOf(Item.context)] \in Seq(DOMAIN Serve \cup {Self, Unusable})
  BY <1>2, WebAssumption
<1>4. Template \in DOMAIN Serve \cup {Self, Unusable}
  BY <1>2, <1>3 DEF Template, Templates
<1> QED
  BY <1>1, <1>4

\* A link was followed to context c.
Followed(c, error) ==
  /\ HasLink /\ c \in Contexts /\ FollowLink(c, error)
  /\ adoptions' = Append(adoptions, c) /\ stop' = error
  /\ edges' = edges \cup {<<Item.adoption, link, Len(adoptions')>>}

\* A same-document reference is followed to the context being walked.
LEMMA SelfStep ==
  ASSUME WalkInv, walkSelf
  PROVE  WalkInv' /\ Followed(Item.context, "none")
<1>1. HasLink /\ FollowLink(Item.context, "none") /\ pins' = pins /\ cache' = cache
  BY DEF walkSelf, MayLink
<1>2. Item.context \in Contexts /\ PinOf(Item.context) \in pins
  BY <1>1, AtLink DEF Items, WalkInv, Pinned, Owned, IsOwner
<1>3. /\ WalkInv' /\ adoptions' = Append(adoptions, Item.context) /\ stop' = "none"
      /\ edges' = edges \cup {<<Item.adoption, link, Len(adoptions')>>}
  BY <1>1, <1>2, PinsAgree, FollowStep
<1> QED
  BY <1>1, <1>2, <1>3 DEF Followed

\* So is a document that was assessed before.
LEMMA CachedStep ==
  ASSUME WalkInv, NEW answer, resolveCached(answer)
  PROVE  WalkInv' /\ Followed(answer, "none")
<1>1. /\ HasLink /\ FollowLink(answer, "none") /\ pins' = pins /\ cache' = cache
      /\ PinOf(answer) \in cache /\ answer \in Known(Template) /\ External
  BY DEF resolveCached, Resolving, External, MayLink
<1>2. answer \in Contexts
  BY <1>1, PinsAgree, TemplateServed
<1>3. /\ WalkInv' /\ adoptions' = Append(adoptions, answer) /\ stop' = "none"
      /\ edges' = edges \cup {<<Item.adoption, link, Len(adoptions')>>}
  BY <1>1, <1>2, PinsAgree, FollowStep
<1> QED
  BY <1>1, <1>2, <1>3 DEF Followed

\* A new document is pinned: its identity stood for nothing else.
LEMMA DocumentStep ==
  ASSUME WalkInv, NEW answer, resolveDocument(answer)
  PROVE  WalkInv' /\ \E error \in {"none", "document"} : Followed(answer, error)
<1> DEFINE pin == PinOf(answer)
           error == IF Assessment[pin] = "failing" THEN "document" ELSE "none"
<1>1. /\ HasLink /\ FollowLink(answer, error) /\ pins' = pins \cup {pin}
      /\ cache' \subseteq cache \cup {pin}
      /\ ~Conflicts(pin) /\ answer \in Known(Template) /\ External
  BY DEF resolveDocument, Resolving, External, MayLink
<1>2. answer \in Contexts /\ pin \in DOMAIN Links
  BY <1>1, PinsAgree, TemplateServed
<1>3. error \in {"none", "document"} /\ error # "refused"
  OBVIOUS
<1>4. \A x, y \in pins' : CanonicalOf(x) = CanonicalOf(y) => x = y
  BY <1>1, PinsAgree DEF Conflicts
<1>5. /\ pins' \subseteq DOMAIN Links /\ pins \subseteq pins' /\ cache' \subseteq pins' /\ pin \in pins'
  BY <1>1, <1>2, PinsAgree
<1> HIDE DEF error
<1>6. /\ WalkInv' /\ adoptions' = Append(adoptions, answer) /\ stop' = error
      /\ edges' = edges \cup {<<Item.adoption, link, Len(adoptions')>>}
  BY <1>1, <1>2, <1>3, <1>4, <1>5, FollowStep
<1>7. Followed(answer, error)
  BY <1>1, <1>2, <1>6 DEF Followed
<1> QED
  BY <1>3, <1>6, <1>7

\* A step that only ends the walk.
LEMMA StopStep ==
  ASSUME WalkInv, phase' \in {"walking", "done"}, stop' # "refused", UNCHANGED run,
         UNCHANGED <<linked, adoptions, edges, sealed>>, Resolved'
  PROVE  WalkInv'
<1>1. /\ queue' = queue /\ at' = at /\ link' = link /\ expanded' = expanded /\ pins' = pins
      /\ cache' = cache /\ linked' = linked /\ adoptions' = adoptions /\ edges' = edges /\ sealed' = sealed
  BY DEF run
<1>2. Types'
  BY <1>1 DEF WalkInv, Types
<1>3. Pinned'
  BY <1>1 DEF WalkInv, Pinned
<1>4. Owned'
  BY <1>1 DEF WalkInv, Owned, IsOwner
<1>5. Progress'
  BY <1>1 DEF WalkInv, Progress, Has, Templates
<1> QED
  BY <1>2, <1>3, <1>4, <1>5 DEF WalkInv

\* Sealing an expansion: every template of it has its edge, so the session
\* accepts the seal.
LEMMA SealStep ==
  ASSUME WalkInv, sealExpansion
  PROVE  WalkInv' /\ at \in DOMAIN queue /\ at' = at + 1 /\ stop' = stop
<1>1. at \in DOMAIN queue /\ queue[at] \in Items /\ Item = queue[at] /\ at \in Nat
  BY DEF WalkInv, Types, sealExpansion, Walking, Item
<1>2. IsOwner(Item.adoption, adoptions) /\ adoptions[Item.adoption] = Item.context
  BY <1>1 DEF WalkInv, Owned
<1>3. expansionOwner(adoptions[Item.adoption], adoptions) = Item.adoption
  <2>1. DOMAIN adoptions \subseteq Nat
    BY DEF WalkInv, Types
  <2> QED
    BY <1>2, <2>1, OwnerIs
<1>4. Item.adoption \notin DOMAIN sealed
  <2> SUFFICES ASSUME NEW i \in 1..(at - 1), queue[i].adoption = Item.adoption PROVE FALSE
    BY DEF WalkInv, Progress
  <2>1. i \in DOMAIN queue /\ i # at
    BY <1>1 DEF WalkInv, Types
  <2> QED
    BY <1>1, <2>1, OwnersDiffer
<1>5. PinOf(Item.context) \in DOMAIN Links
  BY <1>2 DEF WalkInv, Pinned, IsOwner
<1>6. DOMAIN Links[PinOf(Item.context)] = Templates(Item.context) /\ Templates(Item.context) \subseteq Nat
  BY <1>5, WebAssumption DEF Templates
<1>7. \A t \in Templates(Item.context) : t < link
  BY <1>5, WebAssumption DEF Templates, sealExpansion, HasLink, WalkInv, Types
<1>8. \A t \in Templates(Item.context) : Has(Item.adoption, t)
  BY <1>1, <1>6, <1>7 DEF WalkInv, Progress
<1>9. \A complete : CanSeal(Item.adoption, complete)
  BY <1>2, <1>3, <1>4, <1>6, <1>8 DEF CanSeal, Has
<1>10. /\ DOMAIN sealed' = DOMAIN sealed \cup {Item.adoption} /\ at' = at + 1 /\ link' = 1 /\ stop' = stop
       /\ queue' = queue /\ expanded' = expanded /\ pins' = pins /\ cache' = cache /\ linked' = linked
       /\ adoptions' = adoptions /\ edges' = edges /\ satisfied' = satisfied
  BY <1>9 DEF sealExpansion
<1>11. Types'
  BY <1>1, <1>10 DEF WalkInv, Types
<1>12. Pinned'
  BY <1>10 DEF WalkInv, Pinned
<1>13. Owned'
  BY <1>10 DEF WalkInv, Owned, IsOwner
<1>14. Progress'
  <2>1. DOMAIN sealed' = {queue'[i].adoption : i \in 1..(at' - 1)}
    <3>1. 1..(at' - 1) = (1..(at - 1)) \cup {at}
      BY <1>1, <1>10 DEF WalkInv, Types
    <3>2. DOMAIN sealed = {queue[i].adoption : i \in 1..(at - 1)}
      BY DEF WalkInv, Progress
    <3> QED
      BY <1>1, <1>10, <3>1, <3>2
  <2>2. ASSUME NEW i \in DOMAIN queue, NEW t \in Nat
        PROVE  Has(queue[i].adoption, t) <=> t \in Templates(queue[i].context) /\ (i < at + 1 \/ (i = at + 1 /\ t < 1))
    <3>1. Has(queue[i].adoption, t) <=> t \in Templates(queue[i].context) /\ (i < at \/ (i = at /\ t < link))
      BY DEF WalkInv, Progress
    <3>2. i \in Nat /\ at \in Nat
      BY <1>1 DEF WalkInv, Types
    <3>3. CASE i = at
      <4>1. t \in Templates(queue[i].context) => t < link
        BY <1>1, <1>7, <3>3
      <4>2. i < at + 1
        BY <3>2, <3>3
      <4> QED
        BY <3>1, <3>3, <4>1, <4>2
    <3>4. CASE i # at
      <4>1. (i < at + 1) <=> (i < at)
        BY <3>2, <3>4
      <4>2. t \in Templates(queue[i].context) => ~(t < 1)
        BY DEF Templates
      <4> QED
        BY <3>1, <3>4, <4>1, <4>2
    <3> QED
      BY <3>3, <3>4
  <2>3. \A i \in DOMAIN queue', t \in Nat :
          Has(queue[i].adoption, t)' <=>
            t \in Templates(queue'[i].context) /\ (i < at' \/ (i = at' /\ t < link'))
    BY <1>10, <2>2 DEF Has
  <2>4. /\ \A e \in edges' : /\ \E i \in DOMAIN queue' : e[1] = queue'[i].adoption
                             /\ e[3] = 0 \/ e[3] \in 2..Len(adoptions')
        /\ IsFiniteSet(edges') /\ linked' = Cardinality(edges')
    BY <1>10 DEF WalkInv, Progress
  <2> QED
    BY <2>1, <2>3, <2>4 DEF Progress, Templates
<1>15. Resolved'
  BY <1>10, NotSatisfied DEF sealExpansion, Walking
<1> QED
  BY <1>1, <1>10, <1>11, <1>12, <1>13, <1>14, <1>15 DEF WalkInv

\* A finished walk claims satisfaction only for resolved links.
LEMMA FinishStep ==
  ASSUME WalkInv, finish
  PROVE  Resolved'
<1>1. /\ phase' = "done" /\ adoptions' = adoptions /\ edges' = edges
      /\ satisfied' => /\ \A a \in DOMAIN adoptions :
                            expansionOwner(adoptions[a], adoptions) \in DOMAIN sealed
                       /\ \A e \in edges : e[3] # 0
  BY DEF finish, session
<1>2. ASSUME NEW a \in DOMAIN adoptions, expansionOwner(adoptions[a], adoptions) \in DOMAIN sealed,
             NEW t \in Templates(adoptions[a])
      PROVE  \E e \in edges : adoptions[e[1]] = adoptions[a] /\ e[2] = t
  <2> DEFINE own == expansionOwner(adoptions[a], adoptions)
  <2>1. adoptions[own] = adoptions[a]
    <3>1. DOMAIN adoptions \subseteq Nat
      BY DEF WalkInv, Types
    <3> QED
      BY <3>1, HasOwner
  <2> HIDE DEF own
  <2>2. PICK i \in 1..(at - 1) : queue[i].adoption = own
    BY <1>2 DEF WalkInv, Progress, own
  <2>3. i \in DOMAIN queue /\ i < at
    BY DEF WalkInv, Types
  <2>4. queue[i].context = adoptions[a]
    BY <2>1, <2>2, <2>3 DEF WalkInv, Owned
  <2>5. t \in Nat
    BY DEF Templates
  <2>6. Has(own, t)
    BY <2>2, <2>3, <2>4, <2>5 DEF WalkInv, Progress
  <2> QED
    BY <2>1, <2>6 DEF Has
<1> QED
  BY <1>1, <1>2 DEF Resolved, Templates

-----------------------------------------------------------------------------
(* The run and the session agree                                            *)

\* The other kinds of steps: a link without a target, ...
Unfollowed ==
  /\ HasLink /\ edges' = edges \cup {<<Item.adoption, link, 0>>}
  /\ UNCHANGED <<queue, at, expanded, adoptions>>

\* ... a seal, ...
Sealing ==
  /\ at \in DOMAIN queue /\ at' = at + 1 /\ stop' = stop
  /\ UNCHANGED <<queue, expanded, adoptions, edges>>

\* ... and a step that changes nothing but the reason why the walk ends.
Stopping ==
  /\ stop' = "none" => stop = "none"
  /\ UNCHANGED <<queue, at, expanded, adoptions, edges>>

\* Every step keeps the invariant and is of one of the kinds.
LEMMA WalkStep ==
  ASSUME WalkInv, [Next]_vars
  PROVE  /\ WalkInv'
         /\ \/ \E c \in Contexts, error \in {"none", "document"} : Followed(c, error)
            \/ Unfollowed \/ Sealing \/ Stopping
<1>1. CASE LinkBudgetSpent \/ walkTooDeep \/ Interrupt
  <2>1. /\ stop' \in {"limit", "depth", "interrupted"} /\ UNCHANGED <<phase, run, session, satisfied>>
        /\ phase = "walking"
    BY <1>1 DEF LinkBudgetSpent, walkTooDeep, External, MayLink, HasLink, Walking, Interrupt, run
  <2>2. Stopping /\ WalkInv'
    BY <2>1, NotSatisfied, StopStep DEF run, session, Stopping
  <2> QED
    BY <2>2
<1>2. ASSUME NEW answer, resolveLost(answer) PROVE Stopping /\ WalkInv'
  <2>1. /\ stop' = "document" /\ UNCHANGED <<phase, run, linked, adoptions, edges, sealed, satisfied>>
        /\ phase = "walking"
    BY <1>2 DEF resolveLost, Resolving, External, MayLink, HasLink, Walking
  <2> QED
    BY <2>1, NotSatisfied, StopStep DEF run, Stopping
<1>3. CASE finish
  <2>1. /\ stop' = stop /\ phase' = "done" /\ UNCHANGED <<run, linked, adoptions, edges, sealed>>
    BY <1>3 DEF finish, session
  <2>2. stop' # "refused"
    BY <2>1 DEF WalkInv, Types
  <2> QED
    BY <1>3, <2>1, <2>2, FinishStep, StopStep DEF run, Stopping
<1>4. CASE UNCHANGED vars
  <2>1. UNCHANGED <<phase, stop, run, linked, adoptions, edges, sealed, satisfied>>
    BY <1>4 DEF vars, run
  <2>2. Stopping
    BY <2>1 DEF run, Stopping
  <2>3. Resolved' /\ Types' /\ Pinned'
    BY <2>1 DEF WalkInv, Types, Pinned, Resolved, Templates, run
  <2>4. Owned'
    BY <2>1 DEF WalkInv, Owned, IsOwner, run
  <2>5. Progress'
    BY <2>1 DEF WalkInv, Progress, Has, Templates, run
  <2> QED
    BY <2>2, <2>3, <2>4, <2>5 DEF WalkInv
<1>5. CASE walkSelf
  <2>1. WalkInv' /\ Followed(Item.context, "none")
    BY <1>5, SelfStep
  <2> QED
    BY <2>1 DEF Followed
<1>6. ASSUME NEW answer, resolveCached(answer)
      PROVE  WalkInv' /\ answer \in Contexts /\ Followed(answer, "none")
  BY <1>6, CachedStep DEF Followed
<1>7. ASSUME NEW answer, resolveDocument(answer)
      PROVE  WalkInv' /\ answer \in Contexts /\ \E error \in {"none", "document"} : Followed(answer, error)
  BY <1>7, DocumentStep DEF Followed
<1>8. ASSUME HasLink, NEW error \in {"none", "resolver"}, UnresolvedLink(error) PROVE WalkInv' /\ Unfollowed
  BY <1>8, UnresolvedStep DEF UnresolvedLink, Unfollowed
<1>9. CASE walkUnusable
  BY <1>8, <1>9 DEF walkUnusable, MayLink
<1>10. ASSUME NEW answer, resolveNothing(answer) \/ resolveConflict(answer) PROVE WalkInv' /\ Unfollowed
  <2>1. HasLink /\ \E error \in {"none", "resolver"} : UnresolvedLink(error)
    BY <1>10 DEF resolveNothing, resolveConflict, Resolving, External, MayLink
  <2> QED
    BY <1>8, <2>1
<1>11. CASE sealExpansion
  <2>1. WalkInv' /\ at \in DOMAIN queue /\ at' = at + 1 /\ stop' = stop
    BY <1>11, SealStep
  <2>2. UNCHANGED <<queue, expanded, adoptions, edges>>
    BY <1>11 DEF sealExpansion
  <2> QED
    BY <2>1, <2>2 DEF Sealing
<1> QED
  BY <1>1, <1>2, <1>3, <1>4, <1>5, <1>6, <1>7, <1>9, <1>10, <1>11 DEF Next

\* The invariant holds initially.
LEMMA WalkInit == Init => WalkInv
<1> SUFFICES ASSUME Init PROVE WalkInv
  OBVIOUS
<1> DEFINE first == [context |-> Root, adoption |-> 1, depth |-> 1]
<1>1. /\ queue = <<first>> /\ at = 1 /\ link = 1 /\ expanded = {Root} /\ pins = {PinOf(Root)}
      /\ cache = {PinOf(Root)} /\ linked = 0 /\ adoptions = <<Root>> /\ edges = {} /\ sealed = <<>>
      /\ stop = "none" /\ satisfied = FALSE
  BY DEF Init
<1>2. first \in Items /\ Root \in Contexts /\ first.context = Root /\ first.adoption = 1
  BY DEF Items, Contexts
<1> HIDE DEF first
<1>3. /\ queue \in Seq(Items) /\ Len(queue) = 1 /\ DOMAIN queue = {1} /\ queue[1] = first
      /\ adoptions \in Seq(Contexts) /\ Len(adoptions) = 1 /\ DOMAIN adoptions = {1} /\ adoptions[1] = Root
  BY <1>1, <1>2
<1>4. Types
  BY <1>1, <1>3 DEF Types
<1>5. Pinned
  BY <1>1, <1>3, WebAssumption DEF Pinned
<1>6. Owned
  BY <1>1, <1>2, <1>3 DEF Owned, IsOwner
<1>7. Progress
  <2>1. IsFiniteSet(edges) /\ Cardinality(edges) = 0
    BY <1>1, FS_EmptySet
  <2>2. DOMAIN sealed = {} /\ 1..(at - 1) = {}
    BY <1>1
  <2>3. \A t \in Nat : t \in Templates(Root) => ~(t < 1)
    BY DEF Templates
  <2> QED
    BY <1>1, <1>2, <1>3, <2>1, <2>2, <2>3 DEF Progress, Has
<1>8. Resolved
  BY <1>1 DEF Resolved
<1> QED
  BY <1>4, <1>5, <1>6, <1>7, <1>8 DEF WalkInv

\* The invariant of the walk holds for every web, resolver and limit.
THEOREM WalkInductive == Spec => []WalkInv
<1>1. WalkInv /\ [Next]_vars => WalkInv'
  BY WalkStep
<1> QED
  BY <1>1, WalkInit, PTL DEF Spec

\* observeEdge and sealResourceExpansion of the package session accept every
\* call of walkLink and expandQueued: one edge per template from the owner of a
\* context that is not sealed, to an adoption of its own, and one seal for each
\* owner, when every template has its edge.
THEOREM RunIsNeverRefused == Spec => []SessionNeverRefuses
<1>1. WalkInv => SessionNeverRefuses
  BY DEF WalkInv, Types, SessionNeverRefuses
<1> QED
  BY <1>1, WalkInductive, PTL

\* Whatever the resolver answers, one identity stands for one content within a
\* run, and the bundle that finish reports satisfied has a target for every
\* link of every adopted document.
THEOREM IdentitiesAreStable == Spec => []PinsStable
<1>1. WalkInv => PinsStable
  <2> SUFFICES ASSUME WalkInv PROVE PinsStable
    OBVIOUS
  <2>1. \A a, b \in DOMAIN adoptions :
          CanonicalOf(PinOf(adoptions[a])) = CanonicalOf(PinOf(adoptions[b])) =>
            PinOf(adoptions[a]) = PinOf(adoptions[b])
    BY DEF WalkInv, Pinned
  <2>2. ASSUME satisfied, NEW a \in DOMAIN adoptions, NEW t \in DOMAIN Links[PinOf(adoptions[a])]
        PROVE  \E e \in edges : adoptions[e[1]] = adoptions[a] /\ e[2] = t /\ e[3] # 0
    <3>1. PinOf(adoptions[a]) \in DOMAIN Links
      BY DEF WalkInv, Pinned
    <3>2. t \in Templates(adoptions[a])
      BY <3>1, WebAssumption DEF Templates
    <3> QED
      BY <2>2, <3>2 DEF WalkInv, Resolved
  <2> QED
    BY <2>1, <2>2 DEF PinsStable, Seen
<1> QED
  BY <1>1, WalkInductive, PTL

-----------------------------------------------------------------------------
(* The layers                                                               *)

\* The links found so far, with their source among the items of the queue and
\* their target among the adoptions.
LEMMA FoundFrom ==
  ASSUME WalkInv
  PROVE  /\ \A x, y : <<x, y>> \in Found <=>
              \E e \in edges : e[3] # 0 /\ x = adoptions[e[1]] /\ y = adoptions[e[3]]
         /\ \A e \in edges : /\ e[1] \in DOMAIN adoptions
                             /\ e[3] # 0 => e[3] \in DOMAIN adoptions
         /\ \A x, y : <<x, y>> \in Found => x \in expanded /\ y \in Seen
<1>1. \A x, y : <<x, y>> \in Found <=>
        \E e \in edges : e[3] # 0 /\ x = adoptions[e[1]] /\ y = adoptions[e[3]]
  BY DEF Found
<1>2. ASSUME NEW e \in edges
      PROVE  /\ e[1] \in DOMAIN adoptions /\ adoptions[e[1]] \in expanded
             /\ e[3] # 0 => e[3] \in DOMAIN adoptions
  <2>1. PICK i \in DOMAIN queue : e[1] = queue[i].adoption
    BY DEF WalkInv, Progress
  <2>2. e[1] \in DOMAIN adoptions /\ adoptions[e[1]] \in expanded
    BY <2>1 DEF WalkInv, Owned, IsOwner
  <2>3. e[3] = 0 \/ e[3] \in 2..Len(adoptions)
    BY DEF WalkInv, Progress
  <2>4. adoptions \in Seq(Contexts)
    BY DEF WalkInv, Types
  <2> QED
    BY <2>2, <2>3, <2>4
<1>3. \A x, y : <<x, y>> \in Found => x \in expanded /\ y \in Seen
  BY <1>1, <1>2 DEF Seen
<1> QED
  BY <1>1, <1>2, <1>3

\* The links found after a step.
LEMMA FoundNext ==
  ASSUME WalkInv, WalkInv', NEW c \in Contexts, NEW error, Followed(c, error)
  PROVE  \A x, y : <<x, y>> \in Found' <=> <<x, y>> \in Found \/ (x = Item.context /\ y = c)
<1> DEFINE edge == <<Item.adoption, link, Len(adoptions')>>
<1>1. edges' = edges \cup {edge} /\ adoptions' = Append(adoptions, c) /\ HasLink
  BY DEF Followed
<1>2. adoptions \in Seq(Contexts) /\ Len(adoptions) \in Nat
  BY DEF WalkInv, Types
<1>3. /\ \A a \in DOMAIN adoptions : adoptions'[a] = adoptions[a]
      /\ adoptions'[Len(adoptions')] = c /\ Len(adoptions') # 0
  BY <1>1, <1>2
<1>4. edge[3] # 0 /\ adoptions'[edge[1]] = Item.context /\ adoptions'[edge[3]] = c
  <2>1. edge[1] = Item.adoption /\ edge[3] = Len(adoptions')
    OBVIOUS
  <2>2. Item.adoption \in DOMAIN adoptions /\ adoptions[Item.adoption] = Item.context
    BY <1>1, AtLink DEF IsOwner
  <2> QED
    BY <1>3, <2>1, <2>2
<1> HIDE DEF edge
<1>5. \A e \in edges : /\ adoptions'[e[1]] = adoptions[e[1]]
                       /\ e[3] # 0 => adoptions'[e[3]] = adoptions[e[3]]
  BY <1>3, FoundFrom
<1>6. \A x, y : <<x, y>> \in Found' <=>
        \E e \in edges' : e[3] # 0 /\ x = adoptions'[e[1]] /\ y = adoptions'[e[3]]
  BY FoundFrom DEF Found
<1>7. \A x, y : <<x, y>> \in Found <=>
        \E e \in edges : e[3] # 0 /\ x = adoptions[e[1]] /\ y = adoptions[e[3]]
  BY FoundFrom
<1>8. ASSUME NEW x, NEW y, <<x, y>> \in Found' PROVE <<x, y>> \in Found \/ (x = Item.context /\ y = c)
  <2>1. PICK e \in edges' : e[3] # 0 /\ x = adoptions'[e[1]] /\ y = adoptions'[e[3]]
    BY <1>6, <1>8
  <2>2. CASE e \in edges
    BY <1>5, <1>7, <2>1, <2>2
  <2>3. CASE e = edge
    BY <1>4, <2>1, <2>3
  <2> QED
    BY <1>1, <2>2, <2>3
<1>9. ASSUME NEW x, NEW y, <<x, y>> \in Found PROVE <<x, y>> \in Found'
  <2>1. PICK e \in edges : e[3] # 0 /\ x = adoptions[e[1]] /\ y = adoptions[e[3]]
    BY <1>7, <1>9
  <2>2. e \in edges' /\ x = adoptions'[e[1]] /\ y = adoptions'[e[3]]
    BY <1>1, <1>5, <2>1
  <2> QED
    BY <1>6, <2>1, <2>2
<1>10. <<Item.context, c>> \in Found'
  BY <1>1, <1>4, <1>6
<1> QED
  BY <1>8, <1>9, <1>10

\* A link without a target is none that was found.
LEMMA FoundSame ==
  ASSUME WalkInv, edges' = edges \/ edges' = edges \cup {<<Item.adoption, link, 0>>}, adoptions' = adoptions
  PROVE  \A x, y : <<x, y>> \in Found' <=> <<x, y>> \in Found
<1>1. \A e \in edges' \ edges : e[3] = 0
  OBVIOUS
<1>2. edges \subseteq edges'
  OBVIOUS
<1>3. \A x, y : <<x, y>> \in Found' <=>
        \E e \in edges' : e[3] # 0 /\ x = adoptions'[e[1]] /\ y = adoptions'[e[3]]
  BY DEF Found
<1>4. \A x, y : <<x, y>> \in Found <=>
        \E e \in edges : e[3] # 0 /\ x = adoptions[e[1]] /\ y = adoptions[e[3]]
  BY FoundFrom
<1>5. ASSUME NEW x, NEW y, <<x, y>> \in Found' PROVE <<x, y>> \in Found
  <2>1. PICK e \in edges' : e[3] # 0 /\ x = adoptions'[e[1]] /\ y = adoptions'[e[3]]
    BY <1>3, <1>5
  <2>2. e \in edges
    BY <1>1, <2>1
  <2> QED
    BY <1>4, <2>1, <2>2
<1>6. ASSUME NEW x, NEW y, <<x, y>> \in Found PROVE <<x, y>> \in Found'
  <2>1. PICK e \in edges : e[3] # 0 /\ x = adoptions[e[1]] /\ y = adoptions[e[3]]
    BY <1>4, <1>6
  <2> QED
    BY <1>2, <1>3, <2>1
<1> QED
  BY <1>5, <1>6

\* Where a followed link leads in the queue: to an item that is there, or to a
\* new last one, one level below the source.
LEMMA Queued ==
  ASSUME Inv, WalkInv', NEW c \in Contexts, NEW error, Followed(c, error)
  PROVE  /\ at' = at /\ DOMAIN queue = 1..Len(queue) /\ Len(queue) \in Nat
         /\ \/ queue' = queue /\ expanded' = expanded /\ (error = "none" => c \in expanded)
            \/ /\ Len(queue') = Len(queue) + 1 /\ DOMAIN queue' = 1..(Len(queue) + 1)
               /\ \A i \in DOMAIN queue : queue'[i] = queue[i]
               /\ queue'[Len(queue) + 1].context = c /\ queue'[Len(queue) + 1].depth = Item.depth + 1
               /\ expanded' = expanded \cup {c} /\ c \notin expanded
<1>1. queue \in Seq(Items) /\ DOMAIN queue = 1..Len(queue) /\ Len(queue) \in Nat /\ queue' \in Seq(Items)
  BY DEF Inv, WalkInv, Types
<1>2. at' = at /\ IF error = "none" THEN enqueue(c, Append(adoptions, c)) ELSE UNCHANGED <<expanded, queue>>
  BY DEF Followed, FollowLink
<1>3. CASE c \in expanded \/ error # "none"
  BY <1>1, <1>2, <1>3 DEF enqueue, Expanded
<1>4. CASE c \notin expanded /\ error = "none"
  <2> DEFINE new == [context |-> c, adoption |-> expansionOwner(c, Append(adoptions, c)), depth |-> Item.depth + 1]
  <2>1. queue' = Append(queue, new) /\ expanded' = expanded \cup {c}
    BY <1>2, <1>4 DEF enqueue, Expanded
  <2>2. new.context = c /\ new.depth = Item.depth + 1
    OBVIOUS
  <2> HIDE DEF new
  <2>3. /\ Len(queue') = Len(queue) + 1 /\ DOMAIN queue' = 1..(Len(queue) + 1)
        /\ \A i \in DOMAIN queue : queue'[i] = queue[i]
        /\ queue'[Len(queue) + 1] = new
    BY <1>1, <2>1
  <2> QED
    BY <1>1, <1>2, <1>4, <2>1, <2>2, <2>3
<1> QED
  BY <1>3, <1>4

\* Depths are numbers.
LEMMA Depths ==
  ASSUME Inv
  PROVE  /\ \A i \in DOMAIN queue : queue[i].depth \in Nat /\ i \in Nat /\ i >= 1
         /\ \A i \in DOMAIN queue : queue[i].depth >= 1 /\ queue[i].depth <= i
         /\ Len(queue) \in Nat /\ DOMAIN queue = 1..Len(queue) /\ at \in Nat
<1>1. queue \in Seq(Items) /\ Len(queue) \in Nat /\ DOMAIN queue = 1..Len(queue) /\ at \in Nat
  BY DEF Inv, WalkInv, Types
<1>2. ASSUME NEW i \in DOMAIN queue PROVE queue[i].depth \in Nat
  <2>1. queue[i] \in Items
    BY <1>1
  <2> QED
    BY <2>1 DEF Items
<1>3. ASSUME NEW i \in DOMAIN queue PROVE queue[i].depth >= 1 /\ queue[i].depth <= i
  <2>1. CASE i = 1
    BY <2>1 DEF Inv, Layers
  <2>2. CASE i # 1
    <3>1. i \in Nat /\ i > 1
      BY <1>1, <2>2
    <3>2. queue[i].depth \in 2..i
      BY <3>1 DEF Inv, Layers
    <3> QED
      BY <3>1, <3>2
  <2> QED
    BY <2>1, <2>2
<1> QED
  BY <1>1, <1>2, <1>3

\* A followed link keeps the layers.
LEMMA FollowedLayers ==
  ASSUME Inv, WalkInv', NEW c \in Contexts, NEW error, Followed(c, error)
  PROVE  Layers'
<1>1. /\ at \in DOMAIN queue /\ Item = queue[at] /\ at' = at /\ Item.context \in expanded
      /\ DOMAIN queue = 1..Len(queue) /\ Len(queue) \in Nat
  <2>1. at \in DOMAIN queue /\ Item = queue[at]
    BY AtLink DEF Inv, Followed
  <2>2. Item.context \in expanded
    BY <2>1 DEF Inv, WalkInv, Owned
  <2> QED
    BY <2>1, <2>2, Queued
<1>n. PICK n \in Nat : n = Len(queue) + 1
  BY <1>1
<1> DEFINE d == Item.depth
<1>2. d \in Nat /\ d >= 1 /\ d <= at /\ at \in Nat /\ \A i \in DOMAIN queue : i \in Nat /\ queue[i].depth \in Nat
  BY <1>1, Depths
<1>3. ASSUME NEW i \in DOMAIN queue PROVE queue[i].depth <= d + 1
  <2>1. CASE i <= at
    <3>1. queue[i].depth <= queue[at].depth
      BY <1>1, <2>1 DEF Inv, Layers
    <3> QED
      BY <1>1, <1>2, <3>1
  <2>2. CASE i >= at
    BY <1>1, <2>2 DEF Inv, Layers
  <2> QED
    BY <1>2, <2>1, <2>2
<1>4. \A i, j \in DOMAIN queue : queue[i].context = queue[j].context => i = j
  BY DEF Inv, WalkInv, Owned
<1>5. \A x, y : <<x, y>> \in Found' <=> <<x, y>> \in Found \/ (x = Item.context /\ y = c)
  BY FoundNext DEF Inv
<1>6. CASE queue' = queue
  <2>1. \A i, j \in DOMAIN queue : Leads(i, j)' <=> Leads(i, j) \/ (i = at /\ queue[j].context = c)
    BY <1>1, <1>4, <1>5, <1>6 DEF Leads
  <2>2. \A i, j \in DOMAIN queue : Leads(i, j)' => queue[j].depth <= queue[i].depth + 1
    BY <1>1, <1>3, <2>1 DEF Inv, Layers
  <2>3. ASSUME NEW j \in DOMAIN queue, j > 1
        PROVE  /\ queue[j].depth \in 2..j
               /\ \E i \in DOMAIN queue : Leads(i, j)' /\ queue[i].depth = queue[j].depth - 1
    BY <2>1, <2>3 DEF Inv, Layers
  <2>4. /\ Len(queue) >= 1 /\ queue[1].context = Root /\ queue[1].depth = 1
        /\ \A i, j \in DOMAIN queue : i <= j => queue[i].depth <= queue[j].depth
        /\ \A i \in DOMAIN queue : i >= at => queue[i].depth <= queue[at].depth + 1
    BY DEF Inv, Layers
  <2> QED
    BY <1>1, <1>6, <2>2, <2>3, <2>4 DEF Layers
<1>7. CASE /\ Len(queue') = n /\ DOMAIN queue' = 1..n
           /\ \A i \in DOMAIN queue : queue'[i] = queue[i]
           /\ queue'[n].context = c /\ queue'[n].depth = d + 1
           /\ c \notin expanded
  <2>1. DOMAIN queue' = DOMAIN queue \cup {n} /\ n \notin DOMAIN queue /\ n \in Nat /\ \A i \in DOMAIN queue : i < n
    BY <1>1, <1>n, <1>7
  <2> HIDE DEF d
  <2>2. \A i \in DOMAIN queue : queue[i].context # c /\ queue[i].context \in expanded
    BY <1>7 DEF Inv, WalkInv, Owned
  <2>3. c \notin Seen
    BY <1>7 DEF Inv, Exhaustive, Followed, HasLink, Walking
  <2>4. \A x, y : <<x, y>> \in Found => x # c /\ y # c
    BY <1>7, <2>3, FoundFrom DEF Inv
  <2>5. \A i, j \in DOMAIN queue : Leads(i, j)' <=> Leads(i, j)
    BY <1>5, <1>7, <2>2 DEF Leads
  <2>6. \A j \in DOMAIN queue' : ~Leads(n, j)'
    BY <1>1, <1>5, <1>7, <2>2, <2>4 DEF Leads
  <2>7. \A i \in DOMAIN queue : Leads(i, n)' <=> i = at
    BY <1>1, <1>4, <1>5, <1>7, <2>4 DEF Leads
  <2>8. Len(queue') >= 1 /\ queue'[1].context = Root /\ queue'[1].depth = 1
    BY <1>1, <1>n, <1>7 DEF Inv, Layers
  <2>9. ASSUME NEW i \in DOMAIN queue', NEW j \in DOMAIN queue', i <= j PROVE queue'[i].depth <= queue'[j].depth
    <3>1. CASE j = n
      <4>1. CASE i = n
        BY <1>2, <1>7, <3>1, <4>1
      <4>2. CASE i # n
        BY <1>3, <1>7, <2>1, <3>1, <4>2
      <4> QED
        BY <4>1, <4>2
    <3>2. CASE j # n
      <4>1. j \in DOMAIN queue /\ i \in DOMAIN queue
        BY <1>2, <2>1, <2>9, <3>2
      <4> QED
        BY <1>7, <2>9, <4>1 DEF Inv, Layers
    <3> QED
      BY <3>1, <3>2
  <2>10. ASSUME NEW i \in DOMAIN queue' PROVE queue'[i].depth <= queue'[at'].depth + 1
    <3>1. queue'[at'].depth = d
      BY <1>1, <1>7 DEF d
    <3>2. CASE i \in DOMAIN queue
      BY <1>3, <1>7, <3>1, <3>2
    <3>3. CASE i = n
      BY <1>2, <1>7, <3>1, <3>3
    <3> QED
      BY <2>1, <3>2, <3>3
  <2>11. ASSUME NEW j \in DOMAIN queue', j > 1
         PROVE  /\ queue'[j].depth \in 2..j
                /\ \E i \in DOMAIN queue' : Leads(i, j)' /\ queue'[i].depth = queue'[j].depth - 1
    <3>1. CASE j \in DOMAIN queue
      <4>1. /\ queue[j].depth \in 2..j
            /\ \E i \in DOMAIN queue : Leads(i, j) /\ queue[i].depth = queue[j].depth - 1
        BY <2>11, <3>1 DEF Inv, Layers
      <4> QED
        BY <1>7, <2>1, <2>5, <3>1, <4>1
    <3>2. CASE j = n
      <4>1. d + 1 \in 2..n
        BY <1>1, <1>2, <2>1
      <4>2. PICK w \in DOMAIN queue : w = at
        BY <1>1
      <4>3. w \in DOMAIN queue' /\ queue'[w].depth = d
        BY <1>1, <1>7, <2>1, <4>2 DEF d
      <4>4. Leads(w, j)'
        BY <2>7, <3>2, <4>2
      <4>5. queue'[j].depth = d + 1
        BY <1>7, <3>2
      <4>6. queue'[w].depth = queue'[j].depth - 1
        BY <1>2, <4>3, <4>5
      <4>7. queue'[j].depth \in 2..j
        BY <3>2, <4>1, <4>5
      <4>8. \E i \in DOMAIN queue' : Leads(i, j)' /\ queue'[i].depth = queue'[j].depth - 1
        BY <4>3, <4>4, <4>6
      <4> QED
        BY <4>7, <4>8
    <3> QED
      BY <2>1, <3>1, <3>2
  <2>12. ASSUME NEW i \in DOMAIN queue', NEW j \in DOMAIN queue', Leads(i, j)'
         PROVE  queue'[j].depth <= queue'[i].depth + 1
    <3>1. i \in DOMAIN queue
      BY <2>1, <2>6, <2>12
    <3>2. CASE j \in DOMAIN queue
      BY <1>7, <2>5, <2>12, <3>1, <3>2 DEF Inv, Layers
    <3>3. CASE j = n
      BY <1>1, <1>2, <1>7, <2>7, <2>12, <3>1, <3>3 DEF d
    <3> QED
      BY <2>1, <3>2, <3>3
  <2> QED
    BY <2>8, <2>9, <2>10, <2>11, <2>12 DEF Layers
<1> QED
  BY <1>n, <1>6, <1>7, Queued

\* The other steps keep the layers: they find nothing, and sealing moves on to
\* an item that is not less deep.
LEMMA OtherLayers ==
  ASSUME Inv, WalkInv', Unfollowed \/ Sealing \/ Stopping
  PROVE  Layers'
<1>1. queue' = queue /\ (at' = at \/ (at \in DOMAIN queue /\ at' = at + 1))
  BY DEF Unfollowed, Sealing, Stopping
<1>2. \A x, y : <<x, y>> \in Found' <=> <<x, y>> \in Found
  BY FoundSame DEF Inv, Unfollowed, Sealing, Stopping
<1>3. \A i, j : Leads(i, j)' <=> Leads(i, j)
  BY <1>1, <1>2 DEF Leads
<1>4. /\ Len(queue) >= 1 /\ queue[1].context = Root /\ queue[1].depth = 1
      /\ \A i, j \in DOMAIN queue : i <= j => queue[i].depth <= queue[j].depth
      /\ \A j \in DOMAIN queue : j > 1 =>
           /\ queue[j].depth \in 2..j
           /\ \E i \in DOMAIN queue : Leads(i, j) /\ queue[i].depth = queue[j].depth - 1
      /\ \A i, j \in DOMAIN queue : Leads(i, j) => queue[j].depth <= queue[i].depth + 1
  BY DEF Inv, Layers
<1>5. ASSUME NEW i \in DOMAIN queue, i >= at' PROVE queue[i].depth <= queue[at'].depth + 1
  <2>1. CASE at' = at
    BY <1>5, <2>1 DEF Inv, Layers
  <2>2. CASE at \in DOMAIN queue /\ at' = at + 1
    <3>1. /\ i \in Nat /\ at \in Nat /\ i >= at /\ at' \in DOMAIN queue /\ at <= at'
          /\ queue[i].depth \in Nat /\ queue[at].depth \in Nat /\ queue[at'].depth \in Nat
      BY <1>5, <2>2, Depths
    <3>2. queue[i].depth <= queue[at].depth + 1
      BY <3>1 DEF Inv, Layers
    <3>3. queue[at].depth <= queue[at'].depth
      BY <2>2, <3>1 DEF Inv, Layers
    <3> QED
      BY <3>1, <3>2, <3>3
  <2> QED
    BY <1>1, <2>1, <2>2
<1> QED
  BY <1>1, <1>3, <1>4, <1>5 DEF Layers

\* Nothing is adopted without being expanded, unless the walk stops.
LEMMA ExhaustiveStep ==
  ASSUME Inv, WalkInv', [Next]_vars,
         \/ \E c \in Contexts, error \in {"none", "document"} : Followed(c, error)
         \/ Unfollowed \/ Sealing \/ Stopping
  PROVE  Exhaustive'
<1>1. stop' = "none" => Seen' \subseteq expanded'
  <2>1. ASSUME NEW c \in Contexts, NEW error \in {"none", "document"}, Followed(c, error), stop' = "none"
        PROVE  Seen' \subseteq expanded'
    <3>1. error = "none" /\ stop = "none" /\ adoptions' = Append(adoptions, c) /\ adoptions \in Seq(Contexts)
      BY <2>1 DEF Followed, HasLink, Walking, Inv, WalkInv, Types
    <3>2. c \in expanded' /\ expanded \subseteq expanded'
      BY <2>1, <3>1, Queued
    <3>3. Seen \subseteq expanded
      BY <3>1 DEF Inv, Exhaustive
    <3>4. \A a \in DOMAIN adoptions' : adoptions'[a] = c \/ (a \in DOMAIN adoptions /\ adoptions'[a] = adoptions[a])
      BY <3>1
    <3> QED
      BY <3>2, <3>3, <3>4 DEF Seen
  <2>2. CASE Unfollowed \/ Sealing \/ Stopping
    BY <2>2 DEF Unfollowed, Sealing, Stopping, HasLink, Walking, Inv, Exhaustive, Seen
  <2> QED
    BY <2>1, <2>2
<1>2. \/ phase' = "walking"
      \/ stop' = stop /\ at' = at /\ queue' = queue /\ (phase' = phase \/ stop # "none" \/ at > Len(queue))
  <2>1. CASE UNCHANGED vars
    BY <2>1 DEF vars
  <2>2. CASE finish
    BY <2>2 DEF finish, run
  <2>3. CASE LinkBudgetSpent \/ walkUnusable \/ walkSelf \/ walkTooDeep \/ sealExpansion \/ Interrupt
    BY <2>3 DEF LinkBudgetSpent, walkUnusable, walkSelf, walkTooDeep, sealExpansion, Interrupt, External,
                MayLink, HasLink, Walking, UnresolvedLink, FollowLink
  <2>4. ASSUME NEW answer, \/ resolveNothing(answer) \/ resolveConflict(answer) \/ resolveCached(answer)
                           \/ resolveDocument(answer) \/ resolveLost(answer)
        PROVE  phase' = "walking"
    BY <2>4 DEF resolveNothing, resolveConflict, resolveCached, resolveDocument, resolveLost, Resolving,
                External, MayLink, HasLink, Walking, UnresolvedLink, FollowLink
  <2> QED
    BY <2>1, <2>2, <2>3, <2>4 DEF Next
<1> QED
  BY <1>1, <1>2 DEF Inv, Exhaustive

-----------------------------------------------------------------------------
(* Distances                                                                *)

\* Induction over the natural numbers, for a set.
LEMMA Induction ==
  ASSUME NEW S, 0 \in S, \A n \in Nat : n \in S => n + 1 \in S
  PROVE  Nat \subseteq S
<1> SUFFICES ASSUME Nat \ S # {} PROVE FALSE
  OBVIOUS
<1>1. PICK x \in Nat \ S : \A y \in Nat \ S : x <= y
  BY Least
<1>2. x # 0 /\ x - 1 \in Nat /\ x - 1 \notin Nat \ S
  BY <1>1
<1> QED
  BY <1>1, <1>2

\* A function can be iterated.
Iterates(f, X, start, F) ==
  f \in [Nat -> X] /\ f[0] = start /\ \A n \in Nat : f[n + 1] = F[f[n]]

\* The first n iterations.
Begins(g, n, X, start, F) ==
  g \in [0..n -> X] /\ g[0] = start /\ \A i \in 0..(n - 1) : g[i + 1] = F[g[i]]

\* Every function of a set into itself can be iterated from any start.
LEMMA Iteration ==
  ASSUME NEW X, NEW start \in X, NEW F \in [X -> X]
  PROVE  \E f : Iterates(f, X, start, F)
<1> DEFINE B(g, n) == Begins(g, n, X, start, F)
<1>1. \A n \in Nat : \E g : B(g, n)
  <2> DEFINE S == {n \in Nat : \E g : B(g, n)}
  <2>1. 0 \in S
    <3>1. B([i \in 0..0 |-> start], 0)
      BY DEF Begins
    <3> QED
      BY <3>1
  <2>2. ASSUME NEW n \in Nat, n \in S PROVE n + 1 \in S
    <3>1. PICK g : B(g, n)
      BY <2>2
    <3> DEFINE h == [i \in 0..(n + 1) |-> IF i = n + 1 THEN F[g[n]] ELSE g[i]]
    <3>2. h \in [0..(n + 1) -> X]
      BY <3>1 DEF Begins
    <3>3. h[0] = start
      BY <3>1 DEF Begins
    <3>4. ASSUME NEW i \in 0..((n + 1) - 1) PROVE h[i + 1] = F[h[i]]
      <4>1. i \in 0..n /\ h[i] = g[i]
        OBVIOUS
      <4>2. CASE i = n
        BY <4>1, <4>2
      <4>3. CASE i # n
        <5>1. i \in 0..(n - 1) /\ i + 1 \in 0..n /\ i + 1 # n + 1
          BY <4>1, <4>3
        <5>2. h[i + 1] = g[i + 1]
          BY <5>1
        <5> QED
          BY <3>1, <4>1, <5>1, <5>2 DEF Begins
      <4> QED
        BY <4>2, <4>3
    <3> HIDE DEF h
    <3>5. B(h, n + 1)
      BY <3>2, <3>3, <3>4 DEF Begins
    <3> QED
      BY <3>5
  <2> HIDE DEF S
  <2>3. Nat \subseteq S
    BY <2>1, <2>2, Induction
  <2> QED
    BY <2>3 DEF S
<1>2. \A n \in Nat, m \in Nat : \A g, h : B(g, n) /\ B(h, m) =>
        \A k \in Nat : k <= n /\ k <= m => g[k] = h[k]
  <2> SUFFICES ASSUME NEW n \in Nat, NEW m \in Nat, NEW g, NEW h, B(g, n), B(h, m)
               PROVE  \A k \in Nat : k <= n /\ k <= m => g[k] = h[k]
    OBVIOUS
  <2> DEFINE S == {k \in Nat : k <= n /\ k <= m => g[k] = h[k]}
  <2>1. 0 \in S
    BY DEF Begins
  <2>2. ASSUME NEW k \in Nat, k \in S PROVE k + 1 \in S
    <3> SUFFICES ASSUME k + 1 <= n, k + 1 <= m PROVE g[k + 1] = h[k + 1]
      OBVIOUS
    <3>1. k \in 0..(n - 1) /\ k \in 0..(m - 1) /\ g[k] = h[k]
      BY <2>2
    <3> QED
      BY <3>1 DEF Begins
  <2> HIDE DEF S
  <2>3. Nat \subseteq S
    BY <2>1, <2>2, Induction
  <2> QED
    BY <2>3 DEF S
<1> DEFINE a == [n \in Nat |-> CHOOSE g : B(g, n)]
           f == [n \in Nat |-> a[n][n]]
<1>3. \A n \in Nat : B(a[n], n)
  BY <1>1
<1> HIDE DEF a
<1>4. f \in [Nat -> X]
  BY <1>3 DEF Begins
<1>5. f[0] = start
  BY <1>3 DEF Begins
<1>6. ASSUME NEW n \in Nat PROVE f[n + 1] = F[f[n]]
  <2>1. B(a[n + 1], n + 1) /\ B(a[n], n)
    BY <1>3
  <2>2. n \in 0..((n + 1) - 1) /\ n <= n + 1 /\ n <= n
    OBVIOUS
  <2>3. a[n + 1][n + 1] = F[a[n + 1][n]]
    BY <2>1, <2>2 DEF Begins
  <2>4. a[n + 1][n] = a[n][n]
    BY <1>2, <2>1, <2>2
  <2> QED
    BY <2>3, <2>4
<1> HIDE DEF f
<1> QED
  BY <1>4, <1>5, <1>6 DEF Iterates

\* What the definition of Within says.
LEMMA WithinIs ==
  /\ Within[0] = {Root}
  /\ \A n \in Nat : Within[n + 1] = Within[n] \cup {f[2] : f \in {g \in Found : g[1] \in Within[n]}}
<1> DEFINE X == SUBSET ({Root} \cup {f[2] : f \in Found})
           Next1(w) == w \cup {f[2] : f \in {g \in Found : g[1] \in w}}
           F == [w \in X |-> Next1(w)]
           D(W) == [n \in Nat |-> IF n = 0 THEN {Root} ELSE Next1(W[n - 1])]
<1>1. {Root} \in X /\ F \in [X -> X]
  OBVIOUS
<1>2. \A w \in X : F[w] = Next1(w)
  OBVIOUS
<1>3. Within = CHOOSE W : W = D(W)
  BY DEF Within
<1> HIDE DEF X, F, Next1
<1>4. PICK f : Iterates(f, X, {Root}, F)
  BY <1>1, Iteration
<1>5. f = D(f)
  <2>1. \A n \in Nat : f[n] = IF n = 0 THEN {Root} ELSE Next1(f[n - 1])
    <3> TAKE n \in Nat
    <3>1. CASE n = 0
      BY <1>4, <3>1 DEF Iterates
    <3>2. CASE n # 0
      <4>1. n - 1 \in Nat /\ (n - 1) + 1 = n
        BY <3>2
      <4>2. f[n] = F[f[n - 1]] /\ f[n - 1] \in X
        BY <1>4, <4>1 DEF Iterates
      <4> QED
        BY <1>2, <3>2, <4>2
    <3> QED
      BY <3>1, <3>2
  <2> QED
    BY <1>4, <2>1 DEF Iterates
<1> HIDE DEF D
<1>6. Within = D(Within)
  BY <1>3, <1>5
<1>7. \A n \in Nat : Within[n] = IF n = 0 THEN {Root} ELSE Next1(Within[n - 1])
  BY <1>6 DEF D
<1>8. ASSUME NEW n \in Nat PROVE Within[n + 1] = Next1(Within[n])
  <2>1. n + 1 \in Nat /\ n + 1 # 0 /\ (n + 1) - 1 = n
    OBVIOUS
  <2> QED
    BY <1>7, <2>1
<1> QED
  BY <1>7, <1>8 DEF Next1

\* What is within reach was adopted.
LEMMA WithinSeen ==
  ASSUME Inv
  PROVE  \A n \in Nat : Within[n] \subseteq Seen
<1> DEFINE S == {n \in Nat : Within[n] \subseteq Seen}
<1>1. 0 \in S
  <2>1. 1 \in DOMAIN queue /\ queue[1].context = Root
    BY Depths DEF Inv, Layers
  <2>2. Root \in Seen
    BY <2>1 DEF Inv, WalkInv, Owned, IsOwner, Seen
  <2> QED
    BY <2>2, WithinIs
<1>2. ASSUME NEW n \in Nat, n \in S PROVE n + 1 \in S
  <2>1. ASSUME NEW f \in Found PROVE f[2] \in Seen
    <3>1. f = <<f[1], f[2]>>
      BY DEF Found
    <3> QED
      BY <3>1, FoundFrom DEF Inv
  <2>2. Within[n + 1] \subseteq Seen
    BY <1>2, <2>1, WithinIs
  <2> QED
    BY <2>2
<1> HIDE DEF S
<1>3. Nat \subseteq S
  BY <1>1, <1>2, Induction
<1> QED
  BY <1>3 DEF S

\* The depth of a queued context is its distance from the primary document.
LEMMA Distance ==
  ASSUME Inv
  PROVE  \A n \in Nat : \A j \in DOMAIN queue : queue[j].context \in Within[n] <=> queue[j].depth <= n + 1
<1> DEFINE P(n) == \A j \in DOMAIN queue : queue[j].context \in Within[n] <=> queue[j].depth <= n + 1
           S == {n \in Nat : P(n)}
<1>0. /\ 1 \in DOMAIN queue /\ queue[1].context = Root /\ queue[1].depth = 1
      /\ \A j \in DOMAIN queue : j \in Nat /\ j >= 1 /\ queue[j].depth \in Nat
  BY Depths DEF Inv, Layers
<1>1. 0 \in S
  <2>1. ASSUME NEW j \in DOMAIN queue, queue[j].context = Root PROVE queue[j].depth <= 0 + 1
    <3>1. j = 1
      BY <1>0, <2>1 DEF Inv, WalkInv, Owned
    <3> QED
      BY <1>0, <3>1
  <2>2. ASSUME NEW j \in DOMAIN queue, queue[j].depth <= 0 + 1 PROVE queue[j].context = Root
    <3>1. CASE j > 1
      <4>1. queue[j].depth \in 2..j
        BY <3>1 DEF Inv, Layers
      <4> QED
        BY <1>0, <2>2, <4>1
    <3>2. CASE ~(j > 1)
      <4>1. j = 1
        BY <1>0, <3>2
      <4> QED
        BY <1>0, <4>1
    <3> QED
      BY <3>1, <3>2
  <2> QED
    BY <2>1, <2>2, WithinIs
<1>2. ASSUME NEW n \in Nat, n \in S PROVE n + 1 \in S
  <2>1. ASSUME NEW j \in DOMAIN queue, queue[j].context \in Within[n + 1] PROVE queue[j].depth <= (n + 1) + 1
    <3>1. CASE queue[j].context \in Within[n]
      <4>1. queue[j].depth <= n + 1
        BY <1>2, <3>1
      <4> QED
        BY <1>0, <4>1
    <3>2. CASE queue[j].context \notin Within[n]
      <4>1. PICK f \in Found : f[1] \in Within[n] /\ f[2] = queue[j].context
        BY <2>1, <3>2, WithinIs
      <4>2. f = <<f[1], f[2]>>
        BY DEF Found
      <4>3. f[1] \in expanded
        BY <4>2, FoundFrom DEF Inv
      <4>4. PICK i \in DOMAIN queue : f[1] = queue[i].context
        BY <4>3 DEF Inv, WalkInv, Owned
      <4>5. Leads(i, j)
        BY <4>1, <4>2, <4>4 DEF Leads
      <4>6. queue[j].depth <= queue[i].depth + 1
        BY <4>5 DEF Inv, Layers
      <4>7. queue[i].depth <= n + 1
        BY <1>2, <4>1, <4>4
      <4> QED
        BY <1>0, <4>6, <4>7
    <3> QED
      BY <3>1, <3>2
  <2>2. ASSUME NEW j \in DOMAIN queue, queue[j].depth <= (n + 1) + 1 PROVE queue[j].context \in Within[n + 1]
    <3>1. CASE queue[j].depth <= n + 1
      <4>1. queue[j].context \in Within[n]
        BY <1>2, <3>1
      <4> QED
        BY <4>1, WithinIs
    <3>2. CASE ~(queue[j].depth <= n + 1)
      <4>1. queue[j].depth = n + 2
        BY <1>0, <2>2, <3>2
      <4>2. j > 1
        <5>1. j # 1
          BY <1>0, <4>1
        <5> QED
          BY <1>0, <5>1
      <4>3. PICK i \in DOMAIN queue : Leads(i, j) /\ queue[i].depth = queue[j].depth - 1
        BY <4>2 DEF Inv, Layers
      <4>4. queue[i].depth <= n + 1
        BY <1>0, <4>1, <4>3
      <4>5. queue[i].context \in Within[n]
        BY <1>2, <4>4
      <4>6. <<queue[i].context, queue[j].context>> \in Found
        BY <4>3 DEF Leads
      <4>7. \E f \in Found : f[1] \in Within[n] /\ f[2] = queue[j].context
        BY <4>5, <4>6
      <4> QED
        BY <4>7, WithinIs
    <3> QED
      BY <3>1, <3>2
  <2> QED
    BY <2>1, <2>2
<1> HIDE DEF S
<1>3. Nat \subseteq S
  BY <1>1, <1>2, Induction
<1> QED
  BY <1>3 DEF S

\* A walk that was not stopped has expanded everything within reach.
LEMMA ReachedIsExpanded ==
  ASSUME Inv, stop = "none"
  PROVE  IsFiniteSet(Seen) /\ Within[Cardinality(Seen)] = expanded
<1>0. /\ adoptions \in Seq(Contexts) /\ Len(queue) \in Nat /\ DOMAIN queue = 1..Len(queue)
      /\ DOMAIN adoptions = 1..Len(adoptions) /\ Len(adoptions) \in Nat
  BY DEF Inv, WalkInv, Types
<1>1. IsFiniteSet(Seen)
  <2>1. adoptions \in Surjection(1..Len(adoptions), Seen)
    <3>1. adoptions \in [1..Len(adoptions) -> Seen]
      BY <1>0 DEF Seen
    <3> QED
      BY <1>0, <3>1 DEF Seen, Surjection
  <2>2. IsFiniteSet(1..Len(adoptions))
    BY <1>0, FS_Interval
  <2> QED
    BY <2>1, <2>2, FS_Surjection
<1>2. Cardinality(Seen) \in Nat
  BY <1>1, FS_CardinalityType
<1>3. Len(queue) <= Cardinality(Seen)
  <2> DEFINE g == [i \in 1..Len(queue) |-> queue[i].context]
  <2>1. \A i \in 1..Len(queue) : queue[i].context \in Seen
    BY <1>0 DEF Inv, WalkInv, Owned, IsOwner, Seen
  <2>2. \A i, j \in 1..Len(queue) : queue[i].context = queue[j].context => i = j
    BY <1>0 DEF Inv, WalkInv, Owned
  <2>3. g \in [1..Len(queue) -> Seen] /\ \A i \in 1..Len(queue) : g[i] = queue[i].context
    BY <2>1
  <2> HIDE DEF g
  <2>4. g \in Injection(1..Len(queue), Seen)
    <3>1. \A i, j \in 1..Len(queue) : g[i] = g[j] => i = j
      BY <2>2, <2>3
    <3>2. IsInjective(g)
      BY <2>3, <3>1 DEF IsInjective
    <3> QED
      BY <2>3, <3>2 DEF Injection
  <2>5. IsFiniteSet(1..Len(queue)) /\ Cardinality(1..Len(queue)) = Len(queue)
    <3>1. IsFiniteSet(1..Len(queue)) /\ Cardinality(1..Len(queue)) = IF 1 > Len(queue) THEN 0 ELSE Len(queue) - 1 + 1
      BY <1>0, 1 \in Int, Len(queue) \in Int, FS_Interval
    <3> QED
      BY <1>0, <3>1
  <2>6. Cardinality(1..Len(queue)) <= Cardinality(Seen)
    BY <1>1, <2>4, FS_Injection
  <2> QED
    BY <2>5, <2>6
<1>4. \A c \in expanded : c \in Within[Cardinality(Seen)]
  <2> SUFFICES ASSUME NEW j \in DOMAIN queue PROVE queue[j].context \in Within[Cardinality(Seen)]
    BY DEF Inv, WalkInv, Owned
  <2>1. queue[j].depth <= j /\ j <= Len(queue) /\ queue[j].depth \in Nat /\ j \in Nat
    BY <1>0, Depths
  <2>2. queue[j].depth <= Cardinality(Seen) + 1
    BY <1>0, <1>2, <1>3, <2>1
  <2> QED
    BY <1>2, <2>2, Distance
<1>5. Within[Cardinality(Seen)] \subseteq expanded
  BY <1>2, WithinSeen DEF Inv, Exhaustive
<1> QED
  BY <1>1, <1>4, <1>5

\* The invariant says that the walk is exact.
LEMMA InvWalkExact == Inv => WalkExact
<1> SUFFICES ASSUME Inv PROVE WalkExact
  OBVIOUS
<1>1. ASSUME NEW i \in DOMAIN queue
      PROVE  /\ queue[i].context \in Within[queue[i].depth - 1]
             /\ queue[i].depth > 1 => queue[i].context \notin Within[queue[i].depth - 2]
  <2>1. queue[i].depth \in Nat /\ queue[i].depth >= 1
    BY Depths
  <2>2. queue[i].depth - 1 \in Nat /\ queue[i].depth <= (queue[i].depth - 1) + 1
    BY <2>1
  <2>3. queue[i].depth > 1 => queue[i].depth - 2 \in Nat /\ ~(queue[i].depth <= (queue[i].depth - 2) + 1)
    BY <2>1
  <2> QED
    BY <2>2, <2>3, Distance
<1>2. ASSUME phase = "done", stop = "none"
      PROVE  LET reached == Within[Cardinality(Seen)]
             IN /\ {adoptions[a] : a \in DOMAIN sealed} = reached
                /\ Cardinality(DOMAIN sealed) = Cardinality(reached)
                /\ {<<e[1], e[2]>> : e \in edges} =
                     UNION {{a} \X DOMAIN Links[PinOf(adoptions[a])] : a \in DOMAIN sealed}
                /\ linked = Cardinality(edges)
  <2>1. Within[Cardinality(Seen)] = expanded
    BY <1>2, ReachedIsExpanded
  <2>2. at = Len(queue) + 1 /\ DOMAIN queue = 1..Len(queue) /\ Len(queue) \in Nat /\ 1..(at - 1) = DOMAIN queue
    <3>1. at > Len(queue) /\ at \in 1..(Len(queue) + 1) /\ queue \in Seq(Items)
      BY <1>2 DEF Inv, Exhaustive, WalkInv, Types
    <3> QED
      BY <3>1
  <2>3. DOMAIN sealed = {queue[i].adoption : i \in DOMAIN queue}
    BY <2>2 DEF Inv, WalkInv, Progress
  <2>4. \A i \in DOMAIN queue : /\ queue[i].adoption \in DOMAIN adoptions
                                /\ adoptions[queue[i].adoption] = queue[i].context
    BY DEF Inv, WalkInv, Owned, IsOwner
  <2>5. expanded = {queue[i].context : i \in DOMAIN queue}
    BY DEF Inv, WalkInv, Owned
  <2>6. {adoptions[a] : a \in DOMAIN sealed} = expanded
    BY <2>3, <2>4, <2>5
  <2>7. Cardinality(DOMAIN sealed) = Cardinality(expanded)
    <3> DEFINE g == [a \in DOMAIN sealed |-> adoptions[a]]
    <3>1. \A a, b \in DOMAIN sealed : adoptions[a] = adoptions[b] => a = b
      BY <2>3, <2>4 DEF Inv, WalkInv, Owned
    <3>2. g \in Bijection(DOMAIN sealed, expanded)
      <4>1. /\ g \in [DOMAIN sealed -> expanded]
            /\ \A a \in DOMAIN sealed : g[a] = adoptions[a]
        BY <2>6
      <4> HIDE DEF g
      <4>2. g \in Surjection(DOMAIN sealed, expanded)
        <5>1. \A c \in expanded : \E a \in DOMAIN sealed : c = adoptions[a]
          BY <2>6
        <5>2. \A c \in expanded : \E a \in DOMAIN sealed : g[a] = c
          BY <4>1, <5>1
        <5> QED
          BY <4>1, <5>2 DEF Surjection
      <4>3. g \in Injection(DOMAIN sealed, expanded)
        <5>1. \A a, b \in DOMAIN sealed : g[a] = g[b] => a = b
          BY <3>1, <4>1
        <5>2. IsInjective(g)
          BY <4>1, <5>1 DEF IsInjective
        <5> QED
          BY <4>1, <5>2 DEF Injection
      <4> QED
        BY <4>2, <4>3 DEF Bijection
    <3> HIDE DEF g
    <3>3. ExistsBijection(DOMAIN sealed, expanded)
      BY <3>2 DEF ExistsBijection
    <3>4. IsFiniteSet(DOMAIN sealed)
      <4>1. Len(adoptions) \in Nat /\ DOMAIN adoptions = 1..Len(adoptions)
        BY DEF Inv, WalkInv, Types
      <4>2. IsFiniteSet(1..Len(adoptions))
        BY <4>1, FS_Interval
      <4>3. DOMAIN sealed \subseteq 1..Len(adoptions)
        BY <2>3, <2>4, <4>1
      <4> QED
        BY <4>2, <4>3, FS_Subset
    <3> QED
      BY <3>3, <3>4, FS_Bijection
  <2>8. \A i \in DOMAIN queue : \A t : t \in DOMAIN Links[PinOf(queue[i].context)] <=> Has(queue[i].adoption, t)
    <3> TAKE i \in DOMAIN queue
    <3> TAKE t
    <3>1. PinOf(queue[i].context) \in DOMAIN Links
      BY <2>4 DEF Inv, WalkInv, Pinned
    <3>2. DOMAIN Links[PinOf(queue[i].context)] = Templates(queue[i].context) /\ Templates(queue[i].context) \subseteq Nat
      BY <3>1, WebAssumption DEF Templates
    <3>3. Has(queue[i].adoption, t) => t \in Nat
      BY DEF Has, Inv, WalkInv, Types
    <3>4. i < at
      BY <2>2
    <3>5. t \in Nat => (Has(queue[i].adoption, t) <=> t \in Templates(queue[i].context))
      BY <3>4 DEF Inv, WalkInv, Progress
    <3> QED
      BY <3>2, <3>3, <3>5
  <2>9. {<<e[1], e[2]>> : e \in edges} =
          UNION {{a} \X DOMAIN Links[PinOf(adoptions[a])] : a \in DOMAIN sealed}
    <3>1. ASSUME NEW e \in edges
          PROVE  \E a \in DOMAIN sealed : <<e[1], e[2]>> \in {a} \X DOMAIN Links[PinOf(adoptions[a])]
      <4>1. PICK i \in DOMAIN queue : e[1] = queue[i].adoption
        BY DEF Inv, WalkInv, Progress
      <4>2. Has(queue[i].adoption, e[2])
        BY <4>1 DEF Has
      <4>3. e[1] \in DOMAIN sealed /\ e[2] \in DOMAIN Links[PinOf(adoptions[e[1]])]
        BY <2>3, <2>4, <2>8, <4>1, <4>2
      <4> QED
        BY <4>3
    <3>2. ASSUME NEW a \in DOMAIN sealed, NEW x \in {a} \X DOMAIN Links[PinOf(adoptions[a])]
          PROVE  \E e \in edges : x = <<e[1], e[2]>>
      <4>1. PICK i \in DOMAIN queue : a = queue[i].adoption
        BY <2>3
      <4>2. PICK t \in DOMAIN Links[PinOf(adoptions[a])] : x = <<a, t>>
        OBVIOUS
      <4>3. Has(a, t)
        BY <2>4, <2>8, <4>1, <4>2
      <4> QED
        BY <4>2, <4>3 DEF Has
    <3> QED
      BY <3>1, <3>2
  <2>10. linked = Cardinality(edges)
    BY DEF Inv, WalkInv, Progress
  <2> QED
    BY <2>1, <2>6, <2>7, <2>9, <2>10
<1> QED
  BY <1>1, <1>2 DEF WalkExact

\* The primary document is the first layer.
LEMMA LayersInit == Init => Layers /\ Exhaustive
<1> SUFFICES ASSUME Init PROVE Layers /\ Exhaustive
  OBVIOUS
<1> DEFINE first == [context |-> Root, adoption |-> 1, depth |-> 1]
<1>1. /\ queue = <<first>> /\ at = 1 /\ expanded = {Root} /\ adoptions = <<Root>> /\ edges = {}
      /\ phase = "walking"
  BY DEF Init
<1>2. first.context = Root /\ first.depth = 1
  OBVIOUS
<1> HIDE DEF first
<1>3. Len(queue) = 1 /\ DOMAIN queue = {1} /\ queue[1] = first
  BY <1>1
<1>4. Found = {} /\ Seen = {Root}
  BY <1>1 DEF Found, Seen
<1> QED
  BY <1>1, <1>2, <1>3, <1>4 DEF Layers, Leads, Exhaustive

\* The queue is walked in layers: the depth that enqueue gives a context is its
\* distance from the primary document, for every web and resolver.
THEOREM LayersInductive == Spec => []Inv
<1>1. Init => Inv
  BY WalkInit, LayersInit DEF Inv
<1>2. Inv /\ [Next]_vars => Inv'
  <2> SUFFICES ASSUME Inv, [Next]_vars PROVE Inv'
    OBVIOUS
  <2>1. /\ WalkInv'
        /\ \/ \E c \in Contexts, error \in {"none", "document"} : Followed(c, error)
           \/ Unfollowed \/ Sealing \/ Stopping
    BY WalkStep DEF Inv
  <2>2. Layers'
    BY <2>1, FollowedLayers, OtherLayers
  <2>3. Exhaustive'
    BY <2>1, ExhaustiveStep
  <2> QED
    BY <2>1, <2>2, <2>3 DEF Inv
<1> QED
  BY <1>1, <1>2, PTL DEF Spec

\* A run that nothing stopped has expanded, once each, exactly the contexts
\* that its links reach, with an edge for every template and a charge for every
\* edge; no context waits in the queue of enqueue deeper than it lies.
THEOREM WalkIsExact == Spec => []WalkExact
BY InvWalkExact, LayersInductive, PTL

=============================================================================
