--------------------------- MODULE ResourceGraph ---------------------------
(***************************************************************************)
(* The walk of a resource graph (resource_graph.go, resource_graph_walk.go)*)
(* together with the part of the package session it drives                 *)
(* (validation/package_session.go, package_links.go, package_expansion.go).*)
(* Starting from a primary document the run follows every link template,   *)
(* asks the caller's resolver for documents, adopts each target under a    *)
(* fresh occurrence identity, expands every context (a document under a    *)
(* base URI) once, first come first served, and seals it.  Documents may   *)
(* link to each other in cycles and to themselves, and one document may be *)
(* reached under several URIs.                                             *)
(*                                                                         *)
(* The resolver is not trusted: it may answer the same request differently *)
(* and serve other bytes for an identity it has served before.  The        *)
(* session is a separate component: its conditions are stated on their own *)
(* and a call that does not meet them ends the run.  Links into archives   *)
(* and the documents' own assessment are left out.                         *)
(***************************************************************************)
EXTENDS Integers, FiniteSets, Sequences

CONSTANTS
  Root,        \* the context of the primary document: <<pin, base URI>>
  Self,        \* a same-document reference
  Unusable,    \* a reference that is not a usable URI
  Absent, Unknown, Error,   \* answers of a resolver that has no document
  Links,       \* pin -> its link templates: URIs, Self or Unusable
  Serve,       \* URI -> the resolver's possible answers
  Assessment,  \* pin -> "ok", "partial" (scope incomplete), "failing" or "lost"
  MaxDepth,    \* BudgetDepth
  MaxLinked    \* BudgetLinkedDocuments

PinOf(c) == c[1]
CanonicalOf(pin) == pin[1]      \* a pin is <<canonical identity, content>>

\* An answer is a context, or says that there is no document.
NoDocument == {Absent, Unknown, Error}
Known(uri) == Serve[uri] \ NoDocument

ASSUME WebAssumption ==
  /\ \A pin \in DOMAIN Links : Assessment[pin] \in {"ok", "partial", "failing", "lost"}
  /\ Links \in [DOMAIN Links -> Seq(DOMAIN Serve \cup {Self, Unusable})]
  /\ PinOf(Root) \in DOMAIN Links /\ Assessment[PinOf(Root)] \in {"ok", "partial"}
  /\ \A uri \in DOMAIN Serve : \A answer \in Known(uri) : PinOf(answer) \in DOMAIN Links
  /\ MaxDepth \in Nat \ {0} /\ MaxLinked \in Nat

VARIABLES
  phase,      \* "walking" or "done"
  stop,       \* why the walk ended early, or "none"
  queue,      \* g.queue: context, owning adoption and depth of each expansion
  at, link,   \* the expansion being walked and its next template
  expanded,   \* g.expanded
  pins,       \* g.pins, the pins of all resources
  cache,      \* g.cache, the pins whose assessment may be reused
  linked,     \* linked documents charged
  adoptions,  \* session: the context of every adoption, in order
  edges,      \* session: <<source adoption, template, target adoption or 0>>
  sealed,     \* session: adoption -> completeness of the expansion it sealed
  failure,    \* session: a resource failure was recorded
  satisfied   \* the finished bundle is satisfied

run == <<queue, at, link, expanded, pins, cache>>
session == <<linked, adoptions, edges, sealed, failure>>
vars == <<phase, stop, queue, at, link, expanded, pins, cache, linked, adoptions, edges, sealed,
          failure, satisfied>>

-----------------------------------------------------------------------------
(* The package session                                                      *)

\* expansionOwner: the first adoption of a context.
expansionOwner(c, list) == CHOOSE a \in DOMAIN list :
  list[a] = c /\ \A b \in DOMAIN list : list[b] = c => a <= b

\* observeEdge: an owner that is not sealed, one edge per template, and a
\* target that is neither the root nor the source nor taken.
CanObserveEdge(source, template, target, list) ==
  /\ expansionOwner(list[source], list) = source
  /\ source \notin DOMAIN sealed
  /\ \A e \in edges : ~(e[1] = source /\ e[2] = template)
  /\ target # 0 => /\ target # 1 /\ target # source
                   /\ \A e \in edges : e[3] # target

\* sealResourceExpansion: once, by the owner, and complete only when every
\* template has its edge.
CanSeal(a, complete) ==
  /\ expansionOwner(adoptions[a], adoptions) = a
  /\ a \notin DOMAIN sealed
  /\ complete => \A t \in DOMAIN Links[PinOf(adoptions[a])] : \E e \in edges : e[1] = a /\ e[2] = t

-----------------------------------------------------------------------------
(* Walking one link                                                         *)

Walking == phase = "walking" /\ stop = "none" /\ at <= Len(queue)
Item == queue[at]
Template == Links[PinOf(Item.context)][link]
HasLink == Walking /\ link <= Len(Links[PinOf(Item.context)])

\* Defect: documents are expanded once, whatever their base URI.
ExpandedDocument(c) == \E d \in expanded : PinOf(d) = PinOf(c)

Expanded(c) == c \in expanded

\* Defect: every adoption is queued, also one of a context walked before.
EnqueueAlways(c, list) ==
  /\ expanded' = expanded \cup {c}
  /\ queue' = Append(queue, [context |-> c, adoption |-> expansionOwner(c, list), depth |-> Item.depth + 1])

\* Whether the depth limit admits one level more is settled before the link
\* is resolved (walkTooDeep), so the same test here cannot fail.
enqueue(c, list) ==
  IF Expanded(c) THEN UNCHANGED <<expanded, queue>>
  ELSE /\ expanded' = expanded \cup {c}
       /\ queue' = Append(queue, [context |-> c, adoption |-> expansionOwner(c, list),
                                  depth |-> Item.depth + 1])

\* The target was found: adopt it, queue its context and observe the edge. The
\* charges between these (enqueue, the fragment's lease) may be refused, which
\* ends the run with what it adopted so far; that run is left out here.
\* A child that failed (error # "none") is adopted but never expanded.
FollowLink(c, error) ==
  LET list == Append(adoptions, c)
  IN /\ linked' = linked + 1
     /\ adoptions' = list
     /\ IF error = "none" THEN enqueue(c, list) ELSE UNCHANGED <<expanded, queue>>
     /\ IF CanObserveEdge(Item.adoption, link, Len(list), list)
          THEN edges' = edges \cup {<<Item.adoption, link, Len(list)>>} /\ stop' = error
          ELSE stop' = "refused" /\ UNCHANGED edges
     /\ link' = link + 1
     /\ UNCHANGED <<phase, at, sealed, failure, satisfied>>

\* No target: the edge itself is charged.
UnresolvedLink(error) ==
  /\ linked' = linked + 1
  /\ IF CanObserveEdge(Item.adoption, link, 0, adoptions)
       THEN edges' = edges \cup {<<Item.adoption, link, 0>>} /\ stop' = error
       ELSE stop' = "refused" /\ UNCHANGED edges
  /\ link' = link + 1
  /\ UNCHANGED <<phase, queue, at, expanded, pins, cache, adoptions, sealed, failure, satisfied>>

\* A spent adoption budget is noticed before the resolver is asked.
LinkBudgetSpent ==
  /\ HasLink /\ linked >= MaxLinked
  /\ stop' = "limit"
  /\ UNCHANGED <<phase, queue, at, link, expanded, pins, cache, session, satisfied>>

MayLink == HasLink /\ linked < MaxLinked

walkUnusable ==
  /\ MayLink /\ Template = Unusable
  /\ UnresolvedLink("none")

\* A same-document reference is an alias of the context being walked.
walkSelf ==
  /\ MayLink /\ Template = Self
  /\ FollowLink(Item.context, "none")
  /\ UNCHANGED <<pins, cache>>

External == MayLink /\ Template \notin {Self, Unusable}

walkTooDeep ==
  /\ External /\ Item.depth >= MaxDepth
  /\ stop' = "depth"
  /\ UNCHANGED <<phase, queue, at, link, expanded, pins, cache, session, satisfied>>

Resolving == External /\ Item.depth < MaxDepth

\* The resolver fails, or has no document to give.
resolveNothing(answer) ==
  /\ Resolving /\ answer \in Serve[Template] \cap NoDocument
  /\ UnresolvedLink(IF answer = Error THEN "resolver" ELSE "none")

\* Defect: other content for an identity seen before is accepted.
NeverConflicts(pin) == FALSE

\* The identity stands for other content already.
Conflicts(pin) == \E old \in pins : CanonicalOf(old) = CanonicalOf(pin) /\ old # pin

resolveConflict(answer) ==
  /\ Resolving /\ answer \in Known(Template)
  /\ Conflicts(PinOf(answer))
  /\ UnresolvedLink("resolver")

\* A document assessed before under this pin is reused without assessing it.
resolveCached(answer) ==
  /\ Resolving /\ answer \in Known(Template)
  /\ ~Conflicts(PinOf(answer)) /\ PinOf(answer) \in cache
  /\ FollowLink(answer, "none")
  /\ UNCHANGED <<pins, cache>>

\* A new document; one whose assessment failed is kept but not reusable.
resolveDocument(answer) ==
  LET pin == PinOf(answer)
      failing == Assessment[pin] = "failing"
  IN /\ Resolving /\ answer \in Known(Template)
     /\ ~Conflicts(pin) /\ pin \notin cache /\ Assessment[pin] # "lost"
     /\ pins' = pins \cup {pin}
     /\ cache' = IF failing THEN cache ELSE cache \cup {pin}
     /\ FollowLink(answer, IF failing THEN "document" ELSE "none")

\* No snapshot can be transferred: the failure is recorded, without an edge.
resolveLost(answer) ==
  LET pin == PinOf(answer)
  IN /\ Resolving /\ answer \in Known(Template)
     /\ ~Conflicts(pin) /\ pin \notin cache /\ Assessment[pin] = "lost"
     /\ failure' = TRUE
     /\ stop' = "document"
     /\ UNCHANGED <<phase, run, linked, adoptions, edges, sealed, satisfied>>

-----------------------------------------------------------------------------
(* Sealing and finishing                                                    *)

\* All templates of the expansion were walked.
sealExpansion ==
  LET complete == Assessment[PinOf(Item.context)] = "ok"
  IN /\ Walking /\ ~HasLink
     /\ IF CanSeal(Item.adoption, complete)
          THEN /\ sealed' = [a \in DOMAIN sealed \cup {Item.adoption} |->
                              IF a \in DOMAIN sealed THEN sealed[a] ELSE complete]
               /\ at' = at + 1 /\ link' = 1
               /\ UNCHANGED stop
          ELSE stop' = "refused" /\ UNCHANGED <<sealed, at, link>>
     /\ UNCHANGED <<phase, queue, expanded, pins, cache, linked, adoptions, edges, failure, satisfied>>

\* The context is done or a charge is refused.
Interrupt ==
  /\ Walking
  /\ stop' = "interrupted"
  /\ UNCHANGED <<phase, run, session, satisfied>>

\* Complete when nothing stopped the walk and every adoption's expansion is
\* sealed complete; satisfied when every link also has its target.
finish ==
  /\ phase = "walking"
  /\ stop # "none" \/ at > Len(queue)
  /\ phase' = "done"
  /\ satisfied' = /\ stop = "none" /\ ~failure
                  /\ \A a \in DOMAIN adoptions :
                       LET owner == expansionOwner(adoptions[a], adoptions)
                       IN owner \in DOMAIN sealed /\ sealed[owner]
                  /\ \A e \in edges : e[3] # 0
  /\ UNCHANGED <<stop, run, session>>

Init ==
  /\ phase = "walking" /\ stop = "none"
  /\ queue = <<[context |-> Root, adoption |-> 1, depth |-> 1]>>
  /\ at = 1 /\ link = 1
  /\ expanded = {Root} /\ pins = {PinOf(Root)} /\ cache = {PinOf(Root)}
  /\ linked = 0 /\ adoptions = <<Root>> /\ edges = {} /\ sealed = <<>>
  /\ failure = FALSE /\ satisfied = FALSE

Next ==
  \/ LinkBudgetSpent \/ walkUnusable \/ walkSelf \/ walkTooDeep
  \/ \E uri \in DOMAIN Serve : \E answer \in Serve[uri] :
       \/ resolveNothing(answer) \/ resolveConflict(answer) \/ resolveCached(answer)
       \/ resolveDocument(answer) \/ resolveLost(answer)
  \/ sealExpansion \/ Interrupt \/ finish

Spec == Init /\ [][Next]_vars

-----------------------------------------------------------------------------
(* Properties                                                               *)

\* The links found so far, between contexts.
Found == {<<adoptions[e[1]], adoptions[e[3]]>> : e \in {f \in edges : f[3] # 0}}
Seen == {adoptions[a] : a \in DOMAIN adoptions}

\* The contexts at most n links away from the primary document.
Within[n \in Nat] ==
  IF n = 0 THEN {Root}
  ELSE LET nearer == Within[n - 1]
       IN nearer \cup {f[2] : f \in {g \in Found : g[1] \in nearer}}

\* A walk that was not stopped has expanded and sealed exactly the contexts
\* that can be reached from the primary document, followed every template of
\* each of them once, and charged one linked document for each; whatever the
\* cycles, no context waits deeper than its distance from the primary one.
WalkExact ==
  /\ \A i \in DOMAIN queue : /\ queue[i].context \in Within[queue[i].depth - 1]
                             /\ queue[i].depth > 1 => queue[i].context \notin Within[queue[i].depth - 2]
  /\ phase = "done" /\ stop = "none" =>
       LET reached == Within[Cardinality(Seen)]
       IN /\ {adoptions[a] : a \in DOMAIN sealed} = reached
          /\ Cardinality(DOMAIN sealed) = Cardinality(reached)
          /\ {<<e[1], e[2]>> : e \in edges} =
               UNION {{a} \X DOMAIN Links[PinOf(adoptions[a])] : a \in DOMAIN sealed}
          /\ linked = Cardinality(edges)

\* The run and the session agree on owners, templates and seals: the session
\* never refuses an edge or a seal of the walk, so a run only ends early for
\* its budgets, its resolver or its documents.
SessionNeverRefuses == stop # "refused"

\* Within a run one identity stands for one content, whatever the resolver
\* serves, and a satisfied bundle has resolved every link of every document.
PinsStable ==
  /\ \A a, b \in DOMAIN adoptions :
       CanonicalOf(PinOf(adoptions[a])) = CanonicalOf(PinOf(adoptions[b])) =>
         PinOf(adoptions[a]) = PinOf(adoptions[b])
  /\ satisfied => \A c \in Seen : \A t \in DOMAIN Links[PinOf(c)] :
                    \E e \in edges : adoptions[e[1]] = c /\ e[2] = t /\ e[3] # 0
=============================================================================
