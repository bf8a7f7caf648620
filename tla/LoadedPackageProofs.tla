------------------------ MODULE LoadedPackageProofs ------------------------
(***************************************************************************)
(* Proofs about the life of a package, for any graphs, paths, documents,   *)
(* links, budgets and number of edits.                                     *)
(*                                                                         *)
(* First the synchronisation.  SyncInv says what the private state of a    *)
(* resolved graph knows (Known: the recorded canonical form of a linked    *)
(* document is the one of the bytes it recorded) and how far a call has    *)
(* come (Encoding: nothing is written; Committing: what is still to be     *)
(* visited has the bytes the call found, the rest is stored).  The three   *)
(* properties follow from it.                                              *)
(*                                                                         *)
(* Then the strict loaders.  ChargedWhileLive compares a counter with a    *)
(* set, and the pieces of that set change hands: the archive's bytes go to *)
(* the loader, the report goes from the session to the lease.  So LoadInv  *)
(* says, for every stage, which storage is alive (LiveAt), which owner     *)
(* holds it (HeldFor), that the account is the sum of its owners           *)
(* (UsageHeld), and which failures the stages so far may have found        *)
(* (FactsOK).  A life of the package is a behaviour of its loader          *)
(* (LifeIsLoading) and inherits all this.                                  *)
(***************************************************************************)
EXTENDS LoadedPackage, FiniteSetTheorems, TLAPS

-----------------------------------------------------------------------------
(* The inductive invariant of synchronisation                               *)

\* The documents of a graph that are stored as resources.
Linked(s) == DOMAIN s.documents \ {s.root}

\* What the state of a resolved graph records of its linked documents: the
\* hashes of the bytes it read or wrote last and of their canonical form.
Known(s) ==
  /\ s = [root |-> s.root, documents |-> s.documents, target |-> s.target, links |-> s.links,
          canonicalHashes |-> s.canonicalHashes, resourceHashes |-> s.resourceHashes, seen |-> s.seen]
  /\ DOMAIN s.documents \subseteq Paths
  /\ DOMAIN s.canonicalHashes = DOMAIN s.documents
  /\ DOMAIN s.resourceHashes = Linked(s)
  /\ s.seen = s.resourceHashes
  /\ \A p \in Linked(s) : s.canonicalHashes[p] = encodeMXLDocument(Decode(s.resourceHashes[p]))

\* The package has a resource or Missing at every path.
PackageOK == resources = [p \in Paths |-> resources[p]] /\ rootPath \in Paths

\* Every graph that is held knows its documents.
GraphsOK ==
  /\ graph = [g \in Graphs |-> graph[g]]
  /\ \A g \in Graphs : graph[g] = NoGraph \/ Known(graph[g])

\* A linked document is stored, and its bytes were kept if they said so already.
Synced(s, p) ==
  /\ Decode(resources[p]) = content[s.documents[p]]
  /\ Decode(call.before[p]) = content[s.documents[p]] => resources[p] = call.before[p]

\* How the last synchronisation ended.
Ended ==
  /\ call = [phase |-> "idle", result |-> call.result, graph |-> call.graph, before |-> call.before]
  /\ call.result \in {"ok", "error"} /\ call.graph \in Graphs
  /\ call.result = "error" => resources = call.before
  /\ call.result = "ok" => /\ Known(graph[call.graph])
                           /\ \A p \in Linked(graph[call.graph]) : Synced(graph[call.graph], p)

\* A synchronisation under way: the bytes it found are the ones its graph knows.
Running ==
  /\ call = [phase |-> call.phase, graph |-> call.graph, left |-> call.left,
             encoded |-> call.encoded, before |-> call.before]
  /\ call.graph \in Graphs /\ Known(graph[call.graph])
  /\ \A p \in Linked(graph[call.graph]) : call.before[p] = graph[call.graph].resourceHashes[p]
  /\ \A p \in DOMAIN call.encoded :
       call.encoded[p] = encodeMXLDocument(content[graph[call.graph].documents[p]])

\* The encoding loop: no resource has been written.
Encoding ==
  /\ call.phase = "encode" /\ Running
  /\ resources = call.before
  /\ call.left \cup DOMAIN call.encoded = DOMAIN graph[call.graph].documents

\* The writing loop: what it has not visited is as the call found it.
Committing ==
  /\ call.phase = "commit" /\ Running
  /\ DOMAIN call.encoded = DOMAIN graph[call.graph].documents
  /\ call.left \subseteq DOMAIN call.encoded
  /\ \A p \in Linked(graph[call.graph]) :
       IF p \in call.left THEN resources[p] = call.before[p] ELSE Synced(graph[call.graph], p)

CallOK == call = Idle \/ Ended \/ Encoding \/ Committing

SyncInv == PackageOK /\ GraphsOK /\ CallOK

\* The phase tells the conjuncts of CallOK apart.
LEMMA Phases ==
  ASSUME CallOK
  PROVE  /\ call.phase = "idle" => call = Idle \/ Ended
         /\ call.phase = "encode" => Encoding
         /\ call.phase = "commit" => Committing
  BY DEF CallOK, Idle, Ended, Encoding, Committing

\* A fresh graph knows the bytes it was resolved from.
LEMMA CapturedKnown ==
  ASSUME PackageOK, Resolvable, NEW g \in Graphs
  PROVE  Known(Captured(g))
<1> DEFINE s == Captured(g)
<1>1. /\ s.root = rootPath
      /\ s.documents = [p \in Reached |-> Pointer(g, p)]
      /\ s.canonicalHashes = [p \in Reached |-> encodeMXLDocument(Loaded(p))]
      /\ s.resourceHashes = [p \in Reached \ {rootPath} |-> resources[p]]
      /\ s.seen = [p \in Reached \ {rootPath} |-> resources[p]]
      /\ s = [root |-> s.root, documents |-> s.documents, target |-> s.target, links |-> s.links,
              canonicalHashes |-> s.canonicalHashes, resourceHashes |-> s.resourceHashes, seen |-> s.seen]
  BY DEF Captured
<1>2. Reached \subseteq Paths
  BY DEF Resolvable, CanLoad, PackageOK
<1>3. ASSUME NEW p \in Reached \ {rootPath} PROVE Loaded(p) = Decode(resources[p])
  BY <1>3 DEF Resolvable, CanLoad, Loaded
<1>4. Linked(s) = Reached \ {rootPath}
  BY <1>1 DEF Linked
<1>5. Known(s)
  <2> HIDE DEF s
  <2> QED
    BY <1>1, <1>2, <1>3, <1>4 DEF Known
<1> QED
  BY <1>5

\* Resolving writes no resource and replaces what its graph knows.
LEMMA ResolveStep ==
  ASSUME SyncInv, NEW g \in Graphs, ResolveOpus(g)
  PROVE  SyncInv'
<1>1. call' = Idle /\ UNCHANGED package
  BY DEF ResolveOpus
<1>2. PackageOK' /\ CallOK'
  BY <1>1 DEF package, SyncInv, PackageOK, CallOK, Idle
<1>3. GraphsOK'
  <2>1. CASE Resolvable
    <3>1. graph' = [graph EXCEPT ![g] = Captured(g)] /\ Known(Captured(g))
      BY <2>1, CapturedKnown DEF ResolveOpus, SyncInv
    <3> QED
      BY <3>1 DEF SyncInv, GraphsOK
  <2>2. CASE ~Resolvable
    BY <2>2 DEF ResolveOpus, SyncInv, GraphsOK
  <2> QED
    BY <2>1, <2>2
<1> QED
  BY <1>2, <1>3 DEF SyncInv

\* Edits happen between the calls; what the graphs recorded stays.
LEMMA EditStep ==
  ASSUME SyncInv,
         \/ \E o \in Objects : EditDocument(o)
         \/ \E g \in Graphs, p \in Paths : ReplaceTarget(g, p)
         \/ EditPackage
  PROVE  SyncInv'
<1>1. call' = Idle
  BY DEF EditDocument, ReplaceTarget, EditPackage, Edit
<1>2. CallOK'
  BY <1>1 DEF CallOK, Idle
<1>3. CASE \E o \in Objects : EditDocument(o)
  BY <1>2, <1>3 DEF EditDocument, package, SyncInv, PackageOK, GraphsOK
<1>4. ASSUME NEW g \in Graphs, NEW p \in Paths, ReplaceTarget(g, p) PROVE SyncInv'
  <2>1. /\ graph[g] # NoGraph /\ UNCHANGED package
        /\ graph' = [graph EXCEPT ![g].target[p] = Stranger]
    BY <1>4 DEF ReplaceTarget
  <2>2. PackageOK'
    BY <2>1 DEF package, SyncInv, PackageOK
  <2>3. Known(graph[g])
    BY <2>1 DEF SyncInv, GraphsOK
  <2>4. graph'[g] = [graph[g] EXCEPT !.target = [@ EXCEPT ![p] = Stranger]]
    BY <2>1 DEF SyncInv, GraphsOK
  <2>5. Known(graph'[g])
    BY <2>3, <2>4 DEF Known, Linked
  <2>6. GraphsOK'
    BY <2>1, <2>5 DEF SyncInv, GraphsOK
  <2> QED
    BY <1>2, <2>2, <2>6 DEF SyncInv
<1>5. CASE EditPackage
  BY <1>2, <1>5, PathAssumption DEF EditPackage, SyncInv, PackageOK, GraphsOK
<1> QED
  BY <1>3, <1>4, <1>5

\* A synchronisation starts when every linked resource is the one the graph
\* knows, or ends at once.
LEMMA BeginStep ==
  ASSUME SyncInv, NEW g \in Graphs, SyncResolvedOpus(g)
  PROVE  SyncInv'
<1>1. PackageOK' /\ GraphsOK' /\ UNCHANGED <<resources, content, graph>>
  BY DEF SyncResolvedOpus, package, SyncInv, PackageOK, GraphsOK
<1>2. Known(graph[g])
  BY DEF SyncResolvedOpus, SyncInv, GraphsOK
<1>3. CASE Syncable(g)
  <2>1. call' = [phase |-> "encode", graph |-> g, left |-> DOMAIN graph[g].documents,
                 encoded |-> [p \in {} |-> Missing], before |-> resources]
    BY <1>3 DEF SyncResolvedOpus
  <2>2. \A p \in Linked(graph[g]) : resources[p] = graph[g].resourceHashes[p]
    BY <1>2, <1>3 DEF Syncable, CurrentResource, Known
  <2>3. Known(graph'[g])
    BY <1>1, <1>2
  <2>4. Running'
    BY <1>1, <2>1, <2>2, <2>3 DEF Running
  <2>5. Encoding'
    BY <1>1, <2>1, <2>4 DEF Encoding
  <2> QED
    BY <1>1, <2>5 DEF SyncInv, CallOK
<1>4. CASE ~Syncable(g)
  <2>1. call' = [phase |-> "idle", result |-> "error", graph |-> g, before |-> resources]
    BY <1>4 DEF SyncResolvedOpus
  <2>2. Ended'
    BY <1>1, <2>1 DEF Ended
  <2> QED
    BY <1>1, <2>2 DEF SyncInv, CallOK
<1> QED
  BY <1>3, <1>4

\* Encoding touches no resource, so that its first failure leaves them all.
LEMMA EncodeStep ==
  ASSUME SyncInv, EncodeNext
  PROVE  SyncInv'
<1>1. Encoding
  BY Phases DEF EncodeNext, SyncInv
<1>2. PICK p \in call.left : EncodeDocument(p)
  BY DEF EncodeNext
<1>3. UNCHANGED <<resources, rootPath, content, graph>>
  BY <1>2 DEF EncodeNext, EncodeDocument, EncodingWrites
<1>4. PackageOK' /\ GraphsOK'
  BY <1>3 DEF SyncInv, PackageOK, GraphsOK
<1> DEFINE g == call.graph
           body == content[graph[g].documents[p]]
<1>5. CASE Encodable(body)
  <2>1. call' = [call EXCEPT !.left = @ \ {p},
                             !.encoded = [q \in DOMAIN @ \cup {p} |->
                                            IF q = p THEN encodeMXLDocument(body) ELSE @[q]]]
    BY <1>2, <1>5 DEF EncodeDocument
  <2>2. /\ call'.phase = "encode" /\ call'.graph = g /\ call'.before = call.before
        /\ call'.left = call.left \ {p}
        /\ call'.encoded = [q \in DOMAIN call.encoded \cup {p} |->
                              IF q = p THEN encodeMXLDocument(body) ELSE call.encoded[q]]
        /\ call' = [phase |-> call'.phase, graph |-> call'.graph, left |-> call'.left,
                    encoded |-> call'.encoded, before |-> call'.before]
    BY <1>1, <2>1 DEF Encoding, Running
  <2>3. Known(graph'[g])
    BY <1>1, <1>3 DEF Encoding, Running
  <2>4. Running'
    BY <1>1, <1>3, <2>2, <2>3 DEF Encoding, Running
  <2>5. Encoding'
    BY <1>1, <1>3, <2>2, <2>4 DEF Encoding
  <2> QED
    BY <1>4, <2>5 DEF SyncInv, CallOK
<1>6. CASE ~Encodable(body)
  <2>1. Return(g, "error")
    BY <1>2, <1>6 DEF EncodeDocument
  <2>2. "before" \in DOMAIN call /\ g \in Graphs /\ resources = call.before
    BY <1>1 DEF Encoding, Running
  <2>3. call' = [phase |-> "idle", result |-> "error", graph |-> g, before |-> call.before]
    BY <2>1, <2>2 DEF Return
  <2>4. Ended'
    BY <1>3, <2>2, <2>3 DEF Ended
  <2> QED
    BY <1>4, <2>4 DEF SyncInv, CallOK
<1> QED
  BY <1>5, <1>6

\* Writing starts when every document has been encoded.
LEMMA BeginCommitStep ==
  ASSUME SyncInv, BeginCommit
  PROVE  SyncInv'
<1>1. Encoding /\ call.left = {}
  BY Phases DEF BeginCommit, SyncInv
<1>2. UNCHANGED <<resources, rootPath, content, graph>>
  BY DEF BeginCommit, package
<1>3. PackageOK' /\ GraphsOK'
  BY <1>2 DEF SyncInv, PackageOK, GraphsOK
<1>4. /\ call'.phase = "commit" /\ call'.graph = call.graph /\ call'.before = call.before
      /\ call'.left = DOMAIN call.encoded /\ call'.encoded = call.encoded
      /\ call' = [phase |-> call'.phase, graph |-> call'.graph, left |-> call'.left,
                  encoded |-> call'.encoded, before |-> call'.before]
  BY <1>1 DEF BeginCommit, Encoding, Running
<1>5. Running'
  BY <1>1, <1>2, <1>4 DEF Encoding, Running, Known
<1>6. Committing'
  BY <1>1, <1>2, <1>4, <1>5 DEF Encoding, Committing, Linked
<1> QED
  BY <1>3, <1>6 DEF SyncInv, CallOK

\* One document is written: unless it was not edited, in which case its
\* resource says what it says already.
LEMMA CommitStep ==
  ASSUME SyncInv, CommitNext
  PROVE  SyncInv'
<1>1. Committing
  BY Phases DEF CommitNext, SyncInv
<1>2. PICK p \in call.left : CommitDocument(p)
  BY DEF CommitNext
<1>3. UNCHANGED <<rootPath, content, graph>>
  BY DEF CommitNext
<1> DEFINE g == call.graph
           s == graph[g]
<1>4. /\ Known(s) /\ g \in Graphs /\ p \in DOMAIN s.documents /\ p \in Paths
      /\ call.encoded[p] = encodeMXLDocument(content[s.documents[p]])
  BY <1>1 DEF Committing, Running, Known
<1>5. /\ call'.phase = "commit" /\ call'.graph = g /\ call'.before = call.before
      /\ call'.left = call.left \ {p} /\ call'.encoded = call.encoded
      /\ call' = [phase |-> call'.phase, graph |-> call'.graph, left |-> call'.left,
                  encoded |-> call'.encoded, before |-> call'.before]
  BY <1>1, <1>2 DEF CommitDocument, Committing, Running
<1>6. Running'
  BY <1>1, <1>3, <1>5 DEF Committing, Running, Known
<1>7. resources' = IF p = s.root \/ call.encoded[p] = s.canonicalHashes[p] THEN resources
                   ELSE [resources EXCEPT ![p] = call.encoded[p]]
  BY <1>2 DEF CommitDocument, Unedited
<1>8. PackageOK' /\ GraphsOK'
  BY <1>3, <1>7 DEF SyncInv, PackageOK, GraphsOK
<1>9. ASSUME NEW q \in Linked(s), q # p
      PROVE  IF q \in call'.left THEN resources'[q] = call'.before[q] ELSE Synced(s, q)'
  <2>1. resources'[q] = resources[q]
    BY <1>7, <1>9 DEF SyncInv, PackageOK
  <2> QED
    BY <1>1, <1>3, <1>5, <1>9, <2>1 DEF Committing, Synced
<1>10. ASSUME p \in Linked(s) PROVE Synced(s, p)'
  <2>1. /\ resources[p] = call.before[p] /\ call.before[p] = s.resourceHashes[p]
        /\ s.canonicalHashes[p] = encodeMXLDocument(Decode(s.resourceHashes[p])) /\ p # s.root
    BY <1>1, <1>4, <1>10 DEF Committing, Running, Known, Linked
  <2>2. CASE call.encoded[p] = s.canonicalHashes[p]
    <3>1. resources' = resources
      BY <1>7, <2>2
    <3>2. encodeMXLDocument(content[s.documents[p]]) = encodeMXLDocument(Decode(resources[p]))
      BY <1>4, <2>1, <2>2
    <3>3. content[s.documents[p]] = Decode(resources[p])
      <4>1. encodeMXLDocument(content[s.documents[p]]).body = encodeMXLDocument(Decode(resources[p])).body
        BY <3>2
      <4> QED
        BY <4>1 DEF encodeMXLDocument
    <3> QED
      BY <1>3, <1>5, <2>1, <3>1, <3>3 DEF Synced
  <2>3. CASE call.encoded[p] # s.canonicalHashes[p]
    <3>1. resources'[p] = encodeMXLDocument(content[s.documents[p]])
      BY <1>4, <1>7, <2>1, <2>3 DEF SyncInv, PackageOK
    <3>2. Decode(resources'[p]) = content[s.documents[p]]
      BY <3>1 DEF Decode, encodeMXLDocument
    <3>3. Decode(call.before[p]) # content[s.documents[p]]
      BY <1>4, <2>1, <2>3
    <3> QED
      BY <1>3, <1>5, <3>2, <3>3 DEF Synced
  <2> QED
    BY <2>2, <2>3
<1>11. Committing'
  <2>1. s' = s /\ Linked(s)' = Linked(s)
    BY <1>3, <1>5
  <2>2. \A q \in Linked(s) :
          IF q \in call'.left THEN resources'[q] = call'.before[q] ELSE Synced(s, q)'
    <3> SUFFICES ASSUME NEW q \in Linked(s)
                 PROVE  IF q \in call'.left THEN resources'[q] = call'.before[q] ELSE Synced(s, q)'
      OBVIOUS
    <3>1. CASE q = p
      BY <1>5, <1>10, <3>1
    <3>2. CASE q # p
      BY <1>9, <3>2
    <3> QED
      BY <3>1, <3>2
  <2>3. graph'[call'.graph] = s
    BY <1>3, <1>5
  <2>4. \A q : Synced(s, q)' <=> Synced(graph[call.graph], q)'
    BY <2>1, <1>5
  <2> QED
    BY <1>1, <1>5, <1>6, <2>2, <2>3, <2>4 DEF Committing
<1> QED
  BY <1>8, <1>11 DEF SyncInv, CallOK

\* The graph records what it wrote and what it kept.
LEMMA RecordStep ==
  ASSUME SyncInv, RecordHashes
  PROVE  SyncInv'
<1>1. Committing /\ call.left = {}
  BY Phases DEF RecordHashes, SyncInv
<1>2. UNCHANGED <<resources, rootPath, content>>
  BY DEF RecordHashes
<1> DEFINE g == call.graph
           s == graph[g]
           t == RecordedHashes(g)
<1>3. Known(s) /\ g \in Graphs
  BY <1>1 DEF Committing, Running
<1>4. graph' = [graph EXCEPT ![g] = t]
  BY DEF RecordHashes
<1>5. \A p \in Linked(s) : /\ Synced(s, p)
                           /\ call.encoded[p] = encodeMXLDocument(content[s.documents[p]])
  BY <1>1 DEF Committing, Running, Linked
<1>6. /\ t.root = s.root /\ t.documents = s.documents
      /\ t.canonicalHashes = [p \in DOMAIN s.documents |-> call.encoded[p]]
      /\ t.resourceHashes = [p \in Linked(s) |-> resources[p]]
      /\ t.seen = [p \in Linked(s) |-> resources[p]]
      /\ t = [root |-> t.root, documents |-> t.documents, target |-> t.target, links |-> t.links,
              canonicalHashes |-> t.canonicalHashes, resourceHashes |-> t.resourceHashes, seen |-> t.seen]
  <2>1. /\ DOMAIN s.canonicalHashes = DOMAIN s.documents
        /\ DOMAIN s.resourceHashes = Linked(s) /\ DOMAIN s.seen = Linked(s)
        /\ s = [root |-> s.root, documents |-> s.documents, target |-> s.target, links |-> s.links,
                canonicalHashes |-> s.canonicalHashes, resourceHashes |-> s.resourceHashes, seen |-> s.seen]
    BY <1>3 DEF Known
  <2>2. t = [s EXCEPT !.canonicalHashes = [p \in DOMAIN s.documents |-> call.encoded[p]],
                      !.resourceHashes = [p \in Linked(s) |-> resources[p]],
                      !.seen = [p \in Linked(s) |-> resources[p]]]
    BY <2>1 DEF RecordedHashes
  <2> HIDE DEF s, t
  <2> QED
    BY <2>1, <2>2
<1>7. Linked(t) = Linked(s)
  BY <1>6 DEF Linked
<1>8. Known(t)
  <2> HIDE DEF t
  <2>1. \A p \in Linked(t) : t.canonicalHashes[p] = encodeMXLDocument(Decode(t.resourceHashes[p]))
    BY <1>5, <1>6, <1>7 DEF Synced, Linked
  <2> QED
    BY <1>3, <1>6, <1>7, <2>1 DEF Known
<1>9. PackageOK' /\ GraphsOK'
  BY <1>2, <1>3, <1>4, <1>8 DEF SyncInv, PackageOK, GraphsOK
<1>10. call' = [phase |-> "idle", result |-> "ok", graph |-> g, before |-> call.before]
  <2>1. "before" \in DOMAIN call
    BY <1>1 DEF Committing, Running
  <2> QED
    BY <2>1 DEF RecordHashes, Return
<1>11. graph'[g] = t
  BY <1>3, <1>4 DEF SyncInv, GraphsOK
<1>12. Ended'
  <2>1. /\ call'.phase = "idle" /\ call'.result = "ok" /\ call'.graph = g
        /\ call'.before = call.before
    BY <1>10
  <2>2. \A p \in Linked(t) :
          /\ Decode(resources'[p]) = content'[t.documents[p]]
          /\ Decode(call'.before[p]) = content'[t.documents[p]] => resources'[p] = call'.before[p]
    <3> HIDE DEF t
    <3> QED
      BY <1>2, <1>5, <1>6, <1>7, <2>1 DEF Synced
  <2>3. Known(graph'[g]) /\ \A p \in Linked(graph'[g]) :
          /\ Decode(resources'[p]) = content'[graph'[g].documents[p]]
          /\ Decode(call'.before[p]) = content'[graph'[g].documents[p]] => resources'[p] = call'.before[p]
    BY <1>8, <1>11, <2>2
  <2> HIDE DEF g
  <2> QED
    BY <1>3, <1>10, <2>1, <2>3 DEF Ended, Synced
<1> QED
  BY <1>9, <1>12 DEF SyncInv, CallOK

\* Every step on a package keeps SyncInv.
LEMMA SyncStep ==
  ASSUME SyncInv, [Next]_vars
  PROVE  SyncInv'
<1>1. CASE UNCHANGED vars
  <2>1. UNCHANGED <<resources, rootPath, content, graph, call>>
    BY <1>1 DEF vars
  <2>2. PackageOK' /\ GraphsOK'
    BY <2>1 DEF SyncInv, PackageOK, GraphsOK
  <2>3. Ended => Ended'
    BY <2>1 DEF Ended, Synced
  <2>4. Running => Running'
    BY <2>1 DEF Running
  <2>5. Encoding => Encoding'
    BY <2>1, <2>4 DEF Encoding
  <2>6. Committing => Committing'
    BY <2>1, <2>4 DEF Committing, Synced
  <2> QED
    BY <2>1, <2>2, <2>3, <2>5, <2>6 DEF SyncInv, CallOK, Idle
<1> QED
  BY <1>1, ResolveStep, EditStep, BeginStep, EncodeStep, BeginCommitStep, CommitStep, RecordStep
     DEF Next

\* A step of the package's life is a step of its synchronisation or leaves it
\* alone.
LEMMA LifeIsSync == [NextLife]_lifeVars => [Next]_vars
<1>1. UNCHANGED lifeVars => UNCHANGED vars
  BY DEF lifeVars
<1>2. NextLife => [Next]_vars
  BY DEF NextLife, Load, Work, Next
<1> QED
  BY <1>1, <1>2

\* What a graph knows of its linked documents, and how far a synchronisation
\* has come, at every step of the package's life.
THEOREM SyncInductive == SpecLife => []SyncInv
<1>1. InitLife => SyncInv
  <2> SUFFICES ASSUME Init PROVE SyncInv
    BY DEF InitLife
  <2>1. PackageOK
    BY PathAssumption DEF Init, PackageOK
  <2>2. GraphsOK /\ CallOK
    BY DEF Init, GraphsOK, CallOK
  <2> QED
    BY <2>1, <2>2 DEF SyncInv
<1>2. SyncInv /\ [NextLife]_lifeVars => SyncInv'
  BY SyncStep, LifeIsSync
<1> QED
  BY <1>1, <1>2, PTL DEF SpecLife

\* SyncResolvedOpus writes every edited document or none, whichever document
\* the encoder rejects and whatever was edited before.
THEOREM SyncWritesAllOrNothing == SpecLife => []AllOrNothing
<1>1. SyncInv => AllOrNothing
  <2> SUFFICES ASSUME SyncInv PROVE AllOrNothing
    OBVIOUS
  <2>1. CASE call = Idle
    BY <2>1 DEF Idle, AllOrNothing
  <2>2. CASE Ended
    BY <2>2 DEF Ended, Known, Synced, AllOrNothing
  <2>3. CASE Encoding \/ Committing
    BY <2>3 DEF Encoding, Committing, AllOrNothing
  <2> QED
    BY <2>1, <2>2, <2>3 DEF SyncInv, CallOK
<1> QED
  BY <1>1, SyncInductive, PTL

\* A successful synchronisation keeps the bytes of every resource that already
\* says what its document says.
THEOREM SyncKeepsUneditedBytes == SpecLife => []UneditedKeepBytes
<1>1. SyncInv => UneditedKeepBytes
  <2> SUFFICES ASSUME SyncInv PROVE UneditedKeepBytes
    OBVIOUS
  <2>1. CASE call = Idle
    BY <2>1 DEF Idle, UneditedKeepBytes
  <2>2. CASE Ended
    BY <2>2 DEF Ended, Known, Synced, UneditedKeepBytes
  <2>3. CASE Encoding \/ Committing
    BY <2>3 DEF Encoding, Committing, UneditedKeepBytes
  <2> QED
    BY <2>1, <2>2, <2>3 DEF SyncInv, CallOK
<1> QED
  BY <1>1, SyncInductive, PTL

\* A synchronisation overwrites only what its graph read or wrote last, so no
\* other graph's or caller's bytes are lost.
THEOREM SyncLosesNoUpdate == SpecLife => NoLostUpdate
<1>1. SyncInv /\ [NextLife]_lifeVars
        => [\A p \in Paths : resources'[p] # resources[p] /\ call.phase # "idle" =>
              graph[call.graph].seen[p] = resources[p]]_vars
  <2> SUFFICES ASSUME SyncInv, [Next]_vars, NEW p \in Paths,
                      resources'[p] # resources[p], call.phase # "idle"
               PROVE  graph[call.graph].seen[p] = resources[p]
    BY LifeIsSync
  <2>1. CommitNext
    BY DEF Next, vars, ResolveOpus, EditDocument, ReplaceTarget, EditPackage, Edit, SyncResolvedOpus,
       EncodeNext, EncodeDocument, EncodingWrites, BeginCommit, RecordHashes, package
  <2>2. Committing
    BY <2>1, Phases DEF CommitNext, SyncInv
  <2>3. PICK q \in call.left : CommitDocument(q)
    BY <2>1 DEF CommitNext
  <2>4. q = p /\ q # graph[call.graph].root
    BY <2>3 DEF CommitDocument, SyncInv, PackageOK
  <2>5. p \in Linked(graph[call.graph]) /\ p \in call.left
    BY <2>2, <2>4 DEF Committing, Linked
  <2> QED
    BY <2>2, <2>5 DEF Committing, Running, Known
<1> QED
  BY <1>1, SyncInductive, PTL DEF SpecLife, NoLostUpdate

-----------------------------------------------------------------------------
(* The loader, for every set of budgets                                     *)

\* What Freed counts.
Pieces(owners) == {piece \in owners \X (1..2) : piece[2] <= held[piece[1]]}

\* A truth value as a count.
Bit(b) == IF b THEN 1 ELSE 0

\* One more element of a bounded set.
LEMMA OneMore ==
  ASSUME NEW S, NEW T, IsFiniteSet(T), NEW x, x \notin T
  PROVE  /\ IsFiniteSet(T \cup {x})
         /\ Cardinality(S \cap (T \cup {x})) = Cardinality(S \cap T) + Bit(x \in S)
         /\ Cardinality(S \cap T) \in Nat
<1>1. IsFiniteSet(T \cup {x})
  BY FS_AddElement
<1>2. IsFiniteSet(S \cap T) /\ Cardinality(S \cap T) \in Nat
  <2>1. S \cap T \subseteq T
    OBVIOUS
  <2> QED
    BY <2>1, FS_Subset, FS_CardinalityType
<1>3. CASE x \in S
  <2>1. S \cap (T \cup {x}) = (S \cap T) \cup {x} /\ x \notin S \cap T
    BY <1>3
  <2>2. Cardinality((S \cap T) \cup {x}) = Cardinality(S \cap T) + 1
    BY <1>2, <2>1, FS_AddElement
  <2> QED
    BY <1>1, <1>2, <1>3, <2>1, <2>2 DEF Bit
<1>4. CASE x \notin S
  <2>1. S \cap (T \cup {x}) = S \cap T
    BY <1>4
  <2>2. Bit(x \in S) = 0
    BY <1>4 DEF Bit
  <2>3. \A n \in Nat : n = n + 0
    OBVIOUS
  <2>4. Cardinality(S \cap T) = Cardinality(S \cap T) + 0
    BY <1>2, <2>3
  <2> QED
    BY <1>1, <1>2, <2>1, <2>2, <2>4
<1> QED
  BY <1>3, <1>4

\* Everything that can be alive.
Storage == Owners \cup {"report"}

\* How many pieces of storage are alive.
LEMMA CountLive ==
  ASSUME NEW S, S \subseteq Storage
  PROVE  Cardinality(S) = Bit("archive" \in S) + Bit("data" \in S) + Bit("source" \in S)
           + Bit("lease" \in S) + Bit("candidate" \in S) + Bit("dictionaries" \in S)
           + Bit("model" \in S) + Bit("report" \in S)
<1>0. IsFiniteSet({}) /\ Cardinality(S \cap {}) = 0
  BY FS_EmptySet
<1>1. /\ IsFiniteSet({"archive"})
      /\ Cardinality(S \cap {"archive"}) = Bit("archive" \in S)
  <2>1. {} \cup {"archive"} = {"archive"}
    OBVIOUS
  <2>2. Cardinality(S \cap ({} \cup {"archive"})) = Cardinality(S \cap {}) + Bit("archive" \in S)
    BY <1>0, OneMore
  <2>3. 0 + Bit("archive" \in S) = Bit("archive" \in S)
    BY DEF Bit
  <2>4. IsFiniteSet({"archive"})
    BY FS_Singleton
  <2> QED
    BY <1>0, <2>1, <2>2, <2>3, <2>4
<1>2. /\ IsFiniteSet({"archive", "data"})
      /\ Cardinality(S \cap {"archive", "data"}) = Bit("archive" \in S) + Bit("data" \in S)
  <2>1. {"archive"} \cup {"data"} = {"archive", "data"} /\ "data" \notin {"archive"}
    OBVIOUS
  <2> QED
    BY <1>1, <2>1, OneMore
<1>3. /\ IsFiniteSet({"archive", "data", "source"})
      /\ Cardinality(S \cap {"archive", "data", "source"})
           = Bit("archive" \in S) + Bit("data" \in S) + Bit("source" \in S)
  <2>1. /\ {"archive", "data"} \cup {"source"} = {"archive", "data", "source"}
        /\ "source" \notin {"archive", "data"}
    OBVIOUS
  <2> QED
    BY <1>2, <2>1, OneMore
<1>4. /\ IsFiniteSet({"archive", "data", "source", "lease"})
      /\ Cardinality(S \cap {"archive", "data", "source", "lease"})
           = Bit("archive" \in S) + Bit("data" \in S) + Bit("source" \in S) + Bit("lease" \in S)
  <2>1. /\ {"archive", "data", "source"} \cup {"lease"} = {"archive", "data", "source", "lease"}
        /\ "lease" \notin {"archive", "data", "source"}
    OBVIOUS
  <2> QED
    BY <1>3, <2>1, OneMore
<1>5. /\ IsFiniteSet({"archive", "data", "source", "lease", "candidate"})
      /\ Cardinality(S \cap {"archive", "data", "source", "lease", "candidate"})
           = Bit("archive" \in S) + Bit("data" \in S) + Bit("source" \in S) + Bit("lease" \in S)
               + Bit("candidate" \in S)
  <2>1. /\ {"archive", "data", "source", "lease"} \cup {"candidate"}
             = {"archive", "data", "source", "lease", "candidate"}
        /\ "candidate" \notin {"archive", "data", "source", "lease"}
    OBVIOUS
  <2> QED
    BY <1>4, <2>1, OneMore
<1>6. /\ IsFiniteSet({"archive", "data", "source", "lease", "candidate", "dictionaries"})
      /\ Cardinality(S \cap {"archive", "data", "source", "lease", "candidate", "dictionaries"})
           = Bit("archive" \in S) + Bit("data" \in S) + Bit("source" \in S) + Bit("lease" \in S)
               + Bit("candidate" \in S) + Bit("dictionaries" \in S)
  <2>1. /\ {"archive", "data", "source", "lease", "candidate"} \cup {"dictionaries"}
             = {"archive", "data", "source", "lease", "candidate", "dictionaries"}
        /\ "dictionaries" \notin {"archive", "data", "source", "lease", "candidate"}
    OBVIOUS
  <2> QED
    BY <1>5, <2>1, OneMore
<1>7. /\ IsFiniteSet(Owners)
      /\ Cardinality(S \cap Owners)
           = Bit("archive" \in S) + Bit("data" \in S) + Bit("source" \in S) + Bit("lease" \in S)
               + Bit("candidate" \in S) + Bit("dictionaries" \in S) + Bit("model" \in S)
  <2>1. /\ {"archive", "data", "source", "lease", "candidate", "dictionaries"} \cup {"model"} = Owners
        /\ "model" \notin {"archive", "data", "source", "lease", "candidate", "dictionaries"}
    BY DEF Owners
  <2> QED
    BY <1>6, <2>1, OneMore
<1>8. Cardinality(S \cap Storage)
           = Bit("archive" \in S) + Bit("data" \in S) + Bit("source" \in S) + Bit("lease" \in S)
               + Bit("candidate" \in S) + Bit("dictionaries" \in S) + Bit("model" \in S)
               + Bit("report" \in S)
  <2>1. "report" \notin Owners
    BY DEF Owners
  <2> QED
    BY <1>7, <2>1, OneMore DEF Storage
<1>9. S \cap Storage = S
  OBVIOUS
<1> QED
  BY <1>8, <1>9

\* What one more owner gives back.
LEMMA OneMoreOwner ==
  ASSUME NEW T, IsFiniteSet(Pieces(T)), NEW x, x \notin T, held[x] \in 0..2
  PROVE  /\ IsFiniteSet(Pieces(T \cup {x}))
         /\ Cardinality(Pieces(T \cup {x})) = Cardinality(Pieces(T)) + held[x]
         /\ Cardinality(Pieces(T)) \in Nat
<1> DEFINE h == held[x]
           New == {x} \X (1..h)
<1>1. h \in Nat /\ h <= 2
  OBVIOUS
<1>2. IsFiniteSet(1..h) /\ Cardinality(1..h) = h
  <2>1. 1 \in Int /\ h \in Int
    BY <1>1
  <2>2. IsFiniteSet(1..h) /\ Cardinality(1..h) = IF 1 > h THEN 0 ELSE h - 1 + 1
    BY <2>1, FS_Interval
  <2> HIDE DEF h
  <2>3. (IF 1 > h THEN 0 ELSE h - 1 + 1) = h
    BY <1>1
  <2> QED
    BY <2>2, <2>3
<1>3. IsFiniteSet(New) /\ Cardinality(New) = h
  <2>1. IsFiniteSet({x}) /\ Cardinality({x}) = 1
    BY FS_Singleton
  <2>2. IsFiniteSet(New) /\ Cardinality(New) = Cardinality({x}) * Cardinality(1..h)
    BY <1>2, <2>1, FS_Product
  <2>3. \A n \in Nat : 1 * n = n
    OBVIOUS
  <2>4. 1 * h = h
    BY <1>1, <2>3
  <2>5. Cardinality(New) = 1 * h
    BY <1>2, <2>1, <2>2
  <2> QED
    BY <2>2, <2>4, <2>5
<1>4. Pieces(T \cup {x}) = Pieces(T) \cup New
  <2>1. ASSUME NEW e \in Pieces(T \cup {x}) PROVE e \in Pieces(T) \cup New
    <3>1. e \in (T \cup {x}) \X (1..2) /\ e[2] <= held[e[1]]
      BY <2>1 DEF Pieces
    <3>2. CASE e[1] = x
      <4>1. e = <<x, e[2]>> /\ e[2] \in 1..2 /\ e[2] <= h
        BY <3>1, <3>2
      <4>2. e[2] \in 1..h
        BY <4>1, <1>1
      <4> QED
        BY <4>1, <4>2
    <3>3. CASE e[1] # x
      BY <3>1, <3>3 DEF Pieces
    <3> QED
      BY <3>2, <3>3
  <2>2. ASSUME NEW e \in New PROVE e \in Pieces(T \cup {x})
    <3>1. e[1] = x /\ e[2] \in 1..h /\ e = <<e[1], e[2]>>
      OBVIOUS
    <3>2. e[2] \in 1..2 /\ e[2] <= h
      <4> HIDE DEF h
      <4> QED
        BY <3>1, <1>1
    <3> QED
      BY <3>1, <3>2 DEF Pieces
  <2>3. Pieces(T) \subseteq Pieces(T \cup {x})
    BY DEF Pieces
  <2> QED
    BY <2>1, <2>2, <2>3
<1>5. Pieces(T) \cap New = {}
  BY DEF Pieces
<1>6. Cardinality({}) = 0 /\ Cardinality(Pieces(T)) \in Nat
  BY FS_EmptySet, FS_CardinalityType
<1>7. /\ IsFiniteSet(Pieces(T) \cup New)
      /\ Cardinality(Pieces(T) \cup New)
           = Cardinality(Pieces(T)) + Cardinality(New) - Cardinality(Pieces(T) \cap New)
  BY <1>3, FS_Union
<1> HIDE DEF h, New
<1>8. Cardinality(Pieces(T) \cup New) = Cardinality(Pieces(T)) + h
  <2>1. \A m, n \in Nat : m + n - 0 = m + n
    OBVIOUS
  <2>2. Cardinality(Pieces(T) \cup New) = Cardinality(Pieces(T)) + h - 0
    BY <1>3, <1>5, <1>6, <1>7
  <2> QED
    BY <1>1, <1>6, <2>1, <2>2
<1> QED
  BY <1>4, <1>6, <1>7, <1>8 DEF h

\* What a set of owners gives back for one of them.
Given(T, o) == IF o \in T THEN held[o] ELSE 0

\* One more owner of a bounded set.
LEMMA OneMoreGiven ==
  ASSUME NEW T, NEW Q, NEW x, x \notin Q, held[x] \in 0..2, IsFiniteSet(Pieces(T \cap Q))
  PROVE  /\ IsFiniteSet(Pieces(T \cap (Q \cup {x})))
         /\ Cardinality(Pieces(T \cap (Q \cup {x}))) = Cardinality(Pieces(T \cap Q)) + Given(T, x)
         /\ Cardinality(Pieces(T \cap Q)) \in Nat
<1>0. Cardinality(Pieces(T \cap Q)) \in Nat
  BY FS_CardinalityType
<1>1. CASE x \in T
  <2>1. T \cap (Q \cup {x}) = (T \cap Q) \cup {x} /\ x \notin T \cap Q
    BY <1>1
  <2> QED
    BY <1>1, <2>1, OneMoreOwner DEF Given
<1>2. CASE x \notin T
  <2>1. T \cap (Q \cup {x}) = T \cap Q /\ Given(T, x) = 0
    BY <1>2 DEF Given
  <2>2. \A n \in Nat : n = n + 0
    OBVIOUS
  <2>3. Cardinality(Pieces(T \cap Q)) = Cardinality(Pieces(T \cap Q)) + 0
    BY <1>0, <2>2
  <2> QED
    BY <1>0, <2>1, <2>3
<1> QED
  BY <1>1, <1>2

\* Freed returns the sum of what its owners hold.
LEMMA FreedTotal ==
  ASSUME NEW T, T \subseteq Owners, held \in [Owners -> 0..2]
  PROVE  Cardinality(Pieces(T)) = Given(T, "archive") + Given(T, "data") + Given(T, "source")
           + Given(T, "lease") + Given(T, "candidate") + Given(T, "dictionaries") + Given(T, "model")
<1>h. \A o \in Owners : held[o] \in 0..2
  OBVIOUS
<1>g. \A o \in Owners : Given(T, o) \in 0..2
  BY <1>h DEF Given
<1>0. IsFiniteSet(Pieces(T \cap {})) /\ Cardinality(Pieces(T \cap {})) = 0
  <2>1. Pieces(T \cap {}) = {}
    BY DEF Pieces
  <2> QED
    BY <2>1, FS_EmptySet
<1>1. /\ IsFiniteSet(Pieces(T \cap {"archive"}))
      /\ Cardinality(Pieces(T \cap {"archive"}))
           = Given(T, "archive")
  <2>1. /\ {} \cup {"archive"} = {"archive"}
        /\ "archive" \notin {}
    OBVIOUS
  <2>2. held["archive"] \in 0..2
    BY <1>h DEF Owners
  <2>3. \A n \in 0..2 : 0 + n = n
    OBVIOUS
  <2>4. 0 + Given(T, "archive") = Given(T, "archive")
    BY <1>g, <2>3 DEF Owners
  <2>5. Cardinality(Pieces(T \cap ({} \cup {"archive"}))) = Cardinality(Pieces(T \cap {})) + Given(T, "archive")
    BY <1>0, <2>2, OneMoreGiven
  <2> QED
    BY <1>0, <2>1, <2>2, <2>4, <2>5, OneMoreGiven
<1>2. /\ IsFiniteSet(Pieces(T \cap {"archive", "data"}))
      /\ Cardinality(Pieces(T \cap {"archive", "data"}))
           = Given(T, "archive") + Given(T, "data")
  <2>1. /\ {"archive"} \cup {"data"} = {"archive", "data"}
        /\ "data" \notin {"archive"}
    OBVIOUS
  <2>2. held["data"] \in 0..2
    BY <1>h DEF Owners
  <2>3. /\ IsFiniteSet(Pieces(T \cap ({"archive"} \cup {"data"})))
        /\ Cardinality(Pieces(T \cap ({"archive"} \cup {"data"})))
             = Cardinality(Pieces(T \cap {"archive"})) + Given(T, "data")
    BY <1>1, <2>1, <2>2, OneMoreGiven, Zenon
  <2> QED
    BY <1>1, <2>1, <2>3
<1>3. /\ IsFiniteSet(Pieces(T \cap {"archive", "data", "source"}))
      /\ Cardinality(Pieces(T \cap {"archive", "data", "source"}))
           = Given(T, "archive") + Given(T, "data") + Given(T, "source")
  <2>1. /\ {"archive", "data"} \cup {"source"} = {"archive", "data", "source"}
        /\ "source" \notin {"archive", "data"}
    OBVIOUS
  <2>2. held["source"] \in 0..2
    BY <1>h DEF Owners
  <2>3. /\ IsFiniteSet(Pieces(T \cap ({"archive", "data"} \cup {"source"})))
        /\ Cardinality(Pieces(T \cap ({"archive", "data"} \cup {"source"})))
             = Cardinality(Pieces(T \cap {"archive", "data"})) + Given(T, "source")
    BY <1>2, <2>1, <2>2, OneMoreGiven, Zenon
  <2> QED
    BY <1>2, <2>1, <2>3
<1>4. /\ IsFiniteSet(Pieces(T \cap {"archive", "data", "source", "lease"}))
      /\ Cardinality(Pieces(T \cap {"archive", "data", "source", "lease"}))
           = Given(T, "archive") + Given(T, "data") + Given(T, "source") + Given(T, "lease")
  <2>1. /\ {"archive", "data", "source"} \cup {"lease"} = {"archive", "data", "source", "lease"}
        /\ "lease" \notin {"archive", "data", "source"}
    OBVIOUS
  <2>2. held["lease"] \in 0..2
    BY <1>h DEF Owners
  <2>3. /\ IsFiniteSet(Pieces(T \cap ({"archive", "data", "source"} \cup {"lease"})))
        /\ Cardinality(Pieces(T \cap ({"archive", "data", "source"} \cup {"lease"})))
             = Cardinality(Pieces(T \cap {"archive", "data", "source"})) + Given(T, "lease")
    BY <1>3, <2>1, <2>2, OneMoreGiven, Zenon
  <2> QED
    BY <1>3, <2>1, <2>3
<1>5. /\ IsFiniteSet(Pieces(T \cap {"archive", "data", "source", "lease", "candidate"}))
      /\ Cardinality(Pieces(T \cap {"archive", "data", "source", "lease", "candidate"}))
           = Given(T, "archive") + Given(T, "data") + Given(T, "source") + Given(T, "lease")
               + Given(T, "candidate")
  <2>1. /\ {"archive", "data", "source", "lease"} \cup {"candidate"} = {"archive", "data", "source", "lease", "candidate"}
        /\ "candidate" \notin {"archive", "data", "source", "lease"}
    OBVIOUS
  <2>2. held["candidate"] \in 0..2
    BY <1>h DEF Owners
  <2>3. /\ IsFiniteSet(Pieces(T \cap ({"archive", "data", "source", "lease"} \cup {"candidate"})))
        /\ Cardinality(Pieces(T \cap ({"archive", "data", "source", "lease"} \cup {"candidate"})))
             = Cardinality(Pieces(T \cap {"archive", "data", "source", "lease"})) + Given(T, "candidate")
    BY <1>4, <2>1, <2>2, OneMoreGiven, Zenon
  <2> QED
    BY <1>4, <2>1, <2>3
<1>6. /\ IsFiniteSet(Pieces(T \cap {"archive", "data", "source", "lease", "candidate", "dictionaries"}))
      /\ Cardinality(Pieces(T \cap {"archive", "data", "source", "lease", "candidate", "dictionaries"}))
           = Given(T, "archive") + Given(T, "data") + Given(T, "source") + Given(T, "lease")
               + Given(T, "candidate") + Given(T, "dictionaries")
  <2>1. /\ {"archive", "data", "source", "lease", "candidate"} \cup {"dictionaries"} = {"archive", "data", "source", "lease", "candidate", "dictionaries"}
        /\ "dictionaries" \notin {"archive", "data", "source", "lease", "candidate"}
    OBVIOUS
  <2>2. held["dictionaries"] \in 0..2
    BY <1>h DEF Owners
  <2>3. /\ IsFiniteSet(Pieces(T \cap ({"archive", "data", "source", "lease", "candidate"} \cup {"dictionaries"})))
        /\ Cardinality(Pieces(T \cap ({"archive", "data", "source", "lease", "candidate"} \cup {"dictionaries"})))
             = Cardinality(Pieces(T \cap {"archive", "data", "source", "lease", "candidate"})) + Given(T, "dictionaries")
    BY <1>5, <2>1, <2>2, OneMoreGiven, Zenon
  <2> QED
    BY <1>5, <2>1, <2>3
<1>7. /\ IsFiniteSet(Pieces(T \cap {"archive", "data", "source", "lease", "candidate", "dictionaries", "model"}))
      /\ Cardinality(Pieces(T \cap {"archive", "data", "source", "lease", "candidate", "dictionaries", "model"}))
           = Given(T, "archive") + Given(T, "data") + Given(T, "source") + Given(T, "lease")
               + Given(T, "candidate") + Given(T, "dictionaries") + Given(T, "model")
  <2>1. /\ {"archive", "data", "source", "lease", "candidate", "dictionaries"} \cup {"model"} = {"archive", "data", "source", "lease", "candidate", "dictionaries", "model"}
        /\ "model" \notin {"archive", "data", "source", "lease", "candidate", "dictionaries"}
    OBVIOUS
  <2>2. held["model"] \in 0..2
    BY <1>h DEF Owners
  <2>3. /\ IsFiniteSet(Pieces(T \cap ({"archive", "data", "source", "lease", "candidate", "dictionaries"} \cup {"model"})))
        /\ Cardinality(Pieces(T \cap ({"archive", "data", "source", "lease", "candidate", "dictionaries"} \cup {"model"})))
             = Cardinality(Pieces(T \cap {"archive", "data", "source", "lease", "candidate", "dictionaries"})) + Given(T, "model")
    BY <1>6, <2>1, <2>2, OneMoreGiven, Zenon
  <2> QED
    BY <1>6, <2>1, <2>3
<1>8. T \cap {"archive", "data", "source", "lease", "candidate", "dictionaries", "model"} = T
  BY DEF Owners
<1> QED
  BY <1>7, <1>8

-----------------------------------------------------------------------------
(* The storage: which of it is alive at every stage, and who holds it      *)

\* The stages of both loaders.
Stages == {"start", "read", "index", "detach", "line2", "inspect", "tokens", "drain", "publish",
           "finish2", "accept", "convert", "line3", "import", "assess", "decide", "returned"}

\* The storage in use between two stages.
LiveAt ==
  /\ live \subseteq Storage
  /\ "archive" \in live <=> \/ pc \in {"read", "index", "detach", "line2", "inspect"}
                            \/ pc = "finish2" /\ format = "mxl"
  /\ "data" \in live <=> \/ pc \in {"index", "detach", "line2", "inspect", "convert"}
                         \/ pc \in {"finish2", "accept"} /\ format = "mxl"
  /\ "source" \in live <=> pc \in {"inspect", "tokens", "drain", "publish", "finish2"}
  /\ "report" \in live => \/ pc = "finish2" /\ format = "xml"
                          \/ "lease" \in live
  /\ "lease" \in live => /\ pc \in {"accept", "convert", "line3", "import", "assess", "decide"}
                         /\ "report" \in live
  /\ "candidate" \in live => /\ pc \in {"drain", "publish", "finish2", "accept", "import", "assess", "decide"}
                             /\ format = "xml"
  /\ "dictionaries" \in live => pc \in {"assess", "decide"}
  /\ "model" \in live => pc \in {"import", "assess", "decide"}

\* Who holds it.  The bytes of an archive are the archive's until the loader
\* detaches them, the projection of a report the session's until the lease
\* takes it over.
HeldFor ==
  /\ held \in [Owners -> 0..2]
  /\ held["archive"] = Bit("archive" \in live) + Bit("data" \in live /\ pc \in {"index", "detach"})
  /\ held["data"] = Bit("data" \in live /\ pc \notin {"index", "detach"})
  /\ held["source"] = Bit("source" \in live) + Bit("report" \in live /\ "lease" \notin live)
  /\ held["lease"] = 2 * Bit("lease" \in live)
  /\ held["candidate"] = Bit("candidate" \in live)
  /\ held["dictionaries"] = Bit("dictionaries" \in live)
  /\ held["model"] = Bit("model" \in live)

\* The account agrees with its owners.
UsageHeld ==
  usage = held["archive"] + held["data"] + held["source"] + held["lease"]
            + held["candidate"] + held["dictionaries"] + held["model"]

\* The loader that was called runs its own stages.
LoadOK ==
  /\ pc \in Stages
  /\ format \in {"xml", "mxl"} /\ lenient \in BOOLEAN
  /\ pc \in {"read", "index", "detach", "line2", "inspect", "convert", "line3"} => format = "mxl"
  /\ pc \in {"tokens", "drain", "publish"} => format = "xml"

StorageInv == LoadOK /\ LiveAt /\ HeldFor /\ UsageHeld

-----------------------------------------------------------------------------
(* The facts                                                                *)

\* What the stages so far may have found out.  A failure is recorded in one
\* of the four error facts, and line 3 is reached only when it is due.
FactsOK ==
  /\ facts \in [openErr : BOOLEAN, convErr : BOOLEAN, sourceErr : BOOLEAN, sourceAccepted : BOOLEAN,
                importErr : BOOLEAN, modelErr : BOOLEAN, modelAccepted : BOOLEAN,
                modelAssessed : BOOLEAN, failure : BOOLEAN]
  /\ pc # "returned" => (facts.failure <=> OperationErr)
  /\ pc \in {"start", "read", "index", "detach", "line2", "inspect", "tokens"} =>
       ~facts.convErr /\ ~facts.sourceErr
  /\ pc \notin {"assess", "decide", "returned"} => ~facts.importErr
  /\ pc \notin {"decide", "returned"} => ~facts.modelErr
  /\ pc \in {"convert", "line3", "import", "assess"} => ModelDue
  /\ "dictionaries" \in live => lenient \/ facts.sourceAccepted

\* What the call says when it has returned.
Answered ==
  pc = "returned" =>
    /\ result.document = ~result.err
    /\ facts.failure => result.err
    /\ result.accepted => result.document /\ facts.sourceAccepted /\ facts.modelAccepted
    /\ result.document => lenient \/ result.accepted
    /\ lenient => result.err = facts.failure

\* The inductive invariant.
LoadInv == StorageInv /\ FactsOK /\ Answered

-----------------------------------------------------------------------------
\* Freed keeps the account and its owners in agreement.
LEMMA FreedStep ==
  ASSUME NEW T, T \subseteq Owners, held \in [Owners -> 0..2], UsageHeld, Freed(T)
  PROVE  /\ held' = [o \in Owners |-> IF o \in T THEN 0 ELSE held[o]]
         /\ held' \in [Owners -> 0..2]
         /\ live' = live \ (IF "lease" \in T THEN T \cup {"report"} ELSE T)
         /\ UsageHeld'
<1> DEFINE total == Cardinality(Pieces(T))
<1>1. /\ usage' = IF total <= usage THEN usage - total ELSE usage
      /\ held' = [o \in Owners |-> IF o \in T THEN 0 ELSE held[o]]
      /\ live' = live \ (IF "lease" \in T THEN T \cup {"report"} ELSE T)
  BY DEF Freed, Pieces
<1>2. total = Given(T, "archive") + Given(T, "data") + Given(T, "source")
           + Given(T, "lease") + Given(T, "candidate") + Given(T, "dictionaries") + Given(T, "model")
  BY FreedTotal
<1>3. held' \in [Owners -> 0..2]
  BY <1>1
<1> HIDE DEF total
<1>4. UsageHeld'
  <2>1. \A o \in Owners : /\ held[o] \in 0..2 /\ held'[o] \in 0..2
                          /\ held'[o] = held[o] - Given(T, o)
                          /\ Given(T, o) \in 0..held[o]
    BY <1>1 DEF Given
  <2>2. Owners = {"archive", "data", "source", "lease", "candidate", "dictionaries", "model"}
    BY DEF Owners
  <2>3. /\ total <= usage
        /\ usage - total = held'["archive"] + held'["data"] + held'["source"] + held'["lease"]
                             + held'["candidate"] + held'["dictionaries"] + held'["model"]
    <3> DEFINE h(o) == held[o]  g(o) == Given(T, o)  n(o) == held'[o]
    <3>1. \A o \in Owners : h(o) \in Nat /\ g(o) \in Nat /\ g(o) <= h(o) /\ n(o) = h(o) - g(o)
      BY <2>1
    <3>2. /\ usage = h("archive") + h("data") + h("source") + h("lease") + h("candidate")
                      + h("dictionaries") + h("model")
          /\ total = g("archive") + g("data") + g("source") + g("lease") + g("candidate")
                      + g("dictionaries") + g("model")
      BY <1>2 DEF UsageHeld
    <3> HIDE DEF h, g, n
    <3>3. /\ total <= usage
          /\ usage - total = n("archive") + n("data") + n("source") + n("lease") + n("candidate")
                               + n("dictionaries") + n("model")
      BY <2>2, <3>1, <3>2
    <3> QED
      BY <3>3 DEF n
  <2> QED
    BY <1>1, <2>3 DEF UsageHeld
<1> QED
  BY <1>1, <1>3, <1>4

\* A charge adds one to its owner and to the account.
LEMMA ChargeStep ==
  ASSUME NEW o \in Owners, held \in [Owners -> 0..2], held[o] = 0, UsageHeld, Charge(o)
  PROVE  /\ held' = [held EXCEPT ![o] = 1]
         /\ held' \in [Owners -> 0..2]
         /\ live' = live \cup {o}
         /\ UsageHeld'
<1>1. usage' = usage + 1 /\ held' = [held EXCEPT ![o] = 1] /\ live' = live \cup {o}
  BY DEF Charge
<1>2. held' \in [Owners -> 0..2]
  BY <1>1
<1>3. /\ held'[o] = held[o] + 1
      /\ \A q \in Owners \ {o} : held'[q] = held[q]
      /\ \A q \in Owners : held[q] \in 0..2
  BY <1>1
<1>4. Owners = {"archive", "data", "source", "lease", "candidate", "dictionaries", "model"}
  BY DEF Owners
<1>5. UsageHeld'
  BY <1>1, <1>3, <1>4 DEF UsageHeld
<1> QED
  BY <1>1, <1>2, <1>5

\* A call starts with nothing held.
LEMMA InitStorage ==
  InitLoad => StorageInv
BY DEF InitLoad, StorageInv, LoadOK, Stages, LiveAt, HeldFor, UsageHeld, Owners, Storage, Bit

\* Every stage leaves the storage it should, held by whom it should.
LEMMA StorageStep ==
  ASSUME StorageInv, [NextLoad]_loadVars
  PROVE  StorageInv'
<1> USE DEF StorageInv
<1>1. CASE OpenArchive
  BY <1>1 DEF OpenArchive, ReturnFailure, ReturnResult, Charge, Unowned, arguments,
     LoadOK, Stages, LiveAt, HeldFor, UsageHeld, Owners, Storage, Bit
<1>2. CASE ReadArchive
  BY <1>2, FreedStep DEF ReadArchive, ReturnFailure, ReturnResult, arguments,
     LoadOK, Stages, LiveAt, HeldFor, UsageHeld, Owners, Storage, Bit
<1>3. CASE IndexArchive
  BY <1>3 DEF IndexArchive, ReturnFailure, ReturnResult, Unowned, arguments,
     LoadOK, Stages, LiveAt, HeldFor, UsageHeld, Owners, Storage, Bit
<1>4. CASE detachData
  BY <1>4 DEF detachData, Keep, arguments,
     LoadOK, Stages, LiveAt, HeldFor, UsageHeld, Owners, Storage, Bit
<1>5. CASE StartSourceLine
  <2>1. CASE Charge("source") /\ pc' = (IF format = "mxl" THEN "inspect" ELSE "tokens")
    <3>1. /\ held' = [held EXCEPT !["source"] = 1] /\ held' \in [Owners -> 0..2]
          /\ live' = live \cup {"source"} /\ UsageHeld'
      <4>1. "source" \in Owners /\ held["source"] = 0 /\ held \in [Owners -> 0..2]
        BY <1>5 DEF StartSourceLine, LiveAt, HeldFor, Owners, Bit
      <4> QED
        BY <2>1, <4>1, ChargeStep
    <3> QED
      BY <1>5, <2>1, <3>1 DEF StartSourceLine, arguments,
         LoadOK, Stages, LiveAt, HeldFor, Owners, Storage, Bit
  <2>2. CASE AbandonArchive /\ ReturnFailure
    <3>1. /\ held' = [o \in Owners |-> IF o \in {"archive", "lease", "data"} THEN 0 ELSE held[o]]
          /\ held' \in [Owners -> 0..2]
          /\ live' = live \ {"archive", "lease", "data", "report"}
          /\ UsageHeld'
      BY <2>2, FreedStep DEF AbandonArchive, HeldFor, Owners
    <3> QED
      BY <1>5, <2>2, <3>1 DEF StartSourceLine, ReturnFailure, ReturnResult, arguments,
         LoadOK, Stages, LiveAt, HeldFor, Owners, Storage, Bit
  <2> QED
    BY <1>5, <2>1, <2>2 DEF StartSourceLine
<1>6. CASE InspectArchive
  BY <1>6 DEF InspectArchive, Unowned, Stay, arguments,
     LoadOK, Stages, LiveAt, HeldFor, UsageHeld, Owners, Storage, Bit
<1>7. CASE MapDocument
  <2>1. CASE Admitted /\ Charge("candidate")
    <3>1. /\ held' = [held EXCEPT !["candidate"] = 1] /\ held' \in [Owners -> 0..2]
          /\ live' = live \cup {"candidate"} /\ UsageHeld'
      <4>1. "candidate" \in Owners /\ held["candidate"] = 0 /\ held \in [Owners -> 0..2]
        BY <1>7 DEF MapDocument, LiveAt, HeldFor, Owners, Bit
      <4> QED
        BY <2>1, <4>1, ChargeStep
    <3> QED
      BY <1>7, <2>1, <3>1 DEF MapDocument, Stay, arguments,
         LoadOK, Stages, LiveAt, HeldFor, Owners, Storage, Bit
  <2>2. CASE Unowned
    BY <1>7, <2>2 DEF MapDocument, Unowned, Stay, arguments,
       LoadOK, Stages, LiveAt, HeldFor, UsageHeld, Owners, Storage, Bit
  <2> QED
    BY <1>7, <2>1, <2>2 DEF MapDocument
<1>8. CASE DrainSource
  BY <1>8 DEF DrainSource, Unowned, Stay, arguments,
     LoadOK, Stages, LiveAt, HeldFor, UsageHeld, Owners, Storage, Bit
<1>9. CASE PublishReport
  BY <1>9 DEF PublishReport, Unowned, Stay, arguments,
     LoadOK, Stages, LiveAt, HeldFor, UsageHeld, Owners, Storage, Bit
<1>10. CASE FinishSourceReport
  BY <1>10, FreedStep DEF FinishSourceReport, retainFinishedReport, Stay, arguments,
     LoadOK, Stages, LiveAt, HeldFor, UsageHeld, Owners, Storage, Bit
<1>11. CASE FinishSourceBundle
  BY <1>11, FreedStep DEF FinishSourceBundle, Stay, arguments,
     LoadOK, Stages, LiveAt, HeldFor, UsageHeld, Owners, Storage, Bit
<1>12. CASE AcceptSource
  <2>1. CASE Unowned /\ pc' \in {"convert", "import", "decide"} /\ (format = "mxl" <=> pc' = "convert")
    BY <1>12, <2>1 DEF AcceptSource, Unowned, arguments,
       LoadOK, Stages, LiveAt, HeldFor, UsageHeld, Owners, Storage, Bit
  <2>2. CASE /\ format = "mxl" /\ Freed({"lease", "data"}) /\ ReturnResult(FALSE, FALSE, TRUE)
    <3>1. /\ held' = [o \in Owners |-> IF o \in {"lease", "data"} THEN 0 ELSE held[o]]
          /\ held' \in [Owners -> 0..2]
          /\ live' = live \ {"lease", "data", "report"}
          /\ UsageHeld'
      BY <2>2, FreedStep DEF HeldFor, Owners
    <3> QED
      BY <1>12, <2>2, <3>1 DEF AcceptSource, ReturnResult, arguments,
         LoadOK, Stages, LiveAt, HeldFor, Owners, Storage, Bit
  <2> QED
    BY <1>12, <2>1, <2>2 DEF AcceptSource, LoadOK
<1>13. CASE Convert
  BY <1>13, FreedStep DEF Convert, ReturnFailure, ReturnResult, arguments,
     LoadOK, Stages, LiveAt, HeldFor, UsageHeld, Owners, Storage, Bit
<1>14. CASE StartModelLine
  BY <1>14, FreedStep DEF StartModelLine, ReturnFailure, ReturnResult, Charge, arguments,
     LoadOK, Stages, LiveAt, HeldFor, UsageHeld, Owners, Storage, Bit
<1>15. CASE ImportDictionaries
  <2>1. CASE Admitted /\ Charge("dictionaries") /\ pc' \in {"assess", "decide"}
    <3>1. /\ held' = [held EXCEPT !["dictionaries"] = 1] /\ held' \in [Owners -> 0..2]
          /\ live' = live \cup {"dictionaries"} /\ UsageHeld'
      <4>1. "dictionaries" \in Owners /\ held["dictionaries"] = 0 /\ held \in [Owners -> 0..2]
        BY <1>15 DEF ImportDictionaries, LiveAt, HeldFor, Owners, Bit
      <4> QED
        BY <2>1, <4>1, ChargeStep
    <3> QED
      BY <1>15, <2>1, <3>1 DEF ImportDictionaries, Stay, arguments,
         LoadOK, Stages, LiveAt, HeldFor, Owners, Storage, Bit
  <2>2. CASE Unowned /\ pc' = "decide"
    BY <1>15, <2>2 DEF ImportDictionaries, Unowned, Stay, arguments,
       LoadOK, Stages, LiveAt, HeldFor, UsageHeld, Owners, Storage, Bit
  <2> QED
    BY <1>15, <2>1, <2>2 DEF ImportDictionaries
<1>16. CASE AssessModel
  BY <1>16 DEF AssessModel, Unowned, Stay, arguments,
     LoadOK, Stages, LiveAt, HeldFor, UsageHeld, Owners, Storage, Bit
<1>17. CASE Decide
  <2> DEFINE T == {"lease", "data", "candidate", "dictionaries", "model"}
  <2>1. /\ held' = [o \in Owners |-> IF o \in T THEN 0 ELSE held[o]]
        /\ held' \in [Owners -> 0..2]
        /\ live' = live \ {"lease", "data", "candidate", "dictionaries", "model", "report"}
        /\ UsageHeld'
    <3>1. Freed(T) /\ T \subseteq Owners /\ "lease" \in T
      BY <1>17 DEF Decide, Owners
    <3> QED
      BY <3>1, FreedStep DEF HeldFor
  <2>2. pc = "decide" /\ pc' = "returned" /\ UNCHANGED arguments
    BY <1>17 DEF Decide, ReturnResult
  <2> QED
    BY <2>1, <2>2 DEF arguments, LoadOK, Stages, LiveAt, HeldFor, Owners, Storage, Bit
<1>18. CASE UNCHANGED loadVars
  BY <1>18 DEF loadVars, LoadOK, LiveAt, HeldFor, UsageHeld
<1> QED
  BY <1>1, <1>2, <1>3, <1>4, <1>5, <1>6, <1>7, <1>8, <1>9, <1>10, <1>11, <1>12, <1>13, <1>14, <1>15, <1>16, <1>17, <1>18 DEF NextLoad, Done

\* The call starts without facts.
LEMMA InitFacts ==
  InitLoad => FactsOK /\ Answered
BY DEF InitLoad, NoFacts, FactsOK, Answered, OperationErr, ModelDue

\* A failure that ends the call is recorded and returned.
LEMMA FailedStep ==
  ASSUME FactsOK, ReturnFailure, "dictionaries" \in live' => "dictionaries" \in live, UNCHANGED lenient
  PROVE  FactsOK' /\ Answered'
<1>1. pc' = "returned" /\ facts' = [facts EXCEPT !.failure = TRUE]
  BY DEF ReturnFailure, ReturnResult
<1>2. result'.err = TRUE /\ result'.document = FALSE /\ result'.accepted = FALSE
  BY DEF ReturnFailure, ReturnResult
<1>3. FactsOK'
  BY <1>1 DEF FactsOK
<1>4. facts'.failure = TRUE
  BY <1>1 DEF FactsOK
<1>5. Answered'
  BY <1>2, <1>4 DEF Answered
<1> QED
  BY <1>3, <1>5

\* Every stage records its failure once, and the call's answer follows it.
LEMMA FactsStep ==
  ASSUME LoadOK, FactsOK, Answered, LiveAt, [NextLoad]_loadVars
  PROVE  FactsOK' /\ Answered'
<1> USE DEF FactsOK, Answered, OperationErr, ModelDue, arguments
<1>1. CASE OpenArchive
  <2>1. CASE ReturnFailure
    <3>1. ("dictionaries" \in live' => "dictionaries" \in live) /\ UNCHANGED lenient
      BY <1>1 DEF OpenArchive, Charge, Unowned
    <3> QED
      BY <2>1, <3>1, FailedStep
  <2>2. CASE pc' # "returned"
    BY <1>1, <2>2 DEF OpenArchive, ReturnFailure, ReturnResult, Charge
  <2> QED
    BY <2>1, <2>2, <1>1 DEF OpenArchive
<1>2. CASE ReadArchive
  <2>1. CASE ReturnFailure
    <3>1. ("dictionaries" \in live' => "dictionaries" \in live) /\ UNCHANGED lenient
      BY <1>2 DEF ReadArchive, Freed
    <3> QED
      BY <2>1, <3>1, FailedStep
  <2>2. CASE pc' # "returned"
    BY <1>2, <2>2 DEF ReadArchive, ReturnFailure, ReturnResult
  <2> QED
    BY <2>1, <2>2, <1>2 DEF ReadArchive
<1>3. CASE IndexArchive
  <2>1. CASE ReturnFailure
    <3>1. ("dictionaries" \in live' => "dictionaries" \in live) /\ UNCHANGED lenient
      BY <1>3 DEF IndexArchive, Unowned
    <3> QED
      BY <2>1, <3>1, FailedStep
  <2>2. CASE pc' # "returned"
    BY <1>3, <2>2 DEF IndexArchive, ReturnFailure, ReturnResult, Unowned
  <2> QED
    BY <2>1, <2>2, <1>3 DEF IndexArchive
<1>4. CASE detachData
  BY <1>4 DEF detachData, Keep
<1>5. CASE StartSourceLine
  <2>1. CASE ReturnFailure
    <3>1. ("dictionaries" \in live' => "dictionaries" \in live) /\ UNCHANGED lenient
      BY <1>5 DEF StartSourceLine, AbandonArchive, Freed, Charge
    <3> QED
      BY <2>1, <3>1, FailedStep
  <2>2. CASE pc' # "returned"
    BY <1>5, <2>2 DEF StartSourceLine, ReturnFailure, ReturnResult, Charge
  <2> QED
    BY <2>1, <2>2, <1>5 DEF StartSourceLine
<1>6. CASE InspectArchive
  BY <1>6 DEF InspectArchive, Unowned, Stay, LiveAt
<1>7. CASE MapDocument
  BY <1>7 DEF MapDocument, Charge, Unowned, Stay
<1>8. CASE DrainSource
  BY <1>8 DEF DrainSource, Unowned, Stay, LiveAt
<1>9. CASE PublishReport
  BY <1>9 DEF PublishReport, Unowned, Stay
<1>10. CASE FinishSourceReport
  BY <1>10 DEF FinishSourceReport, Freed, Stay, LiveAt
<1>11. CASE FinishSourceBundle
  BY <1>11 DEF FinishSourceBundle, Freed, Stay
<1>12. CASE AcceptSource
  <2>1. /\ UNCHANGED <<lenient, facts>> /\ pc = "accept"
        /\ "dictionaries" \in live' => "dictionaries" \in live
    BY <1>12 DEF AcceptSource, Freed, Unowned
  <2>2. CASE ModelDue
    <3>1. pc' \in {"convert", "import"}
      BY <1>12, <2>2 DEF AcceptSource, ModelDue
    <3> QED
      BY <2>1, <2>2, <3>1
  <2>3. CASE ~ModelDue /\ pc' = "returned"
    <3>1. result'.err = TRUE /\ result'.document = FALSE /\ result'.accepted = FALSE
      BY <1>12, <2>1, <2>3 DEF AcceptSource, ReturnResult
    <3>2. lenient => facts.failure = TRUE
      BY <2>1, <2>3
    <3>3. FactsOK'
      BY <2>1, <2>3
    <3> QED
      BY <2>1, <3>1, <3>2, <3>3
  <2>4. CASE ~ModelDue /\ pc' = "decide"
    BY <2>1, <2>4
  <2> QED
    BY <1>12, <2>2, <2>3, <2>4 DEF AcceptSource, ReturnResult
<1>13. CASE Convert
  <2>1. CASE ReturnFailure
    <3>1. ("dictionaries" \in live' => "dictionaries" \in live) /\ UNCHANGED lenient
      BY <1>13 DEF Convert, Freed
    <3> QED
      BY <2>1, <3>1, FailedStep
  <2>2. CASE pc' # "returned"
    BY <1>13, <2>2 DEF Convert, ReturnFailure, ReturnResult, Freed
  <2> QED
    BY <2>1, <2>2, <1>13 DEF Convert
<1>14. CASE StartModelLine
  <2>1. CASE ReturnFailure
    <3>1. ("dictionaries" \in live' => "dictionaries" \in live) /\ UNCHANGED lenient
      BY <1>14 DEF StartModelLine, Freed, Charge
    <3> QED
      BY <2>1, <3>1, FailedStep
  <2>2. CASE pc' # "returned"
    BY <1>14, <2>2 DEF StartModelLine, ReturnFailure, ReturnResult, Charge
  <2> QED
    BY <2>1, <2>2, <1>14 DEF StartModelLine
<1>15. CASE ImportDictionaries
  BY <1>15 DEF ImportDictionaries, Charge, Unowned, Stay
<1>16. CASE AssessModel
  BY <1>16 DEF AssessModel, Unowned, Stay
<1>17. CASE Decide
  BY <1>17 DEF Decide, Freed, ReturnResult, Accepted
<1>18. CASE UNCHANGED loadVars
  BY <1>18 DEF loadVars
<1> QED
  BY <1>1, <1>2, <1>3, <1>4, <1>5, <1>6, <1>7, <1>8, <1>9, <1>10, <1>11, <1>12, <1>13, <1>14, <1>15, <1>16, <1>17, <1>18 DEF NextLoad, Done

-----------------------------------------------------------------------------
\* LoadInv is an inductive invariant of a loading call.
THEOREM LoadingInductive ==
  SpecLoad => []LoadInv
<1>1. InitLoad => LoadInv
  BY InitStorage, InitFacts DEF LoadInv
<1>2. LoadInv /\ [NextLoad]_loadVars => LoadInv'
  BY StorageStep, FactsStep DEF LoadInv, StorageInv
<1> QED
  BY <1>1, <1>2, PTL DEF SpecLoad

\* Between two stages the account is charged for exactly the storage that is
\* still alive, for both loaders, every budget and every early return.
THEOREM StorageIsCharged ==
  SpecLoad => []ChargedWhileLive
<1>1. LoadInv => ChargedWhileLive
  <2> SUFFICES ASSUME LoadInv PROVE ChargedWhileLive
    OBVIOUS
  <2>1. live \subseteq Storage
    BY DEF LoadInv, StorageInv, LiveAt
  <2>2. Cardinality(live) = Bit("archive" \in live) + Bit("data" \in live) + Bit("source" \in live)
           + Bit("lease" \in live) + Bit("candidate" \in live) + Bit("dictionaries" \in live)
           + Bit("model" \in live) + Bit("report" \in live)
    BY <2>1, CountLive
  <2>3. usage = Bit("archive" \in live) + Bit("data" \in live) + Bit("source" \in live)
           + Bit("lease" \in live) + Bit("candidate" \in live) + Bit("dictionaries" \in live)
           + Bit("model" \in live) + Bit("report" \in live)
    BY DEF LoadInv, StorageInv, LiveAt, HeldFor, UsageHeld, Bit
  <2> QED
    BY <2>2, <2>3 DEF ChargedWhileLive
<1> QED
  BY <1>1, LoadingInductive, PTL

\* Whichever stage fails, DecodeAssessed and DecodeMXLAssessed return with
\* every owner closed.
THEOREM CallsReturnClean ==
  SpecLoad => []ReturnsClean
<1>1. LoadInv => ReturnsClean
  <2> SUFFICES ASSUME LoadInv, pc = "returned" PROVE live = {} /\ \A o \in Owners : held[o] = 0
    BY DEF ReturnsClean
  <2>1. live = {}
    BY DEF LoadInv, StorageInv, LiveAt, Storage, Owners
  <2>2. \A o \in Owners : held[o] = 0
    BY <2>1 DEF LoadInv, StorageInv, HeldFor, Owners, Bit
  <2> QED
    BY <2>1, <2>2
<1> QED
  BY <1>1, LoadingInductive, PTL

\* A document comes with no error, strictly only after both lines accepted it;
\* leniently it is withheld exactly when a stage failed.
THEOREM ResultsAreSound ==
  SpecLoad => []ResultSound
<1>1. LoadInv => ResultSound
  BY DEF LoadInv, FactsOK, Answered, ResultSound
<1> QED
  BY <1>1, LoadingInductive, PTL

-----------------------------------------------------------------------------
(* The loader inside the package's life                                     *)

\* A step of the package's life is a step of its loader or leaves it alone.
LEMMA LifeIsLoading == SpecLife => SpecLoad
<1>1. InitLife => InitLoad
  BY DEF InitLife
<1>2. [NextLife]_lifeVars => [NextLoad]_loadVars
  BY DEF NextLife, lifeVars, Load, Work, NextLoad
<1> QED
  BY <1>1, <1>2, PTL DEF SpecLife, SpecLoad

\* While DecodeMXLAssessed or DecodeAssessed runs, the account is charged for
\* exactly the storage alive, whatever is done with the package later.
THEOREM LoadingChargesWhatLives == SpecLife => []ChargedWhileLive
BY LifeIsLoading, StorageIsCharged, PTL

\* A package is worked on only after its loader gave back all that it held.
THEOREM LoadingReturnsClean == SpecLife => []ReturnsClean
BY LifeIsLoading, CallsReturnClean, PTL

\* The package that is resolved and edited was accepted, or its caller was
\* lenient and no stage had failed.
THEOREM LoadingResultsAreSound == SpecLife => []ResultSound
BY LifeIsLoading, ResultsAreSound, PTL

=============================================================================
