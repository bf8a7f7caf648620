------------------------------ MODULE OpusSync ------------------------------
(***************************************************************************)
(* An MXL package and the opus graphs resolved from it: ResolveOpus of     *)
(* mxl_opus.go decodes every linked document without touching the package, *)
(* and SyncResolvedOpus of mxl_opus_sync.go writes the documents edited    *)
(* through one graph back to the package's resources.                      *)
(*                                                                         *)
(* Two graphs of one package share its root document and own their linked  *)
(* documents, and resource bytes may also be replaced directly, so a       *)
(* synchronisation must notice what it did not write, keep the bytes of    *)
(* what was not edited, and write every edited document or none.           *)
(*                                                                         *)
(* Calls on one package are sequential.  A synchronisation is modelled by  *)
(* its loops, one document at a time, because its failures come from the   *)
(* middle of the encoding loop.  Document content is a text and a list of  *)
(* links; SHA-256 is taken to be injective, so a stored hash is modelled   *)
(* by the bytes it was taken of.  Inline nested opuses, which share their  *)
(* parent's path and document, are part of the document's link list.       *)
(***************************************************************************)
EXTENDS Integers, Sequences, FiniteSets, Functions

CONSTANTS
  Graphs,          \* the resolved graphs callers hold
  Paths,           \* archive paths of documents
  PathOrder,       \* Paths in the order of sort.Strings
  RootPaths,       \* the paths RootFiles[0] may name
  RootObjects,     \* the documents that are or may become MXLPackage.Document
  Texts,           \* what a document says besides its links
  Unencodable,     \* a text the encoder rejects
  LinkLists,       \* the link lists documents may have
  Originals,       \* the resources of the opened package: [path -> bytes]
  FirstRoot,       \* its root document's content
  Foreign,         \* bytes that may be put into Resources directly
  Missing,         \* no resource has this path
  MaxEdits         \* bound: edits between the calls

ASSUME PathAssumption ==
  /\ IsInjective(PathOrder) /\ Range(PathOrder) = Paths
  /\ RootPaths \subseteq Paths
  /\ Unencodable \in Texts
  /\ Originals = [p \in Paths |-> Originals[p]]

VARIABLES
  resources,   \* MXLPackage.Resources by path: bytes or Missing
  rootPath,    \* RootFiles[0].FullPath
  document,    \* MXLPackage.Document, a pointer
  content,     \* what every document in memory holds, by pointer
  graph,       \* graph -> its mxlResolvedOpusState, or NoGraph
  call,        \* the synchronisation under way, or how the last one ended
  edits        \* the edits made so far

package == <<resources, rootPath, document>>
vars == <<resources, rootPath, document, content, graph, call, edits>>

Objects == RootObjects \cup (Graphs \X Paths)
NoGraph == [root |-> Missing]
Idle == [phase |-> "idle", result |-> "none"]
Stranger == <<"stranger">>   \* a document that no resolution produced

-----------------------------------------------------------------------------
(* Codecs (external): Decode reads any well-formed bytes, Encode writes the *)
(* canonical form of a document and fails on what XML cannot represent.     *)

Garbage == [form |-> "garbage"]
Decodable(data) == data.form # "garbage"
Decode(data) == data.body
encodeMXLDocument(body) == [form |-> "canonical", body |-> body]
Encodable(body) == body.text # Unencodable

-----------------------------------------------------------------------------
(* prepareMXLPackage: the root path may not name a resource as well.        *)
prepareMXLPackage == resources[rootPath] = Missing

\* loadDocument: the document a link to p finds, the root document first.
Loaded(p) ==
  CASE p = rootPath -> content[document]
    [] p # rootPath /\ resources[p] # Missing -> Decode(resources[p])

CanLoad(p) ==
  IF p = rootPath THEN TRUE
  ELSE p \in Paths /\ resources[p] # Missing /\ Decodable(resources[p])

\* The paths reached from the root after n links; a score has no links, and
\* a path that cannot be loaded leads nowhere.
Links(p) == IF CanLoad(p) THEN Range(Loaded(p).links) ELSE {}
Reached ==
  LET after[n \in 0..Cardinality(Paths)] ==
        IF n = 0 THEN {rootPath}
        ELSE after[n - 1] \cup {l.path : l \in UNION {Links(p) : p \in after[n - 1]}}
  IN after[Cardinality(Paths)]

\* ResolveOpus fails on the first link whose target is absent, does not
\* decode or has the other type, and on a document that cannot be captured.
Resolvable ==
  /\ content[document].kind = "opus"
  /\ prepareMXLPackage
  /\ \A p \in Reached : CanLoad(p)
  /\ \A p \in Reached : \A l \in Links(p) : Loaded(l.path).kind = l.kind
  /\ \A p \in Reached : Encodable(Loaded(p))

Pointer(g, p) == IF p = rootPath THEN document ELSE <<g, p>>

\* newMXLResolvedOpusState, with the resolved graph it is kept in.  The
\* field seen is history: the bytes this graph read or wrote last.
Captured(g) ==
  [root            |-> rootPath,
   documents       |-> [p \in Reached |-> Pointer(g, p)],
   target          |-> [p \in Reached |-> Pointer(g, p)],
   links           |-> [p \in Reached |-> Loaded(p).links],
   canonicalHashes |-> [p \in Reached |-> encodeMXLDocument(Loaded(p))],
   resourceHashes  |-> [p \in Reached \ {rootPath} |-> resources[p]],
   seen            |-> [p \in Reached \ {rootPath} |-> resources[p]]]

\* ResolveOpus never changes the package; a failure returns no graph.
ResolveOpus(g) ==
  /\ call.phase = "idle"
  /\ \/ /\ Resolvable
        /\ graph' = [graph EXCEPT ![g] = Captured(g)]
        /\ content' = [o \in Objects |->
             IF o \in {<<g, p>> : p \in Reached \ {rootPath}} THEN Loaded(o[2]) ELSE content[o]]
     \/ /\ ~Resolvable
        /\ graph' = [graph EXCEPT ![g] = NoGraph]
        /\ UNCHANGED content
  /\ call' = Idle
  /\ UNCHANGED <<package, edits>>

-----------------------------------------------------------------------------
(* What callers may do between the calls.                                   *)

Edit ==
  /\ call.phase = "idle" /\ edits < MaxEdits
  /\ edits' = edits + 1 /\ call' = Idle

\* A document edited in place: its text, or its link list.
EditDocument(o) ==
  /\ Edit
  /\ o \in RootObjects \/ \E g \in Graphs : graph[g] # NoGraph /\ o \in Range(graph[g].documents)
  /\ \/ \E t \in Texts \ {content[o].text} : content' = [content EXCEPT ![o].text = t]
     \/ /\ content[o].kind = "opus"
        /\ \E l \in LinkLists \ {content[o].links} : content' = [content EXCEPT ![o].links = l]
  /\ UNCHANGED <<package, graph>>

\* The graph edited: a target is replaced by another document.
ReplaceTarget(g, p) ==
  /\ Edit
  /\ graph[g] # NoGraph /\ p \in DOMAIN graph[g].target
  /\ graph' = [graph EXCEPT ![g].target[p] = Stranger]
  /\ UNCHANGED <<package, content>>

\* The package edited directly: bytes, the root path or the root document.
EditPackage ==
  /\ Edit
  /\ \/ \E p \in Paths, data \in Foreign \cup {Missing} :
          /\ data # resources[p]
          /\ resources' = [resources EXCEPT ![p] = data]
          /\ UNCHANGED <<rootPath, document>>
     \/ /\ rootPath' \in RootPaths \ {rootPath} /\ UNCHANGED <<resources, document>>
     \/ /\ document' \in RootObjects \ {document} /\ UNCHANGED <<resources, rootPath>>
  /\ UNCHANGED <<content, graph>>

-----------------------------------------------------------------------------
(* SyncResolvedOpus                                                         *)

\* addDocument: a document is the one resolution registered for its path.
addDocument(g, p) == graph[g].target[p] = graph[g].documents[p]

\* collectDocuments: the graph still mirrors the links of its documents and
\* still leads to every document it was resolved with.  The walk visits a
\* document once, so a document a changed link no longer reaches shows up as
\* that changed link.
collectDocuments(g) ==
  \A p \in DOMAIN graph[g].documents :
    /\ addDocument(g, p)
    /\ content[graph[g].documents[p]].links = graph[g].links[p]

\* Defect: resources are not compared with what the graph read.
UncheckedResource(g, p) == resources[p] # Missing
\* The resource of a linked document is there and is the one the graph knows.
CurrentResource(g, p) == resources[p] # Missing /\ resources[p] = graph[g].resourceHashes[p]

Syncable(g) ==
  /\ graph[g] # NoGraph
  /\ prepareMXLPackage
  /\ rootPath = graph[g].root
  /\ document = graph[g].documents[rootPath]
  /\ collectDocuments(g)
  /\ \A p \in DOMAIN graph[g].resourceHashes : CurrentResource(g, p)

\* The loops visit the collected paths in sorted order: p is the next one.
Rank(p) == CHOOSE i \in DOMAIN PathOrder : PathOrder[i] = p
IsNext(p) == \A q \in call.left : Rank(p) <= Rank(q)

Return(g, result) == call' = [phase |-> "idle", result |-> result, graph |-> g,
                              before |-> IF "before" \in DOMAIN call THEN call.before ELSE resources]

SyncResolvedOpus(g) ==
  /\ call.phase = "idle" /\ graph[g] # NoGraph
  /\ \/ /\ Syncable(g)
        /\ call' = [phase |-> "encode", graph |-> g, left |-> DOMAIN graph[g].documents,
                    encoded |-> [p \in {} |-> Missing], before |-> resources]
     \/ /\ ~Syncable(g)
        /\ call' = [phase |-> "idle", result |-> "error", graph |-> g, before |-> resources]
  /\ UNCHANGED <<package, content, graph, edits>>

\* Defect: a document is written as soon as it is encoded.
EagerWrite(g, p, data) ==
  resources' = IF p = graph[g].root THEN resources ELSE [resources EXCEPT ![p] = data]
\* Nothing is written while documents are encoded.
EncodingWrites(g, p, data) == UNCHANGED resources

\* One document of the encoding loop; the first failure ends the call.
EncodeDocument(p) ==
  LET g == call.graph
      body == content[graph[g].documents[p]]
  IN \/ /\ Encodable(body)
        /\ EncodingWrites(g, p, encodeMXLDocument(body))
        /\ call' = [call EXCEPT !.left = @ \ {p},
                                !.encoded = [q \in DOMAIN @ \cup {p} |->
                                               IF q = p THEN encodeMXLDocument(body) ELSE @[q]]]
     \/ /\ ~Encodable(body)
        /\ UNCHANGED resources
        /\ Return(g, "error")

EncodeNext ==
  /\ call.phase = "encode"
  /\ \E p \in call.left : IsNext(p) /\ EncodeDocument(p)
  /\ UNCHANGED <<rootPath, document, content, graph, edits>>

BeginCommit ==
  /\ call.phase = "encode" /\ call.left = {}
  /\ call' = [call EXCEPT !.phase = "commit", !.left = DOMAIN call.encoded]
  /\ UNCHANGED <<package, content, graph, edits>>

\* Defect: "unchanged" is decided by the stored bytes, not by the canonical
\* form the document had when it was captured.
UnchangedBytes(g, p, data) == data = graph[g].resourceHashes[p]
Unedited(g, p, data) == data = graph[g].canonicalHashes[p]

\* One document of the writing loop.
CommitDocument(p) ==
  LET g == call.graph
      data == call.encoded[p]
  IN /\ resources' = IF p = graph[g].root \/ Unedited(g, p, data) THEN resources
                     ELSE [resources EXCEPT ![p] = data]
     /\ call' = [call EXCEPT !.left = @ \ {p}]

CommitNext ==
  /\ call.phase = "commit"
  /\ \E p \in call.left : IsNext(p) /\ CommitDocument(p)
  /\ UNCHANGED <<rootPath, document, content, graph, edits>>

\* Both hashes of every document, for the next synchronisation.
RecordedHashes(g) ==
  [graph[g] EXCEPT !.canonicalHashes = [p \in DOMAIN @ |-> call.encoded[p]],
                   !.resourceHashes = [p \in DOMAIN @ |-> resources[p]],
                   !.seen = [p \in DOMAIN @ |-> resources[p]]]

RecordHashes ==
  /\ call.phase = "commit" /\ call.left = {}
  /\ document' = graph[call.graph].target[graph[call.graph].root]
  /\ graph' = [graph EXCEPT ![call.graph] = RecordedHashes(call.graph)]
  /\ Return(call.graph, "ok")
  /\ UNCHANGED <<resources, rootPath, content, edits>>

-----------------------------------------------------------------------------
Init ==
  /\ resources = Originals
  /\ rootPath \in RootPaths
  /\ document \in RootObjects
  /\ content = [o \in Objects |-> FirstRoot]
  /\ graph = [g \in Graphs |-> NoGraph]
  /\ call = Idle
  /\ edits = 0

Next ==
  \/ \E g \in Graphs : ResolveOpus(g) \/ SyncResolvedOpus(g)
  \/ \E o \in Objects : EditDocument(o)
  \/ \E g \in Graphs, p \in Paths : ReplaceTarget(g, p)
  \/ EditPackage
  \/ EncodeNext \/ BeginCommit \/ CommitNext \/ RecordHashes

Spec == Init /\ [][Next]_vars

-----------------------------------------------------------------------------
\* SyncResolvedOpus returns an error with every resource as it was, or no
\* error with every document of the graph stored: each linked resource
\* decodes to what its document says now, links included.
AllOrNothing ==
  /\ call.phase = "idle" /\ call.result = "error" => resources = call.before
  /\ call.phase = "idle" /\ call.result = "ok" =>
       \A p \in DOMAIN graph[call.graph].resourceHashes :
         Decode(resources[p]) = content[graph[call.graph].documents[p]]

\* "Unchanged linked documents retain their original bytes": when a
\* synchronisation succeeds, a resource that already said what its document
\* says keeps its bytes, formatting included; so a second synchronisation
\* without an edit in between writes nothing.
UneditedKeepBytes ==
  call.phase = "idle" /\ call.result = "ok" =>
    \A p \in DOMAIN graph[call.graph].resourceHashes :
      Decode(call.before[p]) = content[graph[call.graph].documents[p]] => resources[p] = call.before[p]

\* A synchronisation replaces only bytes its graph has read or written last:
\* what another graph or a direct edit stored since then is never lost.
NoLostUpdate ==
  [][\A p \in Paths : resources'[p] # resources[p] /\ call.phase # "idle" =>
       graph[call.graph].seen[p] = resources[p]]_vars

=============================================================================
