# Formal models of go-musicxml

go-musicxml reads, writes and assesses MusicXML documents and packages. Its
generated model and codecs are plain data; the logic that is easy to get wrong
is the *assessment*: a bounded, interruptible evaluation of several hundred
rules over a document that is read once, with resource accounts that sessions
share, dictionaries that goroutines share, and reports that must not claim more
than was proved. The modules in this directory model that logic. Every
definition is translated from the Go source; `PROJECT.json` (`map`) names the
lines.

## 1. Inventory

### 1.1 Components, their state and operations

| component | source | state | operations | modules |
|---|---|---|---|---|
| budget account | `validation/budgets.go` | usage and maxima by kind, document bytes, peak step allowance, a mutex | `NewBudgetAccount`, `Charge`, `Release`, `Limit`, `chargeDocumentBytes`, `chargeDiagnostic` | `BudgetAccount` |
| report accumulator | `validation/report.go` | counts, stored findings and rules, pending candidates, cutoff, simulated prefix, charged bytes | `storeDiagnostic`, `deferDiagnostic`, `truncateDiagnostics`, `storePending`, `finish` | `ReportAccumulator`, in a session: `WindowedSession` |
| session: event protocol | `validation/session.go`, `retained_facts.go`, `model_representation.go` | node stack, facts and seals of each node, terminal cause, depth/retained/transient gauges | `Begin`, `OpenNode`, `Attribute`, `CompleteAttributes`, `ModelRepresentation`, `CloseNode`, `Finish`, `cleanup` | `SessionEvents` |
| session: rule evaluation | `validation/session.go`, `session_evaluate.go` | cached decisions, document aggregates, counts | `evaluate` when a node closes, the phases of `Finish` | `RuleEvaluation` |
| session: schema assessment | `validation/session_schema.go` | traversal frames, failure cache, DTD summaries | `bindSourceSchema`, `recordXSDResult`, `finalizeSourceSchema`, `flushSourceDTDSummaries` | `SchemaAssessment` |
| outcome table | `validation/outcome_bits.go` | packed words, overflow map, charged bytes | `get`, `set` | `OutcomeMap`, `OutcomeBits` |
| dictionary sets | `validation/dictionary_set.go` | entries, borrow count, parent, account, closed flag, a mutex | `NewDictionarySet`, `shareDictionarySet`, `borrow`, `release`, `Close` | `DictionarySets` |
| dictionary assessment, bundled cache | `dictionary_assessment.go`, `dictionary_import.go`, `bundled_dictionary_cache.go` | one process-wide set under a mutex; one set per call | load, begin, end, deferred `Close` | `DictionaryAssessment` |
| XSD kernel: content models | `internal/xsd/particle.go`, `prefix.go` | end positions and predecessors of a match; the configurations of a prefix | `Prepare`, `Run`, `Witness`; `push` | `ContentModel`, `PrefixMatcher` |
| assessed loading, leases | `assessed_loading.go`, `mxl_assessed_loading.go`, `assessment.go`, `validation/retained_*.go` | archive, candidate, report and dictionaries, each charged by one owner | the stages of `DecodeAssessed` and `DecodeMXLAssessed`, `retainFinishedReport`, `Close` of a lease | `AssessedLoading` |
| opus synchronisation | `mxl_opus.go`, `mxl_opus_sync.go` | a package's resources and root; the documents and hashes of every resolved graph | `ResolveOpus`, `SyncResolvedOpus`, edits by the caller | `OpusSync`, composed in `LoadedPackage` |
| package session, snapshots | `validation/package_*.go`, `resource_snapshot.go` | observed entries, rootfile, roles, seals; adopted snapshots; decisions | one method per observation, `adoptResource`, the seals, `recordResourceFailure`, `finish` | `PackageSession` |
| resource graph | `resource_graph*.go`, `validation/package_links.go`, `package_expansion.go` | queue of contexts, expansion keys, pins and cached resources, edges and seals | `enqueue`, `walkLink`, `loadExternalDocument`, `sealResourceExpansion`, `finish` | `ResourceGraph` |
| navigation of a part | `validation/context_navigation*.go` | open repeat regions with passes, jumps taken, performance state | `navigationBuildEdges`, `runNavigation` | `Navigation` |
| catalog compilation, evaluation windows, XML source, other timeline and context rules, MXL container | root package and `validation/` | see section 2 | | not modelled |
| generated model and codecs, generators | `zz_*`, `internal/xsdgen`, ... | none of their own | | not modelled |

### 1.2 Interactions

A loader creates an `Account` and starts a `Session` on it, possibly one of
several sessions that share the account. The session reserves every byte it
keeps with `retain` or `retainTransient` before it allocates, and counts work
with `step`. Closing a node evaluates the rules that can be decided; `Finish`
evaluates the rest in phases ordered by prerequisites. Each evaluation records
at most one decision per (rule, node), counts it in the report accumulator and
caches it; successful decisions go to the compact outcome table. Before the
ordinary rules, the schema traversal binds the whole document with a run of the
XSD kernel and records failing checks. Assessments with dictionaries borrow a
`DictionarySet`, often a view of the set that the process-wide cache imports
once. Everything a session holds is released by `cleanup`, or moves to a lease
or a snapshot that the caller closes.

A strict loader runs two such assessments on one account, of the source and of
the model converted from it, and keeps the first report under a lease while the
second runs. A package run opens an archive or follows the links between
documents through the caller's resolver; it assesses each document in a session
of its own and hands the finished snapshots to a `PackageSession`, which decides
the rules of the package. A loaded package belongs to its caller, who resolves
opus graphs from it, edits them and writes them back.

### 1.3 What is hard here

* *Interruption.* A budget refusal or a canceled context may stop any step; a
  proved violation must survive it, and a report must not look complete.
* *Two passes and many recordings.* Decisions are taken early or late, and one
  failing check is recorded up to five times; both must count once and agree
  with a single pass over the whole document.
* *Order.* Findings arrive out of document order, or twice under one key, and
  have to be truncated as if they had arrived in order.
* *Accounting.* Gauges are shared, charges precede allocations, releases ignore
  their errors, and arrays are charged twice while they grow.
* *Sharing.* Dictionary sets are closed while sessions read them; the last
  reader frees them, whoever it is.
* *Early returns.* A loader has more than a dozen returns, and each has its own
  set of owners to close.
* *Outside answers.* A resolver may answer one request in different ways, and
  documents link to each other in cycles.
* *Decisions that are final.* A package rule or the binding of a child is fixed
  as soon as the evidence seems to decide it, and never looked at again.

`PROJECT.json` (`hazards`) lists these at their lines with the properties aimed
at them.

## 2. Plan

Modelled: `BudgetAccount`, `ReportAccumulator` (extended by `WindowedSession`),
`RuleEvaluation`,
`SchemaAssessment`, `OutcomeBits` (refining `OutcomeMap`), `SessionEvents`,
`DictionarySets` and `DictionaryAssessment` (composing it), `AssessedLoading`
and `OpusSync` (composed by `LoadedPackage`), `PackageSession`, `ResourceGraph`,
`ContentModel` and `PrefixMatcher`, `Navigation`; with proofs for all of these
but `ReportAccumulator`, `WindowedSession`, `ContentModel`, `PrefixMatcher` and
`Navigation` (section 6).

Next, in this order:

1. `CatalogSchedule`: the compilation of rules into phases in `catalog.go`,
   checked against the topological order that `RuleEvaluation` assumes.
2. The windows of `session_window.go` in `WindowedSession`, composed with
   `RuleEvaluation`: eviction never removes a fact that a later rule reads.
3. `EntityFrames`: the stack of entity expansions of the XML source with its
   budget, and the remaining events of `SessionEvents` (source origins, lexical
   facts, DTD identifiers).
4. More operators with reference definitions: numbered spans of the context
   rules, identity constraints of the XSD kernel, path and rootfile rules of
   MXL.

Proofs to follow with these modules: the order of phases that `CatalogSchedule`
computes, as the fact behind `ScheduleAssumption`, and the safety of eviction.

## 3. The models

Each definition marked *Defect* is a plausible bug in the definition that
follows it. No specification uses it: it is substituted for that definition to
see that the property named in `PROJECT.json` (`mutants`) notices.

### BudgetAccount

One action per method: the account's mutex makes each atomic. 64-bit integers
are `0..MaxInt64` with the code's saturating sum and product. `limit` depends on
the nodes and on the document bytes seen so far; the variable `uncappedNodes`
remembers the nodes charged before the first document byte, for the property
`ExpansionBounded`. `ChargeRefused` is a `Charge` that returns an error and
updates only the peak allowance.

### ReportAccumulator

`Visit` moves the evaluation position in any order, also back to a position
that was left, as a session does with a schema node after its children. The
order within a position restarts then (`nextKey`), so keys can repeat.
`deferDiagnostic`, `truncateDiagnostics` and `storePending` are the methods; a
cutoff drops every candidate with its key, also those the simulation had stored,
and simulates what is left again (`setCutoff`). A finding is its key, rule and
size. `session`, chosen in `Init`, holds the document and the limits of the
session's account, so that one run covers several.

`arrivals` and `truncations` are history variables. `BufferedReport` is what a
buffered accumulator stores of the arrivals *sorted by key*, and
`DeferredEqualsSorted` compares the deferred report with it. They are equal if no
key arrives twice, which is what `report_deferred_test.go` samples ("findings at
one position are produced together"). Otherwise the report may lack findings
that share the key of the first one that cannot be stored (`BeforeCutoff`).

### WindowedSession

Key order is not the order in which the buffered engine stores. `WindowedSession`
lets a session take its positions in the order it really does, which is the same
under both strategies: a node, its children, the node again, the summaries.
`WindowedEqualsBuffered` compares the deferred report with the buffered storage
of the findings as they arrive, and is violated (section 5).

### RuleEvaluation

The catalogue is a constant sequence of rules with prerequisites on the same
node, the parent or the whole document. A selector's and a predicate's answers
are nondeterministic but fixed by the first evaluation (`fact`), as evaluating a
rule is a function of retained facts. An answer is a verdict or the decision that
unknown, unsupported or invalid evidence gives (`evidenceDecision`). Invalid
evidence blocks a rule with the cause it names; of a caller's evidence only the
shape is checked (`contracts.go`), so the cause may be a rule that passed, one
of another session, or missing. A rule that such a rule blocks names the same
cause, or the blocked rule itself if there was none (`blockCause`). `cursor` holds the evaluations left in a
pass, and in `Finish` a mark for the end of each phase; the next one is the
first in the order of the pass (`NextClosed`: node by node, `NextFinal`: rule by
rule). `EvaluateClosed` is the evaluation in
`CloseNode`, `EvaluateFinal` and `EndPhase` the phases of `Finish`; `Finish`
and `RefuseEvent` may find the session terminal or make it so. `Reference`
decides every rule in one pass over the finished document.

### SchemaAssessment

`Enter` and `CompleteNode` are the two halves of a frame of `bindSourceSchema`;
the answers of the XSD kernel are its environment. `recordXSDResult` is one
operator with the points at which it may be interrupted as its `stop` argument.
`rec` is everything that is recorded, with the accumulator's position `at`,
which moves before a recording. The document is a constant tree. The children a
frame waits for and the evaluations a pass has left are sets; the next one is
the first in document order or in the order of the pass. The parts of
`recordXSDResult` have names of their own in the order in which they happen:
`CountOutcome`, `Report`, `Retain`, `Cache`.

The key of a finding deserves a remark. The comment of `findingKey` says that it
orders a finding by where the buffered engine produces it, and
`windowed_strategy_test.go` says that the buffered engine stores findings in
strictly increasing key order. `KeysIncrease` states that, and the run
`schema_keys` refutes it (section 5): a node's second recording, of what was
proved after its children, returns to the node's position, so a parent's
representability failure is stored after its children's failures with a smaller
key, or with one that is already taken. `KeysStepBackToAncestors` says how far
the order can be broken.

### SessionEvents

The handlers of a session as actions; an evaluation is a sequence of storage
operations inside the handler (`Retain`, `releaseFactBytes`, `BeginScope`,
`retainTransient`, `releaseTransient`, `Fail`), ended by `EndEvaluations`. The
account is shared: `Other` lets other sessions change what they hold at any
moment, also in the middle of a handler. `Refuse` covers every early return of
an event after it charged nothing, a level of depth, some bytes or both. A
charge that would fit may still be refused, because the context may be canceled
or a cumulative budget exhausted. What an evaluation decides is in
`RuleEvaluation`. Caller-supplied completeness evidence is "complete" or not;
problems of a model representation are those of children or others.

### OutcomeMap and OutcomeBits

`OutcomeMap` is what the session needs: a map with `set`. `OutcomeBits` is the
table of 2-bit outcomes with its reslice, growth and overflow branches;
`ImplementsMap` is the refinement with `get` as the mapping. Its specification is
`SpecTable`, as the table and the account share a proof module.

### DictionarySets and DictionaryAssessment

Each mutex-protected section is one step; what a call does outside it (charging,
refunding, releasing the parent of a view) is queued in `todo` and interleaves
with the others. The properties count borrows and bytes by explicit sets: every
borrow and every byte has a holder, a session, a view, a set, or an item of
`todo`. `DictionaryAssessment` extends it with the control flow of a
call: cache, import, begin, session, deferred close. `Programs` says which
processes are calls and which are direct users of shared sets; no program has
both, as no user sees the sets of a call.

### AssessedLoading, OpusSync and LoadedPackage

`AssessedLoading` is the control flow of the two loaders from their first charge
to their result; `format` says which one was called. Every piece of storage has
size one and one owner. `usage` is what the account says, `held` what each owner
believes, `live` what is in use; the properties relate the three. A stage may
fail by a refused charge, by its own error or by a report that does not accept.

`OpusSync` is a package with two resolved graphs. A synchronisation is one
action per document of its two loops, which visit the documents of the graph in
the order of their paths, so that an encoding error in the middle of the first
leaves what the code leaves. A document is a text and a list of
links; SHA-256 is taken to be injective. Decoding and encoding distinguish the
original formatting of a document from what the encoder writes: decoding and
encoding a document again does not give its bytes back.

`LoadedPackage` extends both and lets a caller work on a package once a loader
returned it: `SpecLife` is a load (`InitLoad`, `NextLoad`) followed by
synchronisations.

### PackageSession

One action per method, with a pass over the rules (`Evaluate`) that a refused
charge may cut anywhere (`Cuts`); `Tried` is what it does with one rule. `given`,
chosen in `Init`, is the package, the profile and the answers of the adapter. Of
the order of the archive's entries only the mimetype's place is kept (`late`). `Reference` decides every rule from all
the evidence of a finished session.

### ResourceGraph

The queue, the expansion keys and the caches of the run, together with the
conditions under which the session accepts an edge or a seal (`CanObserveEdge`,
`CanSeal`), written from the session's own code. A call that does not meet them
would end the run, which `SessionNeverRefuses` excludes. Following a link adopts
the target, queues its context and observes the edge in one step; a charge that
is refused between these ends the run, and what such a run leaves is not
modelled. The resolver is the
environment: it answers each request from a set, in any order.

### ContentModel and PrefixMatcher

`ContentModel` is the matcher with its sets of end positions and the
reconstruction of a witness, as recursive operators; `Derivations` is the
reference, the leaf sequences a content model generates. `PrefixMatcher` pushes
one child after the other, with the configurations of the code as paths of
frames. A wildcard is a leaf like an element; the matcher without bindings
(`Context.local` is nil), which leaves wildcards out of a witness, is not
modelled.

### Navigation

`runNavigation` as one action per branch of its loop, over the rows of a part.
The edges of `navigationBuildEdges` are operators. Tempo stands for dynamics and
pizzicato too, which follow the same rules. Play, instruments and listening are
left out: play and listening become unknown at a re-entry, while an instrument's
unchanged initial declaration survives it, and listening has a time-only guard
of its own. `Performance`, the reference, writes a part out as a reader would. A
traversal stops at an ending; a part with both repeats and jumps has no known
passes, so a repeat that is to be played again after a jump is reached only
without a pass to compare.

## 4. Runs

| run | distinct states | question |
|---|---|---|
| `session_storage` | 0.6 million | limits, overflow and quotas of the account; does the compact outcome table implement a map and charge what it keeps; does deferring give the report in key order, and give back its bytes |
| `rule_evaluation` | 1.1 million | do early and late decisions agree with one pass; is the verdict sound |
| `schema_assessment` | 1.5 million | is a failure counted once and never lost; does complete mean assessed |
| `schema_keys` | violated | does the buffered engine store findings in key order |
| `windowed_report` | violated | does the windowed strategy report as the buffered one |
| `session_events` | 0.8 million | the protocol over every document of three nodes, and the gauges on a shared account |
| `dictionary_calls` | 19 thousand | readers keep their data; freed once; calls return; one import; nothing retained |
| `loaded_package` | 179 thousand | does every return of a loader close what is open; does a synchronisation write all or nothing |
| `package_session` | 0.8 million | are early decisions right and none too late; is the bundle's verdict earned; who owns what |
| `resource_graph` | 34 thousand | is every context expanded once, and does the session accept what the walk does |
| `content_model` | 117 thousand | are match, witness and prefix binding those of the content model |
| `navigation` | 157 thousand | is the traversal what the notation means |

`session_storage` runs one of three stores in each behaviour; they share no
variable, and none is restricted by the others.

Several properties are conjunctions of named parts (in parentheses):

* `DeferralExact` (`DeferredEqualsSorted`, `PendingExact`, `PendingBounded`,
  `GaugeBalanced`): the deferred report is the buffered storage of the sorted
  findings in findings, rules, truncation and quota usage, up to findings with
  the key of the cutoff, with bounded candidates and exact charges.
* `DecisionsJustified` (`CountedOnce`, `VerdictsAreEarned`,
  `BlocksAreTraced`), `EarlyDecisionsAgree`, `VerdictIsSound`: the two-pass
  evaluation is the one-pass evaluation; a conformant report is earned.
  `BlocksAreTraced` does not promise that a cause really failed: it is a failure
  only if the chain began with one, and otherwise what invalid evidence named.
* `FailuresCountedOnce` (`CountedOnce`, `FailureNeverLost`),
  `CompleteMeansAssessed`, `ReportedExactly` (`NothingUnreported`,
  `SummaryExact`): interruption cannot hide a violation.
* `KeysStepBackToAncestors`: the order of finding keys, see section 3.
* `StorageExact` (`ChargesLive`, `DenseBounded`), `ImplementsMap`: the outcome
  table is a map and pays for what it keeps.
* `NestingExact` (`DepthIsStack`, `OpenIsPath`, `CompleteIsClosed`),
  `SealedStaysSealed`: events cannot rewrite what earlier evaluations relied on.
* `Balanced`, `NothingHeld`: the session's gauges are exact after every refused
  or failed step.
* `AccountsExact` (`BorrowersExact`, `GaugeExact`), `ReadersKeepData`,
  `CallsLeaveCacheOnly` (`NothingRetained`, `ImportedOnce`,
  `CacheStaysReadable`), `EveryCallReturns`: sharing of dictionaries.
* `ChargedWhileLive`, `ReturnsClean`, `ResultSound`: a loader pays for what
  lives, at every return nothing does, and a document is returned exactly when
  its mode allows it.
* `AllOrNothing`, `UneditedKeepBytes`, `NoLostUpdate`: a failed synchronisation
  changes nothing, a successful one stores every edit and keeps the bytes of
  everything else, and none overwrites bytes that it does not know.
* `EarlyDecisionsAgree` and `NothingDeferred` of `PackageSession`: a rule
  decided early is what all the evidence decides, and what the evidence decides
  is not left open. `BundleSound`: the bundle is satisfied exactly if what it
  rests on is. `SoleOwner`: all storage has one owner that gives it back.
* `WalkExact`, `SessionNeverRefuses`, `PinsStable`: the walk of a cyclic web.
* `LongestExact`, `WitnessDerives`, `BindingDetermined`,
  `StopsOnlyWhenRejected`: matching against the derivations.
* `UnfoldingExact`, `TempoEarned`: traversal against performance.

### Bounds

* Numbers: `MaxInt64 = 9` with amounts up to the width, so that every sum and
  product of the account saturates in some behaviour.
* Reports: three positions and four arrivals against quotas of three findings
  and six bytes, so that both quotas, the buffer and an array growth are hit;
  a second session has a quota of one and four arrivals, which makes the
  batches of `deferDiagnostic` run (at twice the quota). Positions are visited
  any number of times.
* Rules: five rules, two nodes; a rule of each scope and relation, one
  unavailable and one final. Parent chains and aggregates need two nodes; blocked
  chains need three rules. A selector may be blocked for a foreign cause, a
  predicate for none.
* Schema: four nodes: a root with a leaf and an inner node, which has a leaf; so
  there is a subtree to skip, and a node before another that is no ancestor of
  it. Between them the nodes' local checks answer valid, failing with its detail, failing without it, or limited
  by a DTD; interruptions (`abort`) turn these into the incomplete answers.
* Sessions: three nodes give siblings and a chain. The gauges are independent
  of the document, so they are checked on one node with two nested evaluations
  and three storage operations per handler (the constraint `Explored`).
* Outcome table: words of two slots and IDs up to 13: dense, resliced, grown
  over an overflow entry, and too sparse.
* Dictionaries: three goroutines, three or four sets, a borrow limit of two.
* Loading: every budget from none to more than a load needs, so each charge is
  refused in some load. Synchronisation: a cycle of two opuses with a score, a
  document in its original formatting and one the encoder wrote, three edits:
  one for each graph and one of the package, or an edit after a synchronisation.
* Package: one document, adopted in up to three contexts; rules of each kind
  and one prerequisite.
* Graph: six documents, a cycle, a self link, redirections, two contents under
  one identity; depth and link budgets below what the web needs.
* Content: groups in groups with bounded, unbounded and optional ranges, up to
  three children, and a limit of two configurations that some models exceed.
* Navigation: every part of up to four to six rows.

`CHECK_DEADLOCK FALSE` is set wherever a session or a call ends.

### Fairness

Only `dictionary_calls` has a liveness property, under weak fairness of each
call's step (`Callers`; the direct users need not do anything): the Go scheduler runs every runnable goroutine, an import of
embedded data is finite, and the mutex of the cache is released by the same
function that took it. `sync.Mutex` lets a waiter in once the mutex stays free;
each call locks it once, so weak fairness is enough.

## 5. Findings

The two runs that end in a violation show one disagreement between the code and
what the repository says of it, at its source and at its effect.

* `schema_keys`: `recordXSDProvedFailures` takes a node's position when the node
  is entered and again after its children; `checkRepresentable` proves its
  failures only then. Bind a root whose child fails, then find that the root's
  own value is not representable: the report holds the child's finding and then
  the root's, whose key is smaller. The test that states the order reads the
  official and the test-suite files, which have no such pair of findings.
* `windowed_report`: in the windowed strategy the same session defers these two
  findings and sorts them, root first. With a quota of one finding the two
  reports even hold different findings. `DeferralExact` and
  `KeysStepBackToAncestors` hold: the accumulator does what it should for keys
  that arrive once, and the orders differ only at such second recordings.

## 6. Proofs

A theorem holds for every value of the constants that the named assumptions
allow: any number of nodes, goroutines, sets, documents, links, budgets.

| module | theorems | argument |
|---|---|---|
| `AccountProofs` | of `BudgetAccount`: `TypeCorrect`, `UsageStaysWithinLimit`, `LimitsNeverShrink`, `QuotasMoveTogether`, `ExpansionStaysBounded` | `limit` is monotone in nodes and document bytes because the peak is remembered; usage is compared with it before it grows |
| | of `OutcomeBits`: `TableTypeCorrect`, `TableImplementsMap`, `StorageIsExact` | slots beyond the words in use are empty, so a reslice or a growth changes no `get`; every branch of `set` is a step of the map or a stutter; the charge follows the capacity and the overflow entries |
| `SessionEventsProofs` | `TypeCorrect`, `GaugesBalanced`, `EvaluationsNest`, `DepthFollowsStack`, `FinishReturnsAll`, `NestingIsExact`, `SealsAreFinal` | two invariants, of the gauges and of the tree |
| `SchemaAssessmentProofs` | `SchemaInductive`, `FailuresAreCountedOnce`, `CompleteReportsAreAssessed` | what is counted is what is decided, and what is decided is what the answers say |
| | `KeysStepBackOnlyToAncestors` | the traversal reaches nodes in document order and returns only to ancestors |
| | `ProblemsAreReportedExactly` | a problem is accounted for in the step that counts it; a summary counts the evaluations it stands for |
| `LoadedPackageProofs` | of a load: `StorageIsCharged`, `LoadingChargesWhatLives`, `LoadingReturnsClean`, `LoadingResultsAreSound` | what is alive, and whose it is, at each stage of a load; inherited by the composition |
| | of a synchronisation: `SyncWritesAllOrNothing`, `SyncKeepsUneditedBytes`, `SyncLosesNoUpdate` | how far a synchronisation has come |
| `PackageSessionProofs` | `SessionInductive`, `EarlyPackageDecisionsAreFinal`, `NothingIsDeferred`, `BundlesAreSound`, `SnapshotsHaveOneOwner` | decisions follow from evidence that only grows, and are unique |
| `DictionaryAssessmentProofs` | `EveryBorrowAndByteHasAnOwner`, `ReadersAlwaysKeepData`, `CallsInductive`, `CallsLeaveOnlyTheCache` | a count of the hands in which borrows and bytes are; who owns which set |
| `RuleEvaluationProofs` | `EvaluationInductive`, `DecisionsAreJustified`, `EarlyDecisionsAreFinal`, `VerdictsAreSound` | a decision has grounds that no later step changes; at the end these grounds decide the reference too |
| `ResourceGraphProofs` | `RunIsNeverRefused`, `IdentitiesAreStable`, `WalkIsExact` | the queue is the session's view of the walk, in breadth-first order |

Each module proves its inductive invariant first (`Inductive`, `TreeInductive`,
`SchemaInductive`, `LoadingInductive`, `SyncInductive`, `SessionInductive`,
`SetsInductive`, `CallsInductive`, `EvaluationInductive`, `WalkInductive`,
`LayersInductive`), with one lemma or step per action; the
properties follow from it.

*Session gauges.* The parts of `IInv` need each other. `Balanced` says that the
usage of the account is the sum of the holdings; it holds after a release only
if the release is not refused, which follows from `Balanced` itself and from the
holdings being natural numbers. `transient` stays a natural number because the
marks of nested evaluations are below it (`ScopesNest`), and this survives the
reset in `cleanup` because no evaluation runs then (`ScopesInHandlers`). `depth`
does because it follows the stack (`DepthIsStack`). With `Emptied` the invariant
implies `NothingHeld`.

*Session tree.* `OpenIsPath` says that the stack is a path of the document. That
survives `CloseNode` only because nodes are admitted in document order and the
open ones are distinct (`Tree`). `Claimed` adds that complete input is claimed
of a closed tree only. `SealsAreFinal` is an action property that follows from
both.

*Schema.* `FailuresCountedOnce` says nothing of where a failure may still be
recorded, and its second half is false between the answer of a schema operation
and its recording; it holds because both are one step of the session's
goroutine. `SchemaInv` has four parts. `CountedOK`: a cached decision is the only
outcome counted, and an outcome without a decision is the mark of an
interruption, which is the last thing a session records. `Sound`: while the
session runs the decided failures are the subjects whose current answer fails,
and a report that is not unfinished holds only complete failures; the preview of
the identity constraints is the exception, taken as complete until
`finalizeSourceSchema`. `BindingOK`: only failures are decided before the passes,
an unreached node has no answers, and the frames hold distinct bound nodes whose
waiting children are unbound (`FramesOK`); without that, entering a node could
take back an answer that was recorded. `StageOK`: what the passes have left. One
lemma, `ProvedFailures`, covers the three recordings of a node; that `Unmatched`
is well defined over the tree is an induction over the nodes.

*Keys.* `KeysStepBackToAncestors` compares neighbouring findings; the next one is
stored at the accumulator's current position, so `Filed` adds that this position
may follow the last finding. For a position of the traversal this needs
`StackOrdered` (the frames' nodes are ancestors of one another and increase, and
what an inner frame waits for comes before what an outer one waits for),
`EnteredFirst` (a node is entered before everything still waited for) and
`LastReached` (the last finding is at a bound node, which every open frame's
node is an ancestor of or comes after). This is where document order must be a
preorder. For the final phases `PassOrdered` says that what a pass has left lies
ahead of the position; the summaries come last.

*Reports.* `ReportedExactly` is about the finished report and about every
summary on the way. `ReportInv` carries both. `Tells`: a counted problem has its
finding, or its rule a summary that was opened or omitted; an interrupted
recording leaves at most one subject out, since it is the last. `DetailsOK`:
nothing is stored of an undecided subject, without which a first failure could
be taken for a repeated one and lose its finding. `Exact`: a check's summary
counts the cached DTD-limited evaluations, and its first is the earliest of them;
for that, `OpenedBy` and `LeftAfter` say that a summary was opened by a node's
subject and that what a pass has left comes after it. During the traversal only
failures are decided and no summary is open, so each problem has a finding of
its own (`Plain`). `RecordReport` says the four things a recording can do, and
every preservation lemma starts from it.

*Loaders.* `ChargedWhileLive` compares a counter with a set whose members change
hands: the archive's bytes go to the loader, the report to the lease. The
invariant therefore says for every stage which storage is alive (`LiveAt`), who
holds it (`HeldFor`), that the account is the sum of the holders (`UsageHeld`)
and which failures the stages so far may have found (`FactsOK`).

*Synchronisation.* Between two documents of a loop the package is neither the
old nor the new one. `SyncInv` says so exactly: before the second loop nothing
is written (`Encoding`), and in it the documents still to be visited have the
bytes that the call compared (`Committing`). `Known` relates the bytes and the
canonical form that a graph remembers, which is why an unedited document is
recognised.

*Package session.* A decision taken early is right if no later evidence can
change it. `Justified` makes each decision the one its decided requirements and
the evidence lead to, `Early` says that nothing but a pass, a failure or an
inapplicability is decided before the boundary is sealed, `Prompt` and `Settled`
that a pass leaves nothing it could decide, and `Counted` ties the decisions to
the report. Evidence only grows (`Later`), and a check that is decisive before
the seal is the same on all later evidence (`CheckStays`): this is what the
waiting of the roles for the sealed members is for. Justified
decisions are unique, since the catalog's order puts requirements first
(`DecisionsAgree`), so the session agrees with one pass over all the evidence.
Ownership is a part of its own (`OwnersOK`): the account is what the session
retained and one unit for each snapshot that is not closed.

*Dictionary sets.* A borrow or a byte is at every moment in one hand: a lease, a
view, the set, or the `todo` of a call that has left the mutex. `BorrowCount`
and `ByteCount` count them all. Every action moves the hands of one process and
one set (`CountStep`). `Constructions` keeps others from a set that is not
admitted yet. With `Records`, whoever reads holds a borrow and so has its data.

*Calls.* That calls leave nothing needs to know who owns which set: the cached
set is the only one of its account and no call has a step left that gives it
back (`Bundled`), one call at a time is in the cache (`Exclusive`), and every
other set with data belongs to one call that has yet to close it (`Private`).
When all have returned no owner is left, so the counts above are zero.

*Rules.* None of the three properties is inductive: that a verdict rests on its
prerequisites says nothing of those not decided yet. `Grounded` gives each
decision its grounds: the selector's answer, a missing implementation, a failed
or blocked prerequisite, or requirements that are all settled. A requirement is settled if
the phase of its rule is over, or if it is not about the whole document and
every subject it reads is decided; a step changes neither, as decisions are
cached once (`Once`) and phases come in the order of the schedule (`InOrder`).
`Aggregates` says that a memoized aggregate is what a scan would find now: it is
computed only after the phase of its rule. `Pending` and `Covered` say what the
passes have left, so a session that finishes has decided everything at its
closed nodes. `EarlyDecisionsAreFinal` is then an induction over the schedule:
with equal outcomes of the earlier rules, the grounds of the session's decision
decide the reference. Causes may differ, which is why the property compares
outcomes and `BlocksAreTraced` speaks of the causes: the cause of a rule that
its prerequisites block is the `blockCause` of a subject that failed or that its
own evidence blocked, and one more link of the chain keeps it.

*Walk.* `WalkInv` says that every item of the queue is the first adoption of its
context and that the edges are the links walked so far; the session accepts
every call because of it. For `WalkExact`, `Layers` says that depths do not
decrease along the queue and that no link leads down by more than one level, so
a context is queued at its distance from the primary document. The induction is
over distances. The library's induction theorems cannot be instantiated by the
provers here; `ResourceGraphProofs`, `RuleEvaluationProofs`,
`PackageSessionProofs` and `SchemaAssessmentProofs` state induction as a fact
about sets of numbers and prove that their recursive functions are well defined.

Assumptions: `ScheduleAssumption` (prerequisites precede their rule, as the
catalog compiles them; a selector applies or, like a predicate without a verdict,
answers what its evidence decides), `KindAssumption` and `LimitAssumption` (kinds are distinct,
defaults and requests are within the width), `TableAssumption` (IDs are
positive, sizes are natural numbers), `SessionAssumption` (amounts and limits
are natural numbers, other sessions stay within the limits), `PathAssumption`
(the paths are sorted without repetition), `SetAssumption` (amounts are positive,
finitely many sets and goroutines, names are numbers), `CallAssumption` (the cache
has an account of its own that is large enough, a program has calls or users),
`CatalogAssumption` (the package rules' order puts requirements first),
`DocumentAssumption` (nodes are numbered in document order below one root, the
answers are those of a schema run), `PreorderAssumption` (document order is a
preorder: nodes are numbered when `OpenNode` sees them), `WebAssumption` (every known answer of the
resolver has a list of links, the primary document can be read). TLC evaluates each on its instance.

`LimitNeverShrinks`, `QuotaSteps`, `ScopesNest` and the type invariants of
`OutcomeBits` and `SessionEvents` are proved and have no run of their own.

Only model-checked:

* `EveryCallReturns`: liveness is out of the provers' reach.
* `DeferralExact`: the buffered report is computed by a fold over the
  arrivals; what it computes for every sequence is induction over data.
* The properties of `PrefixMatcher` and `Navigation`: the matcher and its
  derivations, and the performance of a part, are recursive operators.

## 7. Not modelled

Nearly nine tenths of the repository is code without control of its own, or of
one pattern repeated: the generated types, codecs and inventories, the
generators that write them, and the predicates of single rules. A model of it
would be a transliteration, so the map covers a small share of all lines and
most of the assessment's stateful core.

* The text, location and formatting of findings: no property depends on them.
* The predicates of single rules, about half of `validation/`: their verdicts
  are nondeterministic here; navigation is the first of those with an algorithm
  of its own that has a module.
* The generated model and codecs, the generators and the inventories: code
  without state, run at build time.
* The scanning of XML and DTD text, datatypes and identity constraints of the
  XSD kernel.
* Nested package boundaries, associations, images and links into archives.
* Two goroutines closing one lease: a lease has one owner.
* Zip framing, file access and other I/O.
* Data races: the types that goroutines share are guarded by mutexes; a session
  is documented to have one caller at a time.
