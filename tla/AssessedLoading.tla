-------------------------- MODULE AssessedLoading --------------------------
(***************************************************************************)
(* The two strict loaders: DecodeAssessed (assessed_loading.go and         *)
(* decodeAssessedRun of assessment.go) for one document, DecodeMXLAssessed *)
(* (mxl_assessed_loading.go) for an archive.  Each assesses the source     *)
(* (line 2), converts it, imports dictionaries and assesses the model      *)
(* (line 3) on one account, and each stage leaves storage that later       *)
(* stages still use: the archive bytes, the candidate model, the report or *)
(* bundle of line 2 under a ReportLease.                                   *)
(*                                                                         *)
(* Any charge may be refused and any stage may fail, so every early return *)
(* has its own set of things to give back.  Each piece of storage has size *)
(* 1 and no owner holds more than two; what a stage charges and returns    *)
(* within itself is left out.                                              *)
(***************************************************************************)
EXTENDS Integers, FiniteSets

CONSTANT Limits    \* the buffered-byte budgets callers choose, a set of Nat

Owners == {"archive", "data", "source", "lease", "candidate", "dictionaries", "model"}

VARIABLES
  pc,        \* the next stage of the call
  format,    \* "xml" or "mxl": which loader was called
  lenient,   \* options.Lenient
  limit,     \* the account's buffered-byte limit
  usage,     \* the account's buffered bytes in use
  held,      \* what every owner believes it has charged
  live,      \* the storage in use: an owner's own, or line 2's "report"
  facts,     \* what the stages found out
  result     \* what the call returns

arguments == <<format, lenient, limit>>
loadVars == <<pc, format, lenient, limit, usage, held, live, facts, result>>

NoFacts == [openErr |-> FALSE, convErr |-> FALSE, sourceErr |-> FALSE, sourceAccepted |-> FALSE,
            importErr |-> FALSE, modelErr |-> FALSE, modelAccepted |-> FALSE, modelAssessed |-> FALSE,
            failure |-> FALSE]   \* history: a stage failed, whatever its verdict
NoResult == [err |-> FALSE, document |-> FALSE, accepted |-> FALSE]

-----------------------------------------------------------------------------
(* The account and its owners                                               *)

Admitted == usage + 1 <= limit

\* Account.Charge for an owner, before its storage is allocated.
Charge(o) ==
  /\ usage' = usage + 1
  /\ held' = [held EXCEPT ![o] = @ + 1]
  /\ live' = live \cup {o}

\* Account.Release of all that a set of owners holds, when their storage is
\* dropped; a release of more than is in use is refused and ignored.
Freed(owners) ==
  LET total == Cardinality({piece \in owners \X (1..2) : piece[2] <= held[piece[1]]})
  IN /\ usage' = IF total <= usage THEN usage - total ELSE usage
     /\ held' = [o \in Owners |-> IF o \in owners THEN 0 ELSE held[o]]
     /\ live' = live \ (IF "lease" \in owners THEN owners \cup {"report"} ELSE owners)

Unowned == UNCHANGED <<usage, held, live>>

ReturnResult(document, accepted, err) ==
  /\ pc' = "returned"
  /\ result' = [err |-> err, document |-> document, accepted |-> accepted]

\* An operational failure that ends the call before its result is decided.
ReturnFailure ==
  /\ ReturnResult(FALSE, FALSE, TRUE)
  /\ facts' = [facts EXCEPT !.failure = TRUE]

\* Defect: the archive stays open when line 2 cannot start.
DeferredOnly == Freed({"lease", "data"})
\* What DecodeMXLAssessed gives back when line 2 cannot start.
AbandonArchive == Freed({"archive", "lease", "data"})

Stay == UNCHANGED <<arguments, result>>
Keep == UNCHANGED <<arguments, facts, result>>

-----------------------------------------------------------------------------
(* The archive: openMXLAssessmentArchive, decodeMXLOpenError, detachData    *)

\* newMXLAssessmentArchive: a refused owner returns no archive.
OpenArchive ==
  /\ pc = "start" /\ format = "mxl"
  /\ \/ Admitted /\ Charge("archive") /\ pc' = "read" /\ UNCHANGED <<facts, result>>
     \/ ~Admitted /\ Unowned /\ ReturnFailure
  /\ UNCHANGED arguments

\* readBounded grows the buffer inside the archive's own reservation.  A
\* failing reader, a refused byte and an oversized archive are fatal.
ReadArchive ==
  /\ pc = "read"
  /\ \/ /\ Admitted
        /\ usage' = usage + 1
        /\ held' = [held EXCEPT !["archive"] = @ + 1]
        /\ live' = live \cup {"data"}
        /\ pc' = "index" /\ UNCHANGED <<facts, result>>
     \/ Freed({"archive"}) /\ ReturnFailure
  /\ UNCHANGED arguments

\* observe indexes the archive: a corrupt or unsafe one is fatal, a layout
\* the assessment does not process is left for line 2 to report.
IndexArchive ==
  /\ pc = "index"
  /\ \/ /\ \E e \in BOOLEAN : facts' = [facts EXCEPT !.openErr = e]
        /\ pc' = "detach" /\ Unowned /\ UNCHANGED result
     \/ /\ usage' = usage - held["archive"]
        /\ held' = [held EXCEPT !["archive"] = 0]
        /\ live' = live \ {"archive", "data"}
        /\ ReturnFailure
  /\ UNCHANGED arguments

\* The loader takes over the bytes and their reservation.
detachData ==
  /\ pc = "detach"
  /\ held' = [held EXCEPT !["archive"] = @ - 1, !["data"] = 1]
  /\ pc' = "line2"
  /\ UNCHANGED <<usage, live>> /\ Keep

-----------------------------------------------------------------------------
(* Line 2                                                                   *)

\* startSourceLineResourceGraph: no graph means the loader closes the archive
\* and returns; newSourceAssessmentRunWithConfig finishes what it began.
StartSourceLine ==
  /\ \/ pc = "line2"
     \/ pc = "start" /\ format = "xml"
  /\ \/ /\ Admitted
        /\ Charge("source")
        /\ pc' = (IF format = "mxl" THEN "inspect" ELSE "tokens")
        /\ UNCHANGED <<facts, result>>
     \/ AbandonArchive /\ ReturnFailure
  /\ UNCHANGED arguments

\* inspectOpenedRawPackage: whatever the graph finds, and the error of the
\* open archive, ends in finish.
InspectArchive ==
  /\ pc = "inspect"
  /\ \E e, a \in BOOLEAN :
       facts' = [facts EXCEPT !.sourceErr = e \/ facts.openErr, !.sourceAccepted = a,
                              !.failure = e \/ facts.openErr]
  /\ pc' = "finish2" /\ Unowned /\ Stay

\* assessedModelTokenReader.Token: the candidate model is admitted token by
\* token while the document is mapped; a refused token ends the mapping as a
\* fatal source error.
MapDocument ==
  /\ pc = "tokens"
  /\ \/ /\ Admitted /\ Charge("candidate")
        /\ \E c \in BOOLEAN : facts' = [facts EXCEPT !.convErr = c, !.failure = c]
     \/ /\ ~Admitted /\ Unowned
        /\ facts' = [facts EXCEPT !.convErr = TRUE, !.sourceErr = TRUE, !.failure = TRUE]
  /\ pc' = "drain" /\ Stay

\* drain: after a recoverable conversion failure the source is still read to
\* its end; a malformed source fails line 2.
DrainSource ==
  /\ pc = "drain"
  /\ \E e, a \in BOOLEAN :
       facts' = [facts EXCEPT !.sourceErr = @ \/ e, !.failure = @ \/ e,
                              !.sourceAccepted = a /\ ~(facts.sourceErr \/ e)]
  /\ pc' = "publish" /\ Unowned /\ Stay

\* publishValidatedContextResult admits the context projection to the session;
\* a profile without context has none.
PublishReport ==
  /\ pc = "publish"
  /\ \/ /\ Admitted
        /\ usage' = usage + 1
        /\ held' = [held EXCEPT !["source"] = @ + 1]
        /\ live' = live \cup {"report"}
        /\ UNCHANGED facts
     \/ /\ ~Admitted /\ Unowned
        /\ facts' = [facts EXCEPT !.sourceErr = TRUE, !.failure = TRUE]
     \/ Unowned /\ UNCHANGED facts
  /\ pc' = "finish2" /\ Stay

\* Defect: the session also returns the projection it gave to the lease.
retainFinishedReportTwice ==
  /\ usage' = usage + 1 - held["source"]
  /\ held' = [held EXCEPT !["source"] = 0, !["lease"] = 2]
\* retainFinishedReport, with the cleanup that follows it: the projection moves
\* from the session to the lease, whose handle alone is a new charge.
retainFinishedReport ==
  /\ usage' = usage + 1 - (held["source"] - 1)
  /\ held' = [held EXCEPT !["source"] = 0, !["lease"] = 2]

\* finishRetained: without a projection no lease is needed; a refused handle
\* leaves an incomplete report and no lease.
FinishSourceReport ==
  /\ pc = "finish2" /\ format = "xml"
  /\ \/ /\ "report" \in live /\ Admitted
        /\ retainFinishedReport
        /\ live' = (live \ {"source"}) \cup {"lease"}
        /\ UNCHANGED facts
     \/ /\ "report" \in live /\ ~Admitted
        /\ usage' = usage - held["source"]
        /\ held' = [held EXCEPT !["source"] = 0]
        /\ live' = live \ {"source", "report"}
        /\ facts' = [facts EXCEPT !.sourceErr = TRUE, !.sourceAccepted = FALSE, !.failure = TRUE]
     \/ "report" \notin live /\ Freed({"source"}) /\ UNCHANGED facts
  /\ pc' = "accept" /\ Stay

\* resourceGraphRun.finish: the bundle and its handle are admitted while the
\* graph and the archive index are still charged; both are closed after it.  A
\* refused lease keeps the bundle's verdict and fails the line.
FinishSourceBundle ==
  /\ pc = "finish2" /\ format = "mxl"
  /\ \/ /\ usage + 2 <= limit
        /\ usage' = usage + 2 - (held["source"] + held["archive"])
        /\ held' = [held EXCEPT !["source"] = 0, !["archive"] = 0, !["lease"] = 2]
        /\ live' = (live \ {"source", "archive"}) \cup {"lease", "report"}
        /\ UNCHANGED facts
     \/ /\ usage + 2 > limit
        /\ Freed({"source", "archive"})
        /\ facts' = [facts EXCEPT !.sourceErr = TRUE, !.failure = TRUE]
  /\ pc' = "accept" /\ Stay

-----------------------------------------------------------------------------
(* Acceptance and conversion                                                *)

\* Line 3 follows a line 2 without operational failure that accepted the
\* source, or any such line 2 in the lenient mode.
ModelDue == /\ ~facts.sourceErr /\ ~facts.convErr
            /\ facts.sourceAccepted \/ lenient

AcceptSource ==
  /\ pc = "accept"
  /\ \/ /\ format = "mxl" /\ ModelDue
        /\ pc' = "convert" /\ Unowned /\ UNCHANGED result
     \/ /\ format = "mxl" /\ ~ModelDue
        /\ Freed({"lease", "data"}) /\ ReturnResult(FALSE, FALSE, TRUE)
     \/ /\ format = "xml" /\ ModelDue
        /\ pc' = "import" /\ Unowned /\ UNCHANGED result
     \/ /\ format = "xml" /\ ~ModelDue
        /\ pc' = "decide" /\ Unowned /\ UNCHANGED result
  /\ UNCHANGED <<arguments, facts>>

\* decodeMXLPackageContext reads the detached bytes, which are released when
\* it ends, whatever it returned.
Convert ==
  /\ pc = "convert"
  /\ \/ Freed({"data"}) /\ pc' = "line3" /\ UNCHANGED <<facts, result>>
     \/ Freed({"data", "lease"}) /\ ReturnFailure
  /\ UNCHANGED arguments

-----------------------------------------------------------------------------
(* Line 3                                                                   *)

\* startConfiguredResourceGraph of the model line.
StartModelLine ==
  /\ pc = "line3"
  /\ \/ Admitted /\ Charge("model") /\ pc' = "import" /\ UNCHANGED <<facts, result>>
     \/ Freed({"lease", "data"}) /\ ReturnFailure
  /\ UNCHANGED arguments

\* loadValidatedDictionarySet.  A provider's failure comes with a set that
\* lacks its evidence, and line 3 still runs; a terminal failure skips it.
\* The MXL graph owns even the set of a terminal failure and finishes with
\* it; the XML configuration closes that set at once.
ImportDictionaries ==
  /\ pc = "import"
  /\ \/ /\ Admitted /\ Charge("dictionaries")
        /\ \E e \in BOOLEAN : facts' = [facts EXCEPT !.importErr = e, !.failure = e]
        /\ pc' = "assess"
     \/ /\ format = "mxl" /\ Admitted /\ Charge("dictionaries")
        /\ facts' = [facts EXCEPT !.importErr = TRUE, !.failure = TRUE]
        /\ pc' = "decide"
     \/ /\ Unowned
        /\ facts' = [facts EXCEPT !.importErr = TRUE, !.failure = TRUE]
        /\ pc' = "decide"
  /\ Stay

\* assessCurrentPackage and assessModelWithConfig.
AssessModel ==
  /\ pc = "assess"
  /\ \E e, a \in BOOLEAN :
       facts' = [facts EXCEPT !.modelErr = e, !.failure = @ \/ e,
                              !.modelAccepted = a, !.modelAssessed = TRUE]
  /\ pc' = "decide" /\ Unowned /\ Stay

\* Defect: only the failure of line 3 itself is an operational failure.
ModelFailure == facts.modelErr
OperationErr == \/ facts.convErr \/ facts.sourceErr
                \/ facts.importErr \/ facts.modelErr

Accepted == /\ ~OperationErr
            /\ facts.sourceAccepted /\ facts.modelAccepted /\ facts.modelAssessed

\* The end of both loaders.  Operational failures are never tolerated; the
\* lenient mode tolerates the verdicts of the assessments.
Decide ==
  /\ pc = "decide"
  /\ Freed({"lease", "data", "candidate", "dictionaries", "model"})
  /\ LET err == OperationErr \/ (~lenient /\ ~Accepted)
     IN ReturnResult(~err, ~err /\ Accepted, err)
  /\ UNCHANGED <<arguments, facts>>

-----------------------------------------------------------------------------
InitLoad ==
  /\ pc = "start"
  /\ format \in {"xml", "mxl"} /\ lenient \in BOOLEAN /\ limit \in Limits
  /\ usage = 0
  /\ held = [o \in Owners |-> 0]
  /\ live = {}
  /\ facts = NoFacts
  /\ result = NoResult

Done == pc = "returned" /\ UNCHANGED loadVars

NextLoad ==
  \/ OpenArchive \/ ReadArchive \/ IndexArchive \/ detachData
  \/ StartSourceLine \/ InspectArchive \/ MapDocument \/ DrainSource
  \/ PublishReport \/ FinishSourceReport \/ FinishSourceBundle
  \/ AcceptSource \/ Convert
  \/ StartModelLine \/ ImportDictionaries \/ AssessModel \/ Decide
  \/ Done

SpecLoad == InitLoad /\ [][NextLoad]_loadVars

-----------------------------------------------------------------------------
\* Between two stages the account is charged for exactly the storage that is
\* still alive: the archive bytes until conversion has read them, the source
\* bundle and the candidate model until the call decides.  A later stage is
\* therefore bounded by the combined storage, and no owner releases what
\* another one holds.
ChargedWhileLive == usage = Cardinality(live)

\* Whichever stage fails, the call returns with every owner closed: nothing
\* is charged, and the dictionary set, which may be a view of the cached one,
\* has been given back.
ReturnsClean == pc = "returned" => live = {} /\ \A o \in Owners : held[o] = 0

\* A document comes with no error and an error with no document; strictly, it
\* comes only after both lines accepted it, and leniently it is withheld only
\* for a stage that failed.  Accepted is never claimed after a failure, and
\* dictionaries are imported only for a source that line 2 let through.
ResultSound ==
  /\ pc = "returned" =>
       /\ result.document = ~result.err
       /\ facts.failure => result.err
       /\ result.accepted => result.document /\ facts.sourceAccepted /\ facts.modelAccepted
       /\ result.document => lenient \/ result.accepted
       /\ lenient => result.err = facts.failure
  /\ "dictionaries" \in live => lenient \/ facts.sourceAccepted

=============================================================================
