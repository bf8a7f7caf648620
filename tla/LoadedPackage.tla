--------------------------- MODULE LoadedPackage ---------------------------
(***************************************************************************)
(* The life of a package: an assessed loader (AssessedLoading) returns it  *)
(* or an error, and only a package that was returned is resolved, edited   *)
(* and synchronised (OpusSync).  The loader has given back all it held by  *)
(* then, so the two share nothing but the package.                         *)
(***************************************************************************)
EXTENDS AssessedLoading, OpusSync

CONSTANT Edited    \* bound: the loads <<limit, lenient>> whose package is worked on

lifeVars == <<vars, loadVars>>

InitLife == InitLoad /\ Init

Load(step) == step /\ UNCHANGED vars

\* DecodeMXLAssessed returned a package and no error.
Returned ==
  /\ pc = "returned" /\ format = "mxl" /\ result.document
  /\ <<limit, lenient>> \in Edited

Work(step) == Returned /\ step /\ UNCHANGED loadVars

NextLife ==
  \/ Load(OpenArchive) \/ Load(ReadArchive) \/ Load(IndexArchive) \/ Load(detachData)
  \/ Load(StartSourceLine) \/ Load(InspectArchive) \/ Load(MapDocument) \/ Load(DrainSource)
  \/ Load(PublishReport) \/ Load(FinishSourceReport) \/ Load(FinishSourceBundle)
  \/ Load(AcceptSource) \/ Load(Convert)
  \/ Load(StartModelLine) \/ Load(ImportDictionaries) \/ Load(AssessModel) \/ Load(Decide)
  \/ Load(Done)
  \/ \E g \in Graphs : Work(ResolveOpus(g)) \/ Work(SyncResolvedOpus(g))
  \/ \E o \in Objects : Work(EditDocument(o))
  \/ \E g \in Graphs, p \in Paths : Work(ReplaceTarget(g, p))
  \/ Work(EditPackage)
  \/ Work(EncodeNext) \/ Work(BeginCommit) \/ Work(CommitNext) \/ Work(RecordHashes)

SpecLife == InitLife /\ [][NextLife]_lifeVars

=============================================================================
