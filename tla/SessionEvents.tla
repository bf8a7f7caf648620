--------------------------- MODULE SessionEvents ---------------------------
(***************************************************************************)
(* The event protocol of a session (validation/session.go) and the live    *)
(* gauges that it holds on an account that other sessions share. Begin     *)
(* reserves the session's storage; OpenNode, Attribute,                    *)
(* CompleteAttributes, ModelRepresentation and CloseNode admit the facts   *)
(* of a document in order; closing a node and Finish evaluate rules, whose *)
(* scratch is released scope by scope; any error is terminal, and Finish   *)
(* or a failed Begin cleans up.                                            *)
(*                                                                         *)
(* What an evaluation decides is modelled in RuleEvaluation; here it       *)
(* retains and releases storage. A charge that fits may still be refused:  *)
(* the context may be canceled, another budget exhausted, or another       *)
(* session may hold the bytes for a moment.                                *)
(***************************************************************************)
EXTENDS Integers, Sequences

CONSTANTS
  IDs,         \* node IDs
  Names,       \* attribute names
  NoID,        \* the parent of the root
  Seals,       \* inputs of CompleteAttributes: "complete", "unavailable"
  Examined,    \* inputs of ModelRepresentation: "clean", or a "children" or "other" problem
  Ends,        \* inputs of CloseNode: whether the children and the attributes are complete
  Amounts,     \* the sizes of one retained record
  MaxDepth,    \* limit of BudgetDepth
  MaxBytes,    \* limit of BudgetBufferedBytes
  OtherUse,    \* bound: what other sessions may hold, gauges
  MaxScopes,   \* bound: nested evaluations
  MaxWork      \* bound: storage operations of one handler's evaluations

Gauge == [depth : 0 .. MaxDepth, bytes : 0 .. MaxBytes]

ASSUME SessionAssumption ==
  /\ NoID \notin IDs
  /\ Seals \subseteq {"complete", "unavailable"}
  /\ Examined \subseteq {"clean", "children", "other"}
  /\ Ends \subseteq [children : BOOLEAN, attributes : BOOLEAN]
  /\ Amounts \subseteq Nat
  /\ {MaxDepth, MaxBytes, MaxScopes, MaxWork} \subseteq Nat
  /\ OtherUse \subseteq Gauge

VARIABLES
  pc,            \* "begin", "events", "closing", "finishing", "cleanup", "done"
  terminal,      \* terminalCause is set
  sequence,      \* the accepted nodes in document order
  stack,         \* the open nodes
  parent,
  closed,
  attributes,
  seal,          \* attributeSeal: "none", "complete", "unavailable"
  common,        \* commonAttributeSeal and commonModelSeal: which exist
  model,         \* modelRepresentation: "none" or what was found
  ended,         \* how each closed node ends: [children, attributes], both BOOLEAN
  inputComplete,
  depth,         \* Session.depth
  retained,      \* Session.retained
  transient,     \* Session.transient
  marks,         \* the marks of the running transientScopes
  work,          \* storage operations left in this handler
  usedDepth,     \* the account's usage of BudgetDepth
  usedBytes,     \* and of BudgetBufferedBytes
  otherDepth,    \* what other sessions hold of each
  otherBytes

nodeVars == <<sequence, stack, parent, closed, attributes, seal, common, model, ended>>
ownVars == <<depth, retained, transient, marks, work>>
otherVars == <<otherDepth, otherBytes>>
accountVars == <<usedDepth, usedBytes, otherVars>>
vars == <<pc, terminal, nodeVars, inputComplete, ownVars, accountVars>>

Current == stack[Len(stack)]
Accepted == {sequence[i] : i \in 1 .. Len(sequence)}
Children(id) == {c \in Accepted : parent[c] = id}

Init ==
  /\ pc = "begin" /\ terminal = FALSE
  /\ sequence = <<>> /\ stack = <<>>
  /\ parent = [id \in IDs |-> NoID]
  /\ closed = {}
  /\ attributes = [id \in IDs |-> {}]
  /\ seal = [id \in IDs |-> "none"]
  /\ common = {}
  /\ model = [id \in IDs |-> "none"]
  /\ ended = [id \in IDs |-> [children |-> FALSE, attributes |-> FALSE]]
  /\ inputComplete = FALSE
  /\ depth = 0 /\ retained = 0 /\ transient = 0 /\ marks = <<>> /\ work = MaxWork
  /\ \E o \in OtherUse : otherDepth = o.depth /\ otherBytes = o.bytes
  /\ usedDepth = otherDepth /\ usedBytes = otherBytes

-----------------------------------------------------------------------------
(* The gauges.                                                             *)

\* Account.Charge of buffered bytes. Session.retain adds them to retained.
ChargeBytes(n) ==
  /\ usedBytes + n <= MaxBytes
  /\ usedBytes' = usedBytes + n

\* Account.Release refuses more than is in use. The session ignores that error.
Released(usage, n) == IF n <= usage THEN usage - n ELSE usage

ChargeDepth(d) ==
  /\ usedDepth + d <= MaxDepth
  /\ usedDepth' = usedDepth + d

\* Another session charges and releases.
Other(o) ==
  /\ usedDepth - otherDepth + o.depth <= MaxDepth
  /\ usedBytes - otherBytes + o.bytes <= MaxBytes
  /\ usedDepth' = usedDepth - otherDepth + o.depth
  /\ usedBytes' = usedBytes - otherBytes + o.bytes
  /\ otherDepth' = o.depth /\ otherBytes' = o.bytes
  /\ UNCHANGED <<pc, terminal, nodeVars, inputComplete, ownVars>>

-----------------------------------------------------------------------------
(* Begin.                                                                  *)

\* Begin reserves the storage of the report, the schema and the prerequisites.
Begin(n) ==
  /\ pc = "begin"
  /\ ChargeBytes(n)
  /\ retained' = retained + n
  /\ pc' = "events"
  /\ UNCHANGED <<terminal, nodeVars, inputComplete, depth, transient, marks, work, usedDepth, otherVars>>

\* A Begin that fails after its first reservation cleans up and returns no
\* session; before it there is nothing to return.
BeginRefused(n) ==
  /\ pc = "begin"
  /\ ChargeBytes(n)
  /\ retained' = retained + n
  /\ terminal' = TRUE
  /\ pc' = "cleanup"
  /\ UNCHANGED <<nodeVars, inputComplete, depth, transient, marks, work, usedDepth, otherVars>>

-----------------------------------------------------------------------------
(* The events.                                                             *)

Receiving == pc = "events" /\ ~terminal

\* An event that is refused after it charged n bytes and d levels of depth, and
\* admitted nothing: Session.fail keeps the first cause.
Refuse(d, n) ==
  /\ Receiving
  /\ ChargeDepth(d) /\ ChargeBytes(n)
  /\ depth' = depth + d
  /\ retained' = retained + n
  /\ terminal' = TRUE
  /\ UNCHANGED <<pc, nodeVars, inputComplete, transient, marks, work, otherVars>>

\* The first node is the root; any other is a child of the current node, whose
\* representation is not sealed.
ParentIsCurrent(p) ==
  IF stack = <<>> THEN sequence = <<>> /\ p = NoID
  ELSE p = Current /\ model[Current] = "none"

\* OpenNode of a new occurrence.
OpenNode(id, p, n) ==
  /\ Receiving
  /\ id \notin Accepted
  /\ ParentIsCurrent(p)
  /\ ChargeDepth(1) /\ ChargeBytes(n)
  /\ depth' = depth + 1
  /\ retained' = retained + n
  /\ parent' = [parent EXCEPT ![id] = p]
  /\ sequence' = Append(sequence, id)
  /\ stack' = Append(stack, id)
  /\ UNCHANGED <<pc, terminal, closed, attributes, seal, common, model, ended, inputComplete,
                 transient, marks, work, otherVars>>

\* Defect: attributes are accepted after children.
AttributesOpenLate == stack # <<>> /\ seal[Current] = "none" /\ model[Current] = "none"

\* The start tag of the current node is open: it has no child yet, and neither
\* its attributes nor its representation are sealed.
AttributesOpen ==
  /\ stack # <<>>
  /\ Children(Current) = {} /\ seal[Current] = "none" /\ model[Current] = "none"

\* Attribute: a new slot of the current node.
Attribute(name, n) ==
  /\ Receiving
  /\ AttributesOpen
  /\ name \notin attributes[Current]
  /\ ChargeBytes(n)
  /\ retained' = retained + n
  /\ attributes' = [attributes EXCEPT ![Current] = @ \cup {name}]
  /\ UNCHANGED <<pc, terminal, sequence, stack, parent, closed, seal, common, model, ended,
                 inputComplete, depth, transient, marks, work, usedDepth, otherVars>>

\* CompleteAttributes: the first complete seal is shared by later ones, which
\* retain nothing.
CompleteAttributes(s, n) ==
  LET shared == s = "complete" /\ "attributes" \in common
  IN /\ Receiving
     /\ AttributesOpen
     /\ ChargeBytes(IF shared THEN 0 ELSE n)
     /\ retained' = retained + (IF shared THEN 0 ELSE n)
     /\ seal' = [seal EXCEPT ![Current] = s]
     /\ common' = IF s = "complete" THEN common \cup {"attributes"} ELSE common
     /\ UNCHANGED <<pc, terminal, sequence, stack, parent, closed, attributes, model, ended,
                    inputComplete, depth, transient, marks, work, usedDepth, otherVars>>

\* ModelRepresentation: one examination of the current node; the empty
\* successful one is shared.
ModelRepresentation(found, n) ==
  LET shared == found = "clean" /\ "model" \in common
  IN /\ Receiving
     /\ stack # <<>> /\ model[Current] = "none"
     /\ ChargeBytes(IF shared THEN 0 ELSE n)
     /\ retained' = retained + (IF shared THEN 0 ELSE n)
     /\ model' = [model EXCEPT ![Current] = found]
     /\ common' = IF found = "clean" THEN common \cup {"model"} ELSE common
     /\ UNCHANGED <<pc, terminal, sequence, stack, parent, closed, attributes, seal, ended,
                    inputComplete, depth, transient, marks, work, usedDepth, otherVars>>

\* The end contradicts neither the seal of the start tag nor a problem of the
\* children.
EndAgrees(end) ==
  /\ seal[Current] = "complete" => end.attributes
  /\ model[Current] = "children" => ~end.children

\* The session's depth, unless the account refuses to take the level back.
DepthReturned == IF usedDepth < 1 THEN depth ELSE depth - 1

\* CloseNode seals the current node, returns its depth and starts evaluations.
CloseNode(end, n) ==
  /\ Receiving
  /\ stack # <<>>
  /\ EndAgrees(end)
  /\ ChargeBytes(n)
  /\ usedDepth' = Released(usedDepth, 1)
  /\ retained' = retained + n
  /\ depth' = DepthReturned
  /\ terminal' = (usedDepth < 1)
  /\ ended' = [ended EXCEPT ![Current] = end]
  /\ closed' = closed \cup {Current}
  /\ stack' = SubSeq(stack, 1, Len(stack) - 1)
  /\ pc' = "closing"
  /\ work' = MaxWork
  /\ UNCHANGED <<sequence, parent, attributes, seal, common, model, inputComplete,
                 transient, marks, otherVars>>

-----------------------------------------------------------------------------
(* Evaluations, in CloseNode and in Finish. A failed one ends CloseNode;   *)
(* Finish still binds the schema and reports when the input has a cause.   *)

Working ==
  /\ work > 0
  /\ pc = "finishing" \/ (pc = "closing" /\ ~terminal)

\* retain: a fact, a cached decision or a larger array.
Retain(n) ==
  /\ Working
  /\ ChargeBytes(n)
  /\ retained' = retained + n
  /\ work' = work - 1
  /\ UNCHANGED <<pc, terminal, nodeVars, inputComplete, depth, transient, marks, usedDepth, otherVars>>

\* releaseFactBytes: an array that was replaced, or an allocation abandoned.
releaseFactBytes(n) ==
  /\ Working
  /\ n <= retained
  /\ usedBytes' = Released(usedBytes, n)
  /\ retained' = retained - n
  /\ work' = work - 1
  /\ UNCHANGED <<pc, terminal, nodeVars, inputComplete, depth, transient, marks, usedDepth, otherVars>>

\* transientScope starts one evaluation, perhaps within another.
BeginScope ==
  /\ Working
  /\ Len(marks) < MaxScopes
  /\ marks' = Append(marks, transient)
  /\ work' = work - 1
  /\ UNCHANGED <<pc, terminal, nodeVars, inputComplete, depth, retained, transient, accountVars>>

\* retainTransient: scratch of the running evaluation; outside any, it stays
\* until the session is cleaned up.
retainTransient(n) ==
  /\ Working
  /\ ChargeBytes(n)
  /\ transient' = transient + n
  /\ work' = work - 1
  /\ UNCHANGED <<pc, terminal, nodeVars, inputComplete, depth, retained, marks, usedDepth, otherVars>>

\* Defect: the account gets back more than the session gives up.
releaseTransientAll ==
  /\ marks # <<>>
  /\ usedBytes' = Released(usedBytes, transient)
  /\ transient' = marks[Len(marks)]
  /\ marks' = SubSeq(marks, 1, Len(marks) - 1)
  /\ UNCHANGED <<pc, terminal, nodeVars, inputComplete, depth, retained, work, usedDepth, otherVars>>

\* The end of an evaluation, also of a failed one: releaseTransient(mark).
releaseTransient ==
  LET mark == marks[Len(marks)]
  IN /\ marks # <<>>
     /\ IF transient > mark
          THEN usedBytes' = Released(usedBytes, transient - mark) /\ transient' = mark
          ELSE UNCHANGED <<usedBytes, transient>>
     /\ marks' = SubSeq(marks, 1, Len(marks) - 1)
     /\ UNCHANGED <<pc, terminal, nodeVars, inputComplete, depth, retained, work, usedDepth, otherVars>>

\* An evaluation fails.
Fail ==
  /\ Working
  /\ terminal' = TRUE
  /\ work' = 0
  /\ UNCHANGED <<pc, nodeVars, inputComplete, depth, retained, transient, marks, accountVars>>

\* The handler is done with its evaluations.
EndEvaluations ==
  /\ pc \in {"closing", "finishing"}
  /\ marks = <<>>
  /\ pc' = IF pc = "closing" THEN "events" ELSE "cleanup"
  /\ UNCHANGED <<terminal, nodeVars, inputComplete, ownVars, accountVars>>

-----------------------------------------------------------------------------
(* Finish.                                                                 *)

\* Defect: the caller is believed.
CompletesClaimed(claims) == claims

Completes(claims) == claims /\ sequence # <<>> /\ stack = <<>>

\* Finish, once, whatever happened before. A complete input is one closed root of
\* a source that is not malformed; cause is an external failure, a cancellation
\* or a contradiction in the caller's completion.
Finish(claims, cause) ==
  /\ pc = "events"
  /\ terminal' = (terminal \/ cause \/ (claims /\ ~(sequence # <<>> /\ stack = <<>>)))
  /\ inputComplete' = Completes(claims)
  /\ pc' = "finishing"
  /\ work' = MaxWork
  /\ UNCHANGED <<nodeVars, depth, retained, transient, marks, accountVars>>

\* The facts go with the session; the report keeps whether its input was complete.
DropNodes ==
  /\ sequence' = <<>> /\ stack' = <<>> /\ closed' = {} /\ common' = {}
  /\ parent' = [id \in IDs |-> NoID]
  /\ attributes' = [id \in IDs |-> {}]
  /\ seal' = [id \in IDs |-> "none"] /\ model' = [id \in IDs |-> "none"]
  /\ ended' = [id \in IDs |-> [children |-> FALSE, attributes |-> FALSE]]

\* Defect: the depth of the open nodes is forgotten.
cleanupStorage ==
  /\ pc = "cleanup"
  /\ usedBytes' = Released(Released(usedBytes, retained), transient)
  /\ UNCHANGED usedDepth
  /\ depth' = 0 /\ retained' = 0 /\ transient' = 0
  /\ DropNodes
  /\ pc' = "done"
  /\ UNCHANGED <<terminal, inputComplete, marks, work, otherVars>>

\* cleanup returns everything that the session still holds and drops its facts.
cleanup ==
  /\ pc = "cleanup"
  /\ usedDepth' = Released(usedDepth, depth)
  /\ usedBytes' = Released(Released(usedBytes, retained), transient)
  /\ depth' = 0 /\ retained' = 0 /\ transient' = 0
  /\ DropNodes
  /\ pc' = "done"
  /\ UNCHANGED <<terminal, inputComplete, marks, work, otherVars>>

Next ==
  \/ \E o \in OtherUse : Other(o)
  \/ \E n \in Amounts :
       \/ Begin(n) \/ BeginRefused(n)
       \/ \E d \in 0 .. 1 : Refuse(d, n)
       \/ \E id \in IDs, p \in IDs \cup {NoID} : OpenNode(id, p, n)
       \/ \E name \in Names : Attribute(name, n)
       \/ \E s \in Seals : CompleteAttributes(s, n)
       \/ \E found \in Examined : ModelRepresentation(found, n)
       \/ \E end \in Ends : CloseNode(end, n)
       \/ Retain(n) \/ releaseFactBytes(n) \/ retainTransient(n)
  \/ BeginScope \/ releaseTransient \/ Fail \/ EndEvaluations
  \/ \E claims, cause \in BOOLEAN : Finish(claims, cause)
  \/ cleanup

Spec == Init /\ [][Next]_vars

-----------------------------------------------------------------------------
(* Properties.                                                             *)

NodesTypeOK ==
  /\ sequence \in Seq(IDs) /\ stack \in Seq(IDs)
  /\ parent \in [IDs -> IDs \cup {NoID}]
  /\ closed \subseteq IDs
  /\ attributes \in [IDs -> SUBSET Names]
  /\ seal \in [IDs -> {"none", "complete", "unavailable"}]
  /\ common \subseteq {"attributes", "model"}
  /\ model \in [IDs -> {"none", "clean", "children", "other"}]
  /\ ended \in [IDs -> [children : BOOLEAN, attributes : BOOLEAN]]

GaugesTypeOK ==
  /\ depth \in Nat /\ retained \in Nat /\ transient \in Nat /\ work \in Nat
  /\ marks \in Seq(Nat)
  /\ usedDepth \in 0 .. MaxDepth /\ usedBytes \in 0 .. MaxBytes
  /\ otherDepth \in 0 .. MaxDepth /\ otherBytes \in 0 .. MaxBytes

\* Every variable has its type; no gauge is negative or beyond its limit.
TypeOK ==
  /\ pc \in {"begin", "events", "closing", "finishing", "cleanup", "done"}
  /\ terminal \in BOOLEAN /\ inputComplete \in BOOLEAN
  /\ NodesTypeOK
  /\ GaugesTypeOK

\* The marks of nested evaluations increase and stay below the scratch in use,
\* so that no evaluation releases what an enclosing one holds (transientScope).
ScopesNest ==
  \A i \in 1 .. Len(marks) :
    /\ marks[i] <= transient
    /\ \A j \in 1 .. i : marks[j] <= marks[i]

\* The account's usage is what this session and the others hold, after every
\* refused, failed or abandoned step; so no release of the session is refused,
\* although it ignores the error (releaseFactBytes, releaseTransient, cleanup).
Balanced ==
  /\ usedDepth = depth + otherDepth
  /\ usedBytes = retained + transient + otherBytes

\* A finished session, or one that never began, holds nothing: the account has
\* only what the others hold ("always frees owned live gauges").
NothingHeld == pc = "done" => usedDepth = otherDepth /\ usedBytes = otherBytes

\* The session's depth is its open nodes, or one more after an OpenNode that was
\* refused once its level was charged.
DepthIsStack ==
  depth = Len(stack) \/ (terminal /\ depth = Len(stack) + 1)

\* The open nodes are the path from the root to the current node, and a closed
\* node has only closed descendants.
OpenIsPath ==
  /\ \A i \in 1 .. Len(stack) : parent[stack[i]] = IF i = 1 THEN NoID ELSE stack[i - 1]
  /\ Accepted \ closed = {stack[i] : i \in 1 .. Len(stack)}
  /\ \A id \in closed : \A c \in Accepted : parent[c] = id => c \in closed

\* A report for complete input is made from a document with one root, all
\* closed, in which no end of a node contradicts what was sealed before: a
\* complete start tag has complete attributes, defective children are never
\* complete (validateCompletion, validateModelRepresentationEnd).
CompleteIsClosed ==
  (inputComplete /\ pc # "done")
    => /\ Accepted # {} /\ Accepted \subseteq closed
       /\ \A i \in 1 .. Len(sequence) : parent[sequence[i]] = NoID <=> i = 1
       /\ \A id \in closed : /\ seal[id] = "complete" => ended[id].attributes
                             /\ model[id] = "children" => ~ended[id].children

\* The open nodes are a path of the tree, as deep as the account is charged
\* for, and a complete document is a closed tree without contradiction.
NestingExact == DepthIsStack /\ OpenIsPath /\ CompleteIsClosed

\* Sealed facts are final: a node that has a child, a seal, an examination or an
\* end gets no attribute, and one that was examined or closed gets no child,
\* until cleanup drops the document.
SealedStaysSealed ==
  [][pc' # "done" => \A id \in Accepted :
       /\ (Children(id) # {} \/ seal[id] # "none" \/ model[id] # "none" \/ id \in closed)
            => attributes'[id] = attributes[id] /\ (seal[id] # "none" => seal'[id] = seal[id])
       /\ model[id] # "none" \/ id \in closed
            => {c \in Accepted' : parent'[c] = id} = Children(id) /\ model'[id] = model[id]]_vars

=============================================================================
