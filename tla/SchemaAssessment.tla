-------------------------- MODULE SchemaAssessment --------------------------
(***************************************************************************)
(* The schema part of an assessment session (validation/session_schema.go):*)
(* one traversal binds every source node to its declaration and records    *)
(* each schema failure as soon as it is proved, once when the node is      *)
(* entered and once when its children are complete; the other outcomes are *)
(* recorded afterwards, when the root closes or in the final phases. Any   *)
(* recording may be interrupted by an exhausted budget or a cancellation,  *)
(* which ends the session: only the summaries are still flushed.           *)
(*                                                                         *)
(* A subject is a node and a schema check, with one rule per check. The    *)
(* five local checks of a binding are represented by two, "scalar" and     *)
(* "content". What the schema run (internal/xsd) answers is chosen by the  *)
(* environment.                                                            *)
(***************************************************************************)
EXTENDS Integers, Sequences, FiniteSets, SequencesExt

CONSTANTS
  Parent,          \* the document: node |-> its parent, 0 for the root, in document order
  ScalarAnswers,   \* what Run.Bind may answer for the two local checks of each node
  ContentAnswers

\* The answers of a schema operation. "limited" is valid as far as it was
\* assessed; "cut" is a failure proved by an incomplete assessment and "bare"
\* one that was interrupted before its detail was stored; "dtd" is limited by
\* an unavailable DTD, which is summarized instead of reported.
Answers == {"valid", "invalid", "inapplicable", "limited", "cut", "bare", "dtd"}
Valid(a) == a \notin {"invalid", "cut", "bare"}
Complete(a) == a \in {"valid", "invalid", "inapplicable"}
Issues(a) == IF a \in {"invalid", "cut"} THEN 1 ELSE 0

\* boundState.abort: an interrupted operation proves no completeness.
abort(a) == CASE a = "valid" -> "limited" [] a = "invalid" -> "cut" [] OTHER -> a

Nodes == DOMAIN Parent
Root == 1

ASSUME DocumentAssumption ==
  /\ IsFiniteSet(Nodes) /\ Nodes = 1 .. Cardinality(Nodes) /\ Root \in Nodes
  /\ Parent[Root] = 0
  /\ \A n \in Nodes \ {Root} : Parent[n] \in 1 .. n - 1
  /\ \A n \in Nodes : ScalarAnswers[n] \cup ContentAnswers[n] \subseteq Answers

\* Document order is a preorder: the nodes between a node and its child are in
\* the node's subtree.
ASSUME PreorderAssumption ==
  \A m, n \in Nodes : Parent[m] < n /\ n < m => Parent[m] <= Parent[n]

\* The checks of a node in recording order, and the document-wide one.
LocalChecks == <<"scalar", "content">>
Checks == <<"scalar", "content", "representable">>
NodeSubjects == {<<n, c>> : n \in Nodes, c \in ToSet(Checks)}
IdentitySubject == <<Root, "identity">>
Subjects == NodeSubjects \cup {IdentitySubject}

VARIABLES
  stage,       \* "binding", "closing", "phases", "done"
  closes,      \* whether the root closed before Finish (binding runs in CloseNode)
  frames,      \* the traversal stack: [node, rest] with the declared children to visit,
               \* which are visited in document order
  bound,       \* schemaSession.nodes: how each node was bound
  result,      \* the current answer for each subject
  cursor,      \* the subjects still to evaluate in this pass, in its order
  rec          \* what is recorded: see Unrecorded

vars == <<stage, closes, frames, bound, result, cursor, rec>>

Unrecorded ==
  [at          |-> <<1, 0, 0>>,                   \* the position: stage, phase, trigger
   decided     |-> [s \in Subjects |-> "none"],   \* the decision cache
   counted     |-> [s \in Subjects |-> <<>>],     \* history: the outcomes counted
   details     |-> [s \in Subjects |-> 0],        \* schemaRecord.details
   complete    |-> [s \in Subjects |-> FALSE],    \* schemaRecord.complete
   findings    |-> <<>>,                          \* stored findings with their keys
   summaries   |-> <<>>,                          \* dtdSummaries in dtdOrder
   omitted     |-> FALSE,                         \* dtdOmitted
   unfinished  |-> FALSE,                         \* accumulator.incomplete()
   truncated   |-> FALSE,                         \* DiagnosticsTruncated
   interrupted |-> FALSE]                         \* the session has a terminal cause

\* Defect: the findings of one position share a key.
KeyOfPosition(r) == r.at \o <<0>>

\* nextKey at the current position.
Key(r) ==
  LET last == Last(r.findings).key
  IN r.at \o <<IF r.findings # <<>> /\ SubSeq(last, 1, 3) = r.at THEN last[4] + 1 ELSE 0>>

Store(r, s, outcome) ==
  [r EXCEPT !.findings = Append(@, [key |-> Key(r), subject |-> s, outcome |-> outcome])]

Outcome(s, a) ==
  IF a = "inapplicable" THEN "not-applicable"
  ELSE IF ~Valid(a) THEN "fail"
  ELSE IF Complete(a) THEN "pass"
  ELSE IF bound[s[1]] = "blocked" THEN "blocked" ELSE "unsupported"

Unresolved(outcome) == outcome \in {"unsupported", "blocked"}

\* deferSourceDTDSummary: the first evaluation of a rule opens its summary; a
\* refused one is omitted, which is no interruption.
deferSourceDTDSummary(r, s, refused) ==
  LET open == {i \in DOMAIN r.summaries : r.summaries[i].check = s[2]}
  IN IF open # {}
       THEN [r EXCEPT !.summaries[CHOOSE i \in open : TRUE].count = @ + 1]
     ELSE IF refused THEN [r EXCEPT !.omitted = TRUE]
     ELSE [r EXCEPT !.summaries = Append(@, [check |-> s[2], first |-> s, count |-> 1])]

\* Where an exhausted budget or a cancellation stops one recording: in the scan
\* of the limitations (before anything is counted), before the details, or when
\* the decision is retained. "summary" refuses only the summary.
Stops == {"never", "scan", "details", "retain", "summary"}

\* The schemaRecord of a failure: how much of it is reported, and whether every
\* assessment of it so far was complete.
retainFailure(r, s, a, done) ==
  [r EXCEPT !.details[s] = Issues(a), !.complete[s] = Complete(a) /\ (~done \/ @)]

\* Defect: a decided failure never becomes incomplete.
recordXSDResultOnce(r, s, a, stop) ==
  LET outcome == Outcome(s, a)
      counted == [r EXCEPT !.counted[s] = Append(@, outcome), !.unfinished = @ \/ ~Complete(a)]
  IN IF r.interrupted \/ r.decided[s] # "none" THEN r
     ELSE IF stop # "never" THEN [counted EXCEPT !.interrupted = TRUE]
     ELSE [counted EXCEPT !.decided[s] = outcome]

\* Defect: the diagnostics come before the verdict.
recordXSDResultLate(r, s, a, stop) ==
  LET outcome == Outcome(s, a)
  IN IF r.interrupted \/ r.decided[s] # "none" THEN r
     ELSE IF stop # "never" THEN [r EXCEPT !.interrupted = TRUE]
     ELSE [r EXCEPT !.counted[s] = Append(@, outcome), !.unfinished = @ \/ ~Complete(a),
                    !.decided[s] = outcome]

\* recordXSDResult in its order. The verdict is counted before any diagnostic work:
CountOutcome(r, s, a) ==
  IF r.decided[s] = "none"
    THEN [r EXCEPT !.counted[s] = Append(@, Outcome(s, a)), !.unfinished = @ \/ ~Complete(a)]
    ELSE [r EXCEPT !.unfinished = @ \/ (r.complete[s] /\ ~Complete(a))]

\* then the details that are new, or one finding, unless a summary stands for it;
DefersDTD(r, s, a) == r.decided[s] = "none" /\ a = "dtd" /\ Outcome(s, a) = "unsupported"
Stores(r, s, a) ==
  \/ r.details[s] < Issues(a)
  \/ /\ r.decided[s] = "none" /\ Issues(a) = 0 /\ ~DefersDTD(r, s, a)
     /\ Outcome(s, a) \notin {"pass", "not-applicable"}
Report(r, s, a) ==
  IF Stores(r, s, a) THEN Store(CountOutcome(r, s, a), s, Outcome(s, a)) ELSE CountOutcome(r, s, a)

\* the failure's record; the cache comes last.
Retain(r, s, a) ==
  IF Outcome(s, a) = "fail" THEN retainFailure(Report(r, s, a), s, a, r.decided[s] # "none")
  ELSE Report(r, s, a)
Cache(r, s, a) == [Retain(r, s, a) EXCEPT !.decided[s] = Outcome(s, a)]

Interrupted(r) == [r EXCEPT !.interrupted = TRUE]
InterruptedIf(r, error) == [r EXCEPT !.interrupted = @ \/ error]

recordXSDResult(r, s, a, stop) ==
  LET done == r.decided[s] # "none"
  IN IF r.interrupted THEN r
     ELSE IF stop = "scan" /\ Unresolved(Outcome(s, a)) THEN Interrupted(r)
     ELSE IF done /\ (r.decided[s] # "fail" \/ Outcome(s, a) # "fail") THEN r
     ELSE IF stop = "details" /\ Stores(r, s, a) THEN Interrupted(CountOutcome(r, s, a))
     ELSE IF stop = "retain"
       THEN [Interrupted(Report(r, s, a)) EXCEPT !.omitted = @ \/ DefersDTD(r, s, a)]
     ELSE IF done THEN Retain(r, s, a)
     ELSE IF DefersDTD(r, s, a) THEN deferSourceDTDSummary(Cache(r, s, a), s, stop = "summary")
     ELSE Cache(r, s, a)

\* The accumulator moves to a position.
MoveTo(r, position) == [r EXCEPT !.at = position]

\* recordXSDProvedFailures: at the node's position the failed checks of the node,
\* in order; the first interrupted recording is the last.
recordXSDProvedFailures(r, n, answers, stop) ==
  LET Proved(x, c) == IF Valid(answers[<<n, c>>]) THEN x
                      ELSE recordXSDResult(x, <<n, c>>, answers[<<n, c>>],
                                           IF stop.check = c THEN stop.where ELSE "never")
  IN Proved(Proved(Proved(MoveTo(r, <<1, 0, n>>), "scalar"), "content"), "representable")

Init ==
  /\ stage = "binding"
  /\ closes \in BOOLEAN
  /\ frames = <<>>
  /\ bound = [n \in Nodes |-> "none"]
  /\ result = [s \in Subjects |-> "limited"]
  /\ cursor = {}
  /\ rec = Unrecorded

Children(n) == {m \in Nodes : Parent[m] = n}
Running == ~rec.interrupted

\* The node whose frame the traversal enters next, if any.
Entered ==
  IF frames = <<>> THEN {m \in {Root} : bound[m] = "none"}
  ELSE LET rest == frames[Len(frames)].rest IN {m \in rest : \A k \in rest : m <= k}

\* One entered frame of bindSourceSchema: Run.Bind answers the local checks and
\* matches the children, the failures it proved are recorded, and only then an
\* error of Bind or of the publication of its facts ends the session.
Enter(n, answers, kinds, error, stop) ==
  LET answered == [s \in Subjects |-> IF s[1] = n /\ s[2] \in ToSet(LocalChecks)
                                       THEN answers[s[2]] ELSE result[s]]
      proved == recordXSDProvedFailures(rec, n, answered, stop)
  IN /\ stage = "binding" /\ Running
     /\ n \in Entered
     /\ result' = answered
     /\ rec' = InterruptedIf(proved, error)
     /\ bound' = [m \in Nodes |-> IF m = n THEN "bound"
                                   ELSE IF m \in Children(n) /\ kinds[m] \in {"skipped", "unavailable"}
                                     THEN kinds[m] ELSE bound[m]]
     /\ frames' = Append(IF frames = <<>> THEN frames
                         ELSE [frames EXCEPT ![Len(frames)].rest = @ \ {n}],
                         [node |-> n, rest |-> {m \in Children(n) : kinds[m] = "declared"}])
     /\ UNCHANGED <<stage, closes, cursor>>

\* A frame whose declared children are complete: Run.Complete, then the
\* representability of the node's numbers, whose interruption ends the session,
\* then the failures proved since the frame was entered.
CompleteNode(answer, error, stop) ==
  LET n == Last(frames).node
      completed == [s \in Subjects |-> IF error /\ s[1] = n THEN abort(result[s]) ELSE result[s]]
      answered == [completed EXCEPT ![<<n, "representable">>] = answer]
      proved == recordXSDProvedFailures(rec, n, answered, stop)
  IN /\ stage = "binding" /\ Running
     /\ frames # <<>> /\ Last(frames).rest = {}
     /\ result' = answered
     /\ IF answer = "limited"
          THEN rec' = Interrupted(rec)
          ELSE rec' = InterruptedIf(proved, error)
     /\ frames' = Front(frames)
     /\ UNCHANGED <<stage, closes, bound, cursor>>

\* How the nodes that no witness reached are bound: skipped below a skipped
\* wildcard, otherwise unavailable, and blocked by the content failure of the
\* nearest bound ancestor.
Unmatched ==
  LET kind[n \in Nodes] ==
        IF bound[n] # "none" THEN bound[n]
        ELSE IF kind[Parent[n]] # "bound" THEN kind[Parent[n]]
        ELSE IF rec.decided[<<Parent[n], "content">>] = "fail" THEN "blocked" ELSE "unavailable"
  IN kind

\* The rules are evaluated in the order of the checks, identity last.
PhaseOf(s) == IF s = IdentitySubject THEN Len(Checks) + 1
              ELSE CHOOSE i \in 1 .. Len(Checks) : Checks[i] = s[2]

\* The order of a pass: node by node in CloseNode, phase by phase in Finish.
NodePass(s, t) == s[1] < t[1] \/ (s[1] = t[1] /\ PhaseOf(s) < PhaseOf(t))
PhasePass(s, t) == PhaseOf(s) < PhaseOf(t) \/ (PhaseOf(s) = PhaseOf(t) /\ s[1] < t[1])

\* A pass returns at once from the subjects that are decided when it starts.
Due(r, subjects) == {s \in subjects : r.decided[s] = "none"}

\* The end of bindSourceSchema: the unmatched subtrees and the preview of the
\* document-wide identity constraints, which records only a proved failure and
\* takes it as complete. An input cut short ends the session here.
EndBinding(identity, error, stop) ==
  LET answer(s) == IF s = IdentitySubject THEN identity
                   ELSE IF Unmatched[s[1]] = "skipped" THEN "inapplicable"
                   ELSE IF Unmatched[s[1]] = "bound" THEN result[s]
                   ELSE "limited"
      recorded == IF Valid(identity) THEN rec
                  ELSE recordXSDResult(rec, IdentitySubject, "invalid", stop)
  IN /\ stage = "binding" /\ Running
     /\ frames = <<>> /\ bound[Root] = "bound"
     /\ bound' = Unmatched
     /\ result' = [s \in Subjects |-> answer(s)]
     /\ rec' = InterruptedIf(recorded, error)
     /\ stage' = IF closes THEN "closing" ELSE "phases"
     /\ cursor' = IF closes THEN Due(recorded, NodeSubjects) ELSE {}
     /\ UNCHANGED <<closes, frames>>

\* evaluateXSD for one subject of the pass.
Evaluate(r, s, stop) ==
  /\ rec' = recordXSDResult(r, s, result[s], stop)
  /\ cursor' = cursor \ {s}
  /\ UNCHANGED <<stage, closes, frames, bound, result>>

\* The pass of CloseNode over the bound document. The position stays where the
\* traversal left it.
EvaluateClosed(s, stop) ==
  /\ stage = "closing" /\ Running
  /\ \A t \in cursor \ {s} : NodePass(s, t)
  /\ Evaluate(rec, s, stop)

\* Finish: finalizeSourceSchema takes the final identity answer, which keeps a
\* failure that the preview proved.
finalizeSourceSchema(identity, error, stop) ==
  LET moved == MoveTo(rec, <<2, 0, 0>>)
      recorded == IF Valid(identity) THEN moved
                  ELSE recordXSDResult(moved, IdentitySubject, identity, stop)
  IN /\ \/ stage = "closing" /\ cursor = {}
        \/ stage = "phases" /\ rec.at[1] = 1
     /\ Running
     /\ ~Valid(result[IdentitySubject]) => ~Valid(identity)
     /\ result' = [result EXCEPT ![IdentitySubject] = identity]
     /\ rec' = InterruptedIf(recorded, error)
     /\ stage' = "phases"
     /\ cursor' = Due(recorded, Subjects)
     /\ UNCHANGED <<closes, frames, bound>>

\* One evaluation of the final phases.
EvaluateFinal(s, stop) ==
  /\ stage = "phases" /\ rec.at[1] # 1 /\ Running
  /\ \A t \in cursor \ {s} : PhasePass(s, t)
  /\ Evaluate(MoveTo(rec, <<3, PhaseOf(s), s[1]>>), s, stop)

\* Defect: an interrupted Finish stores no summaries.
flushSourceDTDSummariesHealthy ==
  /\ stage # "done"
  /\ Running => stage = "phases" /\ rec.at[1] # 1 /\ cursor = {}
  /\ rec' = [MoveTo(rec, <<4, 0, 0>>) EXCEPT !.unfinished = @ \/ rec.interrupted, !.truncated = rec.omitted]
  /\ stage' = "done"
  /\ UNCHANGED <<closes, frames, bound, result, cursor>>

\* flushSourceDTDSummaries and the end of Finish, also after an interruption:
\* one summary per rule at its first subject; an omitted one truncates.
flushSourceDTDSummaries ==
  /\ stage # "done"
  /\ Running => stage = "phases" /\ rec.at[1] # 1 /\ cursor = {}
  /\ rec' = [MoveTo(rec, <<4, 0, 0>>) EXCEPT
               !.findings = @ \o [i \in DOMAIN rec.summaries |->
                                    [key |-> <<4, 0, 0, i - 1>>, subject |-> rec.summaries[i].first,
                                     outcome |-> "unsupported"]],
               !.unfinished = @ \/ rec.interrupted,
               !.truncated = rec.omitted]
  /\ stage' = "done"
  /\ UNCHANGED <<closes, frames, bound, result, cursor>>

\* A cancellation or an exhausted budget outside a recording (step).
Interrupt ==
  /\ stage # "done" /\ Running
  /\ rec' = Interrupted(rec)
  /\ UNCHANGED <<stage, closes, frames, bound, result, cursor>>

\* At most one recording of a node is interrupted. A child without a witness has
\* a parent whose content is not known to be valid.
CheckStops == [check : ToSet(Checks), where : {"details", "retain"}] \cup {[check |-> "none", where |-> "never"]}
Kinds == {"declared", "skipped", "unavailable", "unmatched"}

Next ==
  \/ \E n \in Entered, error \in BOOLEAN, stop \in CheckStops :
       \E scalar \in ScalarAnswers[n], content \in ContentAnswers[n], kinds \in [Children(n) -> Kinds] :
         /\ error => ~Complete(content)
         /\ \A m \in Children(n) : kinds[m] = "unmatched" => content # "valid"
         /\ Enter(n, [scalar |-> scalar, content |-> content], kinds, error, stop)
  \/ \E answer \in {"valid", "invalid", "limited"}, error \in BOOLEAN, stop \in CheckStops :
       CompleteNode(answer, error, stop)
  \/ \E identity \in {"limited", "cut"}, error \in BOOLEAN, stop \in Stops : EndBinding(identity, error, stop)
  \/ \E s \in cursor, stop \in Stops : EvaluateClosed(s, stop)
  \/ \E identity \in {"valid", "limited", "invalid", "cut"}, error \in BOOLEAN, stop \in Stops :
       /\ error => ~Complete(identity)
       /\ finalizeSourceSchema(identity, error, stop)
  \/ \E s \in cursor, stop \in Stops : EvaluateFinal(s, stop)
  \/ Interrupt
  \/ flushSourceDTDSummaries

Spec == Init /\ [][Next]_vars

-----------------------------------------------------------------------------
(* Properties.                                                             *)

CountedAs(s, outcome) == outcome \in ToSet(rec.counted[s])

\* A rule evaluation is counted once although a failing check is recorded at
\* entry, at completion, by the preview, in Finish and in two passes, and the
\* cached decision is the counted one (recordXSDResult, recordCompositeOutcome).
CountedOnce ==
  \A s \in Subjects : /\ Len(rec.counted[s]) <= 1
                      /\ rec.decided[s] # "none" => rec.counted[s] = <<rec.decided[s]>>

\* A violation that the schema run proved is in the verdict: exactly, while the
\* session runs; and after an interruption at least one is, so the document
\* stays violated whatever stopped the diagnostics ("display quotas cannot
\* erase a proved normative violation").
FailureNeverLost ==
  LET proved == {s \in Subjects : ~Valid(result[s])}
      counted == {s \in Subjects : CountedAs(s, "fail")}
  IN /\ Running => proved = counted
     /\ proved # {} => counted # {}

\* A report that calls itself complete has assessed every subject completely:
\* no answer is missing, limited, or a failure whose assessment was cut short
\* later (the permanent incompleteness of recordXSDResult's done branch).
CompleteMeansAssessed ==
  LET complete == ~rec.unfinished /\ \A s \in Subjects : \A o \in ToSet(rec.counted[s]) : ~Unresolved(o)
  IN stage = "done" /\ complete => \A s \in Subjects : Complete(result[s]) /\ rec.counted[s] # <<>>

\* Every problem counted has a finding of its own or a summary of its rule; an
\* interruption loses at most the finding it interrupted, and an omitted
\* summary truncates the report (deferSourceDTDSummary,
\* flushSourceDTDSummaries).
NothingUnreported ==
  LET problem(s) == \E o \in {"fail", "unsupported", "blocked"} : CountedAs(s, o)
      reported(s) == \/ \E i \in DOMAIN rec.findings : rec.findings[i].subject = s
                     \/ \E i \in DOMAIN rec.findings : /\ rec.findings[i].key[1] = 4
                                                       /\ rec.findings[i].subject[2] = s[2]
                                                       /\ result[s] = "dtd"
      unreported == {s \in Subjects : problem(s) /\ ~reported(s)}
  IN stage = "done" /\ ~rec.truncated => Cardinality(unreported) <= (IF rec.interrupted THEN 1 ELSE 0)

\* A summary covers exactly the cached DTD-limited evaluations of its rule and
\* stands at the first of them in document order, unless one was omitted.
SummaryExact ==
  ~rec.omitted =>
    \A c \in ToSet(Checks) :
      LET limited == {s \in NodeSubjects : /\ s[2] = c /\ result[s] = "dtd"
                                           /\ rec.decided[s] = "unsupported"}
          open == {i \in DOMAIN rec.summaries : rec.summaries[i].check = c}
      IN IF limited = {} THEN open = {}
         ELSE \E i \in open : /\ open = {i} /\ rec.summaries[i].count = Cardinality(limited)
                              /\ rec.summaries[i].first \in limited
                              /\ \A s \in limited : rec.summaries[i].first[1] <= s[1]

\* What the schema run proves is in the verdict, once: no recording of a check,
\* early, late or interrupted, loses a violation or counts it again.
FailuresCountedOnce == CountedOnce /\ FailureNeverLost

\* What was counted is reported: by a finding, or by a summary that covers
\* exactly the limited evaluations of its rule.
ReportedExactly == NothingUnreported /\ SummaryExact

\* The ancestors of a node; a parent has the smaller number.
Ancestors(n) ==
  LET above[m \in 0 .. Cardinality(Nodes)] ==
        IF m \in {0, Root} THEN {} ELSE {Parent[m]} \cup above[Parent[m]]
  IN above[n]

Precedes(k, l) ==
  \E i \in 1 .. 4 : k[i] < l[i] /\ \A j \in 1 .. i - 1 : k[j] = l[j]

\* What the repository says of the buffered engine: it stores findings in
\* strictly increasing key order (windowed_strategy_test.go, and findingKey's
\* comment on where that engine produces a finding). The code does not do so:
\* a failure proved only after the children of a node is stored behind their
\* findings, at the position of the node (recordXSDProvedFailures, called again
\* by bindSourceSchema after Run.Complete).
KeysIncrease ==
  \A i \in 1 .. Len(rec.findings) - 1 : Precedes(rec.findings[i].key, rec.findings[i + 1].key)

\* How far the order can be broken: the keys go back only within the schema
\* stage, and only from a node to one of its ancestors, never to a sibling's or
\* an earlier subtree's position, and no two neighbours share a key (nextKey,
\* recordXSDProvedFailures, the order of bindSourceSchema's frames).
KeysStepBackToAncestors ==
  \A i \in 1 .. Len(rec.findings) - 1 :
    LET f == rec.findings[i]
        g == rec.findings[i + 1]
    IN ~Precedes(f.key, g.key) => /\ f.key[1] = 1 /\ g.key[1] = 1
                                  /\ g.key[3] \in Ancestors(f.key[3])

=============================================================================
