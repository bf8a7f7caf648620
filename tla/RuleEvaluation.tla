--------------------------- MODULE RuleEvaluation ---------------------------
(***************************************************************************)
(* The evaluation of rules by an assessment session                        *)
(* (validation/session.go, validation/session_evaluate.go).                *)
(*                                                                         *)
(* A rule is evaluated early, when its node closes (or for every node when *)
(* the root closes, if a schema must be bound first), and again in the     *)
(* phases of Finish. An early evaluation decides only what later input     *)
(* cannot change; what waits for it is decided in Finish. A decision is    *)
(* counted, then cached for the rules that require it. A cancellation or   *)
(* an exhausted budget between any two steps ends the session.             *)
(*                                                                         *)
(* What a selector or a predicate answers is data: it is chosen when the   *)
(* code first asks and kept, so that both passes see the same document.    *)
(* Identity registration phases and context plans are not in this module.  *)
(***************************************************************************)
EXTENDS Integers, Sequences, FiniteSets, FiniteSetsExt, SequencesExt

CONSTANTS
  Rules,        \* the schedule: a sequence of rule definitions
  MaxNodes,     \* bound: nodes of a document
  Selections,   \* what a selector may answer
  PlanAnswers   \* what a predicate may answer

Keys == 1 .. Len(Rules)
Relations == {"same-node", "parent", "document"}

\* A decision is an outcome and, if blocked, the rule and node it names as cause.
NoCause == <<0, 0>>
Undecided == [outcome |-> "none", cause |-> NoCause]
Decision(outcome) == [outcome |-> outcome, cause |-> NoCause]
Applies == Decision("applies")

\* evidenceDecision, for evidence that is not known. Invalid evidence blocks the
\* rule with the cause the evidence names: of a caller's evidence only the shape
\* is checked, so the cause is any rule and node, of this session or not.
evidenceDecision == {Decision(o) : o \in {"not-applicable", "unknown", "unsupported"}}
                      \cup [outcome : {"blocked"}, cause : Nat \X Nat]

\* A schedule is a topological order of its rules' prerequisites.
ASSUME ScheduleAssumption ==
  /\ Rules \in Seq([scope : {"node", "document"}, normative : BOOLEAN, available : BOOLEAN,
                    final : BOOLEAN, requires : SUBSET [rule : Nat, relation : Relations]])
  /\ \A r \in Keys : \A d \in Rules[r].requires : d.rule \in 1 .. r - 1
  /\ MaxNodes \in Nat \ {0}
  /\ Selections \subseteq {Applies} \cup evidenceDecision
  /\ PlanAnswers \subseteq {Decision("pass"), Decision("fail")} \cup evidenceDecision

NodeIDs == 1 .. MaxNodes
Root == 1
Subjects == Keys \X NodeIDs
Mark == MaxNodes + 1   \* in place of a node: the end of a rule's phase
Outcomes == {"pass", "fail", "not-applicable", "unknown", "unsupported", "blocked"}
Unresolved == {"unknown", "unsupported", "blocked"}

VARIABLES
  pc,          \* "input", "closing", "phases", "done"
  parent,      \* the opened nodes in document order: parent[n], 0 for the root
  stack,       \* the open nodes
  bindsFirst,  \* a schema is bound when the root closes, before any evaluation
  cursor,      \* the evaluations left in the current pass: subjects, marks of phases
  fact,        \* what the document answers per subject, Undecided until asked
  decisions,   \* the decision cache (decisions and successful)
  counted,     \* history: the outcomes counted per subject
  prerequisite,\* documentPrerequisites: [finalized, ready, decision]
  terminal,    \* the session has a terminal cause
  enumerationIncomplete,
  inputComplete,
  report       \* the finished report's axes

vars == <<pc, parent, stack, bindsFirst, cursor, fact, decisions, counted, prerequisite,
          terminal, enumerationIncomplete, inputComplete, report>>

Nodes == DOMAIN parent
Closed == Nodes \ ToSet(stack)
\* The rules of a node: a document rule is evaluated at the root only.
Evaluated(r, n) == Rules[r].scope = "document" => n = Root

-----------------------------------------------------------------------------
(* Prerequisites, over a decision cache D.                                 *)

rank(outcome) ==
  CASE outcome = "blocked" -> 3 [] outcome = "unsupported" -> 2 [] outcome = "unknown" -> 1 [] OTHER -> 0

causeLess(c, d) ==
  IF c = NoCause \/ d = NoCause THEN d = NoCause /\ c # NoCause
  ELSE c[1] < d[1] \/ (c[1] = d[1] /\ c[2] < d[2])

Waiting == [outcome |-> "waiting", cause |-> NoCause]

\* Defect: the cause of a blocked prerequisite is the blocked prerequisite.
blockCauseNearest(D, t) == t

\* What a failed or blocked subject t blocks others with: the cause it names,
\* and itself if it failed or names none.
blockCause(D, t) == IF D[t].outcome = "fail" \/ D[t].cause = NoCause THEN t ELSE D[t].cause

\* scanPrerequisite, over candidates in document order: the first failed one
\* decides; then an incomplete document, a gap and an inapplicable prerequisite
\* each leave it unresolved.
scanPrerequisite(D, p, relation, candidates, final, whole) ==
  LET outcome(n) == D[<<p, n>>].outcome
      failing == {n \in candidates : outcome(n) \in {"fail", "blocked"}}
      gaps == {n \in candidates : outcome(n) \in {"none", "unsupported"}}
  IN IF ~final /\ \E n \in candidates : outcome(n) = "none" THEN Waiting
     ELSE IF failing # {} THEN [outcome |-> "blocked", cause |-> blockCause(D, <<p, Min(failing)>>)]
     ELSE IF relation = "document" /\ ~whole THEN Decision("unknown")
     ELSE IF gaps # {} THEN Decision(IF outcome(Max(gaps)) = "none" THEN "unknown" ELSE "unsupported")
     ELSE IF \E n \in candidates : outcome(n) = "unknown" THEN Decision("unknown")
     ELSE IF \A n \in candidates : outcome(n) = "not-applicable" THEN Decision("unknown")
     ELSE Decision("pass")

\* The document aggregate of a prerequisite.
ScanDocument(D, p, whole) == scanPrerequisite(D, p, "document", {n \in Nodes : Evaluated(p, n)}, TRUE, whole)

\* A final evaluation that reads a document prerequisite before its phase ended
\* is a contract error.
Contract == [outcome |-> "contract", cause |-> NoCause]

\* dependency: memo holds the document aggregates.
dependency(D, memo, n, d, final, whole) ==
  CASE d.relation = "same-node" -> scanPrerequisite(D, d.rule, d.relation, {n}, final, whole)
    [] d.relation = "parent" ->
         IF parent[n] = 0 THEN Decision("unknown")
         ELSE scanPrerequisite(D, d.rule, d.relation, {parent[n]}, final, whole)
    [] OTHER -> IF ~final THEN Waiting
                ELSE IF ~memo[d.rule].finalized THEN Contract
                ELSE IF memo[d.rule].ready THEN memo[d.rule].decision
                ELSE ScanDocument(D, d.rule, whole)

\* Defect: an early evaluation does not wait for its open prerequisites.
dependenciesImpatient(D, memo, r, n, final, whole) ==
  LET all == {dependency(D, memo, n, d, final, whole) : d \in Rules[r].requires} \ {Waiting}
      worst == Max({rank(d.outcome) : d \in all} \cup {0})
      ties == {d \in all : rank(d.outcome) = worst}
  IN IF worst = 0 THEN Decision("pass")
     ELSE CHOOSE d \in ties : \A e \in ties : ~causeLess(e.cause, d.cause)

\* dependencies: the worst prerequisite wins, the least cause among equals. A
\* block is decided at once; anything else waits for all prerequisites.
dependencies(D, memo, r, n, final, whole) ==
  LET all == {dependency(D, memo, n, d, final, whole) : d \in Rules[r].requires}
      worst == Max({rank(d.outcome) : d \in all} \cup {0})
      ties == {d \in all : rank(d.outcome) = worst}
  IN IF Contract \in all THEN Contract
     ELSE IF worst # 3 /\ Waiting \in all THEN Waiting
     ELSE IF worst = 0 THEN Decision("pass")
     ELSE CHOOSE d \in ties : \A e \in ties : ~causeLess(e.cause, d.cause)

-----------------------------------------------------------------------------
(* One evaluation.                                                         *)

Predicate == [outcome |-> "predicate", cause |-> NoCause]

\* evaluateRule for a selector's answer: a decision, or Waiting for Finish, or
\* Predicate when the plan decides. A document rule and a plan that needs the
\* whole document (final) wait for Finish.
evaluateRule(D, memo, selection, r, n, final, whole) ==
  LET d == dependencies(D, memo, r, n, final, whole)
  IN IF selection # Applies THEN selection
     ELSE IF ~Rules[r].available THEN Decision("unsupported")
     ELSE IF ~final /\ Rules[r].scope = "document" THEN Waiting
     ELSE IF d.outcome # "pass" THEN d
     ELSE IF ~final /\ Rules[r].final THEN Waiting
     ELSE Predicate

Whole == inputComplete /\ ~enumerationIncomplete

\* record: counted first, then cached. A refused cache entry, or a plan that
\* was interrupted after it proved a failure, ends the session.
Record(s, d, refused) ==
  /\ counted' = [counted EXCEPT ![s] = Append(@, d.outcome)]
  /\ decisions' = IF refused THEN decisions ELSE [decisions EXCEPT ![s] = d]
  /\ terminal' = refused

\* The document prerequisites that a final evaluation of rule r has aggregated.
Aggregated(r) ==
  [p \in Keys |->
     IF [rule |-> p, relation |-> "document"] \in Rules[r].requires /\ ~prerequisite[p].ready
     THEN [prerequisite[p] EXCEPT !.ready = TRUE, !.decision = ScanDocument(decisions, p, Whole)]
     ELSE prerequisite[p]]

\* The evaluations of a pass over nodes that do something. The others return at
\* once: the subject is decided, the rule is not evaluated at this node, or the
\* node is open. Only its own evaluation decides a subject, so this is known when
\* the pass starts.
Due(nodes, open) ==
  {s \in Keys \X nodes : decisions[s] = Undecided /\ Evaluated(s[1], s[2]) /\ s[2] \notin ToSet(open)}

\* evaluate for one subject: interrupted before it has a result, left waiting,
\* or decided.
Evaluate(s, final) ==
  LET r == s[1]
      n == s[2]
  IN \/ terminal' = TRUE /\ UNCHANGED <<fact, decisions, counted, prerequisite>>
     \/ \E selection \in IF fact[s] = Undecided THEN Selections ELSE {fact[s]} :
             LET d == evaluateRule(decisions, prerequisite, selection, r, n, final, Whole)
             IN /\ prerequisite' = IF selection = Applies /\ Rules[r].available /\ final /\ d # Contract
                                    THEN Aggregated(r) ELSE prerequisite
                /\ \/ /\ d = Waiting
                      /\ fact' = [fact EXCEPT ![s] = selection]
                      /\ UNCHANGED <<decisions, counted, terminal>>
                   \/ /\ d = Contract
                      /\ terminal' = TRUE
                      /\ UNCHANGED <<fact, decisions, counted>>
                   \/ /\ d.outcome \in Outcomes
                      /\ fact' = [fact EXCEPT ![s] = selection]
                      /\ \E refused \in BOOLEAN : Record(s, d, refused)
                   \/ /\ d = Predicate
                      /\ \E answer \in PlanAnswers, refused \in BOOLEAN :
                           /\ fact' = [fact EXCEPT ![s] = answer]
                           /\ Record(s, answer, refused)

-----------------------------------------------------------------------------
(* The session.                                                            *)

Unreported == [conformance |-> "none", complete |-> FALSE, satisfied |-> FALSE]

Init ==
  /\ pc = "input"
  /\ parent = <<>>
  /\ stack = <<>>
  /\ bindsFirst \in BOOLEAN
  /\ cursor = {}
  /\ fact = [s \in Subjects |-> Undecided]
  /\ decisions = [s \in Subjects |-> Undecided]
  /\ counted = [s \in Subjects |-> <<>>]
  /\ prerequisite = [r \in Keys |-> [finalized |-> FALSE, ready |-> FALSE, decision |-> Undecided]]
  /\ terminal = FALSE
  /\ enumerationIncomplete = FALSE
  /\ inputComplete = FALSE
  /\ report = Unreported

evaluationVars == <<fact, decisions, counted, prerequisite>>

\* OpenNode of the root or of a child of the current node.
OpenNode ==
  /\ pc = "input" /\ ~terminal
  /\ Len(parent) < MaxNodes
  /\ stack = <<>> => parent = <<>>
  /\ parent' = Append(parent, IF stack = <<>> THEN 0 ELSE Last(stack))
  /\ stack' = Append(stack, Len(parent) + 1)
  /\ UNCHANGED <<pc, bindsFirst, cursor, evaluationVars, terminal, enumerationIncomplete, inputComplete, report>>

\* An event that is refused: any error of an event is terminal. A CloseNode may
\* be refused after it marked the enumeration incomplete.
RefuseEvent ==
  /\ pc = "input" /\ ~terminal
  /\ terminal' = TRUE
  /\ enumerationIncomplete' \in {enumerationIncomplete, enumerationIncomplete \/ stack # <<>>}
  /\ UNCHANGED <<pc, parent, stack, bindsFirst, cursor, evaluationVars, inputComplete, report>>

\* CloseNode seals the current node and starts the early evaluations.
CloseNode(childrenComplete) ==
  /\ pc = "input" /\ ~terminal
  /\ stack # <<>>
  /\ LET n == Last(stack) IN
     cursor' = Due(IF ~bindsFirst THEN {n} ELSE IF n = Root THEN Nodes ELSE {}, Front(stack))
  /\ stack' = Front(stack)
  /\ enumerationIncomplete' = (enumerationIncomplete \/ ~childrenComplete)
  /\ pc' = "closing"
  /\ UNCHANGED <<parent, bindsFirst, evaluationVars, terminal, inputComplete, report>>

\* Node by node, rule by rule.
NextClosed(s) == \A t \in cursor : s[2] < t[2] \/ (s[2] = t[2] /\ s[1] <= t[1])

EvaluateClosed ==
  /\ pc = "closing" /\ ~terminal
  /\ \E s \in cursor : NextClosed(s) /\ Evaluate(s, FALSE) /\ cursor' = cursor \ {s}
  /\ UNCHANGED <<pc, parent, stack, bindsFirst, enumerationIncomplete, inputComplete, report>>

EndClose ==
  /\ pc = "closing" /\ (cursor = {} \/ terminal)
  /\ pc' = "input"
  /\ cursor' = {}
  /\ UNCHANGED <<parent, stack, bindsFirst, evaluationVars, terminal, enumerationIncomplete, inputComplete, report>>

\* Finish: the completion is validated, and the phases run unless the session
\* is or becomes terminal. cause is an external failure or a cancellation.
Finish(claimsComplete, cause) ==
  /\ pc = "input"
  /\ terminal' = (terminal \/ cause \/ (claimsComplete /\ (parent = <<>> \/ stack # <<>>)))
  /\ inputComplete' = (claimsComplete /\ parent # <<>> /\ stack = <<>>)
  /\ pc' = "phases"
  /\ cursor' = Due(Nodes, stack) \cup (Keys \X {Mark})
  /\ UNCHANGED <<parent, stack, bindsFirst, evaluationVars, enumerationIncomplete, report>>

\* The phases of Finish: rule by rule over the nodes in document order.
NextFinal(s) == \A t \in cursor : s[1] < t[1] \/ (s[1] = t[1] /\ s[2] <= t[2])

EvaluateFinal ==
  /\ pc = "phases" /\ ~terminal
  /\ \E s \in cursor : s[2] # Mark /\ NextFinal(s) /\ Evaluate(s, TRUE) /\ cursor' = cursor \ {s}
  /\ UNCHANGED <<pc, parent, stack, bindsFirst, enumerationIncomplete, inputComplete, report>>

\* The end of a phase: its rule can be read as a document prerequisite.
EndPhase ==
  /\ pc = "phases" /\ ~terminal
  /\ \E r \in Keys : /\ <<r, Mark>> \in cursor /\ NextFinal(<<r, Mark>>)
                     /\ prerequisite' = [prerequisite EXCEPT ![r].finalized = TRUE]
                     /\ cursor' = cursor \ {<<r, Mark>>}
  /\ UNCHANGED <<pc, parent, stack, bindsFirst, fact, decisions, counted, terminal,
                 enumerationIncomplete, inputComplete, report>>

Counted(normative, outcomes) ==
  \E s \in Subjects : Rules[s[1]].normative = normative /\ ToSet(counted[s]) \cap outcomes # {}

\* Defect: unresolved outcomes of normative rules are ignored.
ConformanceOptimistic(unresolvedInput) ==
  IF Counted(TRUE, {"fail"}) THEN "violated"
  ELSE IF terminal \/ enumerationIncomplete \/ unresolvedInput THEN "undetermined"
  ELSE "conformant"

\* The verdict of reportAccumulator.finish.
Conformance(unresolvedInput) ==
  IF Counted(TRUE, {"fail"}) THEN "violated"
  ELSE IF Counted(TRUE, Unresolved) \/ terminal \/ enumerationIncomplete \/ unresolvedInput THEN "undetermined"
  ELSE "conformant"

\* The end of Finish: the report, and then the snapshot or lease that owns it,
\* whose failure makes the report incomplete too.
EndFinish(syntaxComplete, ownershipError) ==
  LET unresolvedInput == ~inputComplete \/ ~syntaxComplete
      conformance == Conformance(unresolvedInput)
      complete == /\ ~Counted(TRUE, Unresolved) /\ ~Counted(FALSE, Unresolved)
                  /\ ~terminal /\ ~enumerationIncomplete /\ ~unresolvedInput /\ ~ownershipError
      problems == Counted(FALSE, {"fail"}) \/ Counted(FALSE, Unresolved) \/ terminal \/ ownershipError
  IN /\ pc = "phases" /\ (cursor = {} \/ terminal)
     /\ pc' = "done"
     /\ cursor' = {}
     /\ terminal' = (terminal \/ ownershipError)
     /\ report' = [conformance |-> IF ownershipError /\ conformance # "violated" THEN "undetermined" ELSE conformance,
                   complete |-> complete,
                   satisfied |-> conformance = "conformant" /\ complete /\ ~problems]
     /\ UNCHANGED <<parent, stack, bindsFirst, evaluationVars, enumerationIncomplete, inputComplete>>

Next ==
  \/ OpenNode
  \/ RefuseEvent
  \/ \E childrenComplete \in BOOLEAN : CloseNode(childrenComplete)
  \/ EvaluateClosed
  \/ EndClose
  \/ \E claimsComplete, cause \in BOOLEAN : Finish(claimsComplete, cause)
  \/ EvaluateFinal
  \/ EndPhase
  \/ \E syntaxComplete, ownershipError \in BOOLEAN : EndFinish(syntaxComplete, ownershipError)

Spec == Init /\ [][Next]_vars

-----------------------------------------------------------------------------
(* Properties.                                                             *)

\* Each subject is counted at most once although it is evaluated in two passes,
\* and the cache holds what was counted (record, lookupDecision).
CountedOnce ==
  \A s \in Subjects : /\ Len(counted[s]) <= 1
                      /\ decisions[s] # Undecided => counted[s] = <<decisions[s].outcome>>

\* The subjects a requirement of rule r at node n is about.
Required(d, n) ==
  CASE d.relation = "same-node" -> {<<d.rule, n>>}
    [] d.relation = "parent" -> {<<d.rule, parent[n]>>}
    [] OTHER -> {<<d.rule, m>> : m \in {m \in Nodes : Evaluated(d.rule, m)}}

\* A predicate's verdict, pass or fail, rests on prerequisites that hold: each
\* one is decided, none is failed or unresolved, one of them applies, and for a
\* document prerequisite the whole document was seen (dependency,
\* scanPrerequisite).
VerdictsAreEarned ==
  \A s \in Subjects :
    decisions[s].outcome \in {"pass", "fail"} =>
      \A d \in Rules[s[1]].requires :
        /\ \A t \in Required(d, s[2]) : decisions[t].outcome \in {"pass", "not-applicable"}
        /\ \E t \in Required(d, s[2]) : decisions[t].outcome = "pass"
        /\ d.relation = "document" => Whole

\* Where a block may come from: a subject that failed, or what a subject handed
\* on that its own invalid evidence blocked.
Origin(c) ==
  \E t \in Subjects :
    /\ c = blockCause(decisions, t)
    /\ \/ decisions[t].outcome = "fail"
       \/ decisions[t] = fact[t] /\ fact[t].outcome = "blocked"

\* A rule that its prerequisites block names where the block began, through any
\* chain of blocked prerequisites: a rule that failed, or the cause that invalid
\* evidence gave (the subject itself, if it gave none). Only a rule that its own
\* evidence blocks may name no cause (scanPrerequisite keeps the original cause).
BlocksAreTraced ==
  \A s \in Subjects :
    decisions[s].outcome = "blocked" => decisions[s] = fact[s] \/ (fact[s] = Applies /\ Origin(decisions[s].cause))

\* Every decision is taken once and has its reason: a verdict rests on
\* prerequisites that hold, a block on a failure or on invalid evidence.
DecisionsJustified == CountedOnce /\ VerdictsAreEarned /\ BlocksAreTraced

\* What one pass over the finished document would decide, rule by rule, from
\* the same answers: rule r at every closed node, from the decisions D before it.
Established == [r \in Keys |-> [finalized |-> TRUE, ready |-> FALSE, decision |-> Undecided]]
Decide(D, s) ==
  LET d == evaluateRule(D, Established, IF fact[s] \in Selections THEN fact[s] ELSE Applies, s[1], s[2], TRUE, Whole)
  IN IF d = Predicate THEN fact[s] ELSE d
Phase(D, r) ==
  [s \in Subjects |-> IF s[1] = r /\ s[2] \in Closed /\ Evaluated(r, s[2]) THEN Decide(D, s) ELSE D[s]]
after[r \in 0 .. Len(Rules)] ==
  IF r = 0 THEN [s \in Subjects |-> Undecided] ELSE Phase(after[r - 1], r)
Reference == after[Len(Rules)]

\* The two-pass evaluation decides what one pass over the whole document would
\* decide: an early decision is never premature, and an aggregate computed once
\* is never stale (dependencies, documentPrerequisite).
EarlyDecisionsAgree ==
  pc = "done" /\ ~terminal =>
    \A s \in Subjects : decisions[s].outcome = Reference[s].outcome

\* A conformant report saw the whole input and decided every normative rule on
\* every node with success; a satisfied one did so for every rule; and a counted
\* normative failure always makes the report violated, also when caching it
\* ended the session (finish, Satisfied).
VerdictIsSound ==
  LET succeeded(s) == decisions[s].outcome \in {"pass", "not-applicable"}
      all(normative) == \A r \in Keys, n \in Nodes :
                          Evaluated(r, n) /\ (Rules[r].normative \/ ~normative) => succeeded(<<r, n>>)
  IN pc = "done" =>
       /\ report.conformance = "conformant" => all(TRUE) /\ stack = <<>> /\ Nodes # {} /\ ~terminal
       /\ report.satisfied => report.complete /\ all(FALSE)
       /\ report.conformance = "violated" <=> \E s \in Subjects : Rules[s[1]].normative /\ "fail" \in ToSet(counted[s])

=============================================================================
