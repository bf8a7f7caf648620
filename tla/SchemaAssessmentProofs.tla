---------------------- MODULE SchemaAssessmentProofs -----------------------
(***************************************************************************)
(* Proofs about the schema part of an assessment session: whatever the     *)
(* schema run answers, however many times a check is recorded and wherever *)
(* an exhausted budget or a cancellation stops a recording, a proved       *)
(* failure is counted, and once, and a report that calls itself complete   *)
(* rests on a complete assessment of every subject; the findings are filed *)
(* in the order of their keys, except where a node's second recording      *)
(* returns from its subtree; and every counted problem is reported, by its *)
(* own finding or by a summary that counts exactly the evaluations it      *)
(* stands for.                                                             *)
(***************************************************************************)
EXTENDS SchemaAssessment, FiniteSetTheorems, WellFoundedInduction, SequenceTheorems, TLAPS

-----------------------------------------------------------------------------
(* The inductive invariant                                                  *)

Outcomes == {"pass", "fail", "not-applicable", "unsupported", "blocked"}
Bindings == {"none", "bound", "skipped", "unavailable", "blocked"}
Frame == [node : Nodes, rest : SUBSET Nodes]

\* The fields of what is recorded, and the types the arguments read.
RecType(r) ==
  /\ r = [at |-> r.at, decided |-> r.decided, counted |-> r.counted, details |-> r.details,
          complete |-> r.complete, findings |-> r.findings, summaries |-> r.summaries,
          omitted |-> r.omitted, unfinished |-> r.unfinished, truncated |-> r.truncated,
          interrupted |-> r.interrupted]
  /\ r.decided \in [Subjects -> Outcomes \cup {"none"}]
  /\ r.counted \in [Subjects -> Seq(Outcomes)]
  /\ r.complete \in [Subjects -> BOOLEAN]
  /\ r.unfinished \in BOOLEAN /\ r.interrupted \in BOOLEAN

\* A cached decision is the only outcome counted; without one nothing is
\* counted, unless the session was interrupted in between.
CountedOK(r) ==
  \A s \in Subjects :
    IF r.decided[s] # "none" THEN r.counted[s] = <<r.decided[s]>>
    ELSE r.counted[s] = <<>> \/ (r.interrupted /\ \E o \in Outcomes : r.counted[s] = <<o>>)

Book(r) == RecType(r) /\ CountedOK(r)

Failed(r, s) == r.counted[s] = <<"fail">>

\* What is recorded of the answers res while the session runs: the failures are
\* the decided ones, and in a report that is not unfinished every decided
\* subject is completely assessed. The preview's identity failure counts as
\* complete until finalizeSourceSchema takes the final answer.
Sound(r, res) ==
  /\ \A s \in Subjects : r.decided[s] = "fail" <=> ~Valid(res[s])
  /\ \A s \in Subjects : r.decided[s] \in {"pass", "not-applicable"} => Complete(res[s])
  /\ ~r.unfinished =>
       \A s \in Subjects : r.decided[s] = "fail" =>
         r.complete[s] /\ (s # IdentitySubject \/ r.at[1] # 1 => Complete(res[s]))

\* The frames of the traversal: their nodes are bound and distinct, the
\* children they wait for are not bound yet.
FramesOK ==
  /\ \A i \in DOMAIN frames :
       /\ bound[frames[i].node] = "bound"
       /\ result[<<frames[i].node, "representable">>] = "limited"
       /\ \A m \in frames[i].rest : m \in Children(frames[i].node) /\ bound[m] = "none"
  /\ \A i, j \in DOMAIN frames : frames[i].node = frames[j].node => i = j

\* Nothing is known of a node that was not reached, and only failures are
\* decided.
BindingOK ==
  /\ FramesOK
  /\ \A n \in Nodes \ {Root} : bound[n] # "none" => bound[Parent[n]] = "bound"
  /\ \A n \in Nodes : bound[n] # "bound" => \A c \in ToSet(Checks) : result[<<n, c>>] = "limited"
  /\ result[IdentitySubject] = "limited"
  /\ \A s \in Subjects : rec.decided[s] \in {"none", "fail"}

StageOK ==
  /\ stage \in {"binding", "closing"} => rec.at[1] = 1
  /\ stage = "binding" => BindingOK
  /\ stage = "closing" => cursor \subseteq NodeSubjects
  /\ stage # "done" /\ rec.at[1] = 1 => rec.decided[IdentitySubject] \in {"none", "fail"}
  /\ stage = "phases" /\ rec.at[1] # 1 => \A s \in Subjects : rec.decided[s] = "none" => s \in cursor
  /\ stage = "done" => rec.at[1] # 1 /\ \A s \in Subjects : rec.decided[s] # "none"

SchemaInv ==
  /\ stage \in {"binding", "closing", "phases", "done"} /\ closes \in BOOLEAN
  /\ frames \in Seq(Frame)
  /\ bound \in [Nodes -> Bindings] /\ result \in [Subjects -> Answers] /\ cursor \subseteq Subjects
  /\ Book(rec)
  /\ Running => Sound(rec, result) /\ StageOK
  /\ stage = "done" /\ rec.interrupted => rec.unfinished
  /\ (\E s \in Subjects : ~Valid(result[s])) => \E s \in Subjects : Failed(rec, s)

-----------------------------------------------------------------------------
(* Subjects and answers                                                     *)

\* The checks of a node, and the identity subject, which is none of them.
LEMMA SubjectsAre ==
  /\ Root \in Nodes /\ Nodes \subseteq Nat \ {0}
  /\ ToSet(Checks) = {"scalar", "content", "representable"}
  /\ ToSet(LocalChecks) = {"scalar", "content"}
  /\ NodeSubjects = {<<n, c>> : n \in Nodes, c \in {"scalar", "content", "representable"}}
  /\ IdentitySubject \in Subjects /\ IdentitySubject \notin NodeSubjects
  /\ Subjects = NodeSubjects \cup {IdentitySubject}
<1>1. Root \in Nodes /\ Nodes = 1..Cardinality(Nodes) /\ Cardinality(Nodes) \in Nat
  BY DocumentAssumption, FS_CardinalityType
<1>2. Checks = <<"scalar", "content", "representable">> /\ LocalChecks = <<"scalar", "content">>
  BY DEF Checks, LocalChecks
<1>3. ToSet(Checks) = {"scalar", "content", "representable"} /\ ToSet(LocalChecks) = {"scalar", "content"}
  BY <1>2 DEF ToSet
<1>4. NodeSubjects = {<<n, c>> : n \in Nodes, c \in {"scalar", "content", "representable"}}
  BY <1>3 DEF NodeSubjects
<1>5. IdentitySubject \notin NodeSubjects
  BY <1>4 DEF IdentitySubject
<1> QED
  BY <1>1, <1>3, <1>4, <1>5 DEF Subjects

\* A subject of a node.
LEMMA NodeSubject ==
  ASSUME NEW n \in Nodes, NEW c \in {"scalar", "content", "representable"}
  PROVE  <<n, c>> \in NodeSubjects /\ <<n, c>> \in Subjects /\ <<n, c>> # IdentitySubject
BY SubjectsAre DEF Subjects

LEMMA CompleteIs == \A a : Complete(a) \in BOOLEAN
BY DEF Complete

\* An answer fails, or gives another outcome.
LEMMA OutcomeKinds ==
  ASSUME NEW s \in Subjects, NEW a \in Answers
  PROVE  /\ Outcome(s, a) \in Outcomes
         /\ Outcome(s, a) = "fail" <=> ~Valid(a)
         /\ Outcome(s, a) \in {"pass", "not-applicable"} => Complete(a)
         /\ Unresolved(Outcome(s, a)) => Valid(a)
BY DEF Outcome, Outcomes, Valid, Complete, Answers, Unresolved

-----------------------------------------------------------------------------
(* Recording one result                                                     *)

\* The fields the invariant reads are the same.
SameCore(r, t) ==
  /\ t.at = r.at /\ t.decided = r.decided /\ t.counted = r.counted
  /\ t.complete = r.complete /\ t.unfinished = r.unfinished /\ t.interrupted = r.interrupted

\* Findings and summaries are not among them.
LEMMA StoreKeeps ==
  ASSUME NEW r, RecType(r), NEW s, NEW o
  PROVE  SameCore(r, Store(r, s, o)) /\ RecType(Store(r, s, o))
<1>1. PICK f : f = Append(r.findings, [key |-> Key(r), subject |-> s, outcome |-> o])
  OBVIOUS
<1>2. Store(r, s, o) = [r EXCEPT !.findings = f]
  BY <1>1 DEF Store
<1> QED
  BY <1>2 DEF RecType, SameCore

\* A session that is stopped.
LEMMA InterruptedIs ==
  ASSUME NEW r, RecType(r)
  PROVE  /\ RecType(Interrupted(r)) /\ Interrupted(r).interrupted
         /\ Interrupted(r).at = r.at /\ Interrupted(r).decided = r.decided
         /\ Interrupted(r).counted = r.counted /\ Interrupted(r).complete = r.complete
         /\ Interrupted(r).unfinished = r.unfinished
<1>1. PICK t : t = [r EXCEPT !.interrupted = TRUE]
  OBVIOUS
<1>2. /\ RecType(t) /\ t.at = r.at /\ t.decided = r.decided /\ t.complete = r.complete
      /\ t.interrupted = TRUE /\ t.counted = r.counted /\ t.unfinished = r.unfinished
  BY <1>1 DEF RecType
<1>3. t = Interrupted(r)
  BY <1>1 DEF Interrupted
<1> QED
  BY <1>2, <1>3

LEMMA OmittedKeeps ==
  ASSUME NEW r, RecType(r), NEW x
  PROVE  SameCore(r, [r EXCEPT !.omitted = x]) /\ RecType([r EXCEPT !.omitted = x])
<1>1. PICK t : t = [r EXCEPT !.omitted = x]
  OBVIOUS
<1>2. /\ RecType(t) /\ t.at = r.at /\ t.decided = r.decided /\ t.complete = r.complete
      /\ t.interrupted = r.interrupted /\ t.counted = r.counted /\ t.unfinished = r.unfinished
  BY <1>1 DEF RecType
<1> QED
  BY <1>1, <1>2 DEF SameCore

LEMMA SummariesKeep ==
  ASSUME NEW r, RecType(r), NEW x
  PROVE  SameCore(r, [r EXCEPT !.summaries = x]) /\ RecType([r EXCEPT !.summaries = x])
<1>1. PICK t : t = [r EXCEPT !.summaries = x]
  OBVIOUS
<1>2. /\ RecType(t) /\ t.at = r.at /\ t.decided = r.decided /\ t.complete = r.complete
      /\ t.interrupted = r.interrupted /\ t.counted = r.counted /\ t.unfinished = r.unfinished
  BY <1>1 DEF RecType
<1> QED
  BY <1>1, <1>2 DEF SameCore

LEMMA SummaryKeeps ==
  ASSUME NEW r, RecType(r), NEW s, NEW refused
  PROVE  SameCore(r, deferSourceDTDSummary(r, s, refused))
         /\ RecType(deferSourceDTDSummary(r, s, refused))
<1> DEFINE open == {i \in DOMAIN r.summaries : r.summaries[i].check = s[2]}
           k == CHOOSE i \in open : TRUE
<1>1. PICK u : u = [r.summaries EXCEPT ![k].count = @ + 1]
  OBVIOUS
<1>2. PICK v : v = Append(r.summaries, [check |-> s[2], first |-> s, count |-> 1])
  OBVIOUS
<1>3. PICK yes : yes = TRUE
  OBVIOUS
<1>4. deferSourceDTDSummary(r, s, refused) =
        IF open # {} THEN [r EXCEPT !.summaries = u]
        ELSE IF refused THEN [r EXCEPT !.omitted = yes] ELSE [r EXCEPT !.summaries = v]
  BY <1>1, <1>2, <1>3 DEF deferSourceDTDSummary
<1> QED
  BY <1>4, OmittedKeeps, SummariesKeep

\* What recording the outcome o of s, from a complete answer or not, does.
\* Nothing, because the scan was interrupted or s has another decision; or it
\* is the first recording; or a failure is recorded again.
Untold(r, t, s, o) ==
  /\ t.decided = r.decided /\ t.counted = r.counted /\ t.complete = r.complete
  /\ t.unfinished = r.unfinished
  /\ \/ t.interrupted /\ o \in {"unsupported", "blocked"}
     \/ ~t.interrupted /\ r.decided[s] # "none" /\ (r.decided[s] # "fail" \/ o # "fail")
First(r, t, s, o, full) ==
  /\ r.decided[s] = "none"
  /\ t.counted = [r.counted EXCEPT ![s] = Append(@, o)]
  /\ t.unfinished <=> r.unfinished \/ ~full
  /\ IF t.interrupted THEN t.decided = r.decided ELSE t.decided = [r.decided EXCEPT ![s] = o]
  /\ t.complete = IF ~t.interrupted /\ o = "fail" THEN [r.complete EXCEPT ![s] = full] ELSE r.complete
Again(r, t, s, o, full) ==
  /\ r.decided[s] = "fail" /\ o = "fail"
  /\ t.decided = r.decided /\ t.counted = r.counted
  /\ t.unfinished <=> r.unfinished \/ (r.complete[s] /\ ~full)
  /\ t.complete = IF t.interrupted THEN r.complete ELSE [r.complete EXCEPT ![s] = full /\ @]

LEMMA CountIs ==
  ASSUME NEW r, RecType(r), NEW s \in Subjects, NEW a \in Answers
  PROVE  /\ RecType(CountOutcome(r, s, a))
         /\ CountOutcome(r, s, a).at = r.at /\ CountOutcome(r, s, a).decided = r.decided
         /\ CountOutcome(r, s, a).complete = r.complete
         /\ CountOutcome(r, s, a).interrupted = r.interrupted
         /\ CountOutcome(r, s, a).counted =
              IF r.decided[s] = "none" THEN [r.counted EXCEPT ![s] = Append(@, Outcome(s, a))] ELSE r.counted
         /\ CountOutcome(r, s, a).unfinished <=>
              IF r.decided[s] = "none" THEN r.unfinished \/ ~Complete(a)
              ELSE r.unfinished \/ (r.complete[s] /\ ~Complete(a))
<1>1. PICK o : o = Outcome(s, a)
  OBVIOUS
<1>2. PICK full \in BOOLEAN : full = Complete(a)
  BY CompleteIs
<1>3. o \in Outcomes
  BY <1>1, OutcomeKinds
<1>4. PICK t : t = CountOutcome(r, s, a)
  OBVIOUS
<1>5. CASE r.decided[s] = "none"
  <2>1. PICK q : q = [r.counted EXCEPT ![s] = Append(@, o)]
    OBVIOUS
  <2>2. PICK b \in BOOLEAN : b = (r.unfinished \/ ~full)
    OBVIOUS
  <2>3. t = [r EXCEPT !.counted = q, !.unfinished = b]
    BY <1>1, <1>2, <1>4, <1>5, <2>1, <2>2 DEF CountOutcome
  <2>4. q \in [Subjects -> Seq(Outcomes)]
    BY <1>3, <2>1 DEF RecType
  <2>5. /\ RecType(t) /\ t.at = r.at /\ t.decided = r.decided /\ t.complete = r.complete
        /\ t.interrupted = r.interrupted /\ t.counted = q /\ t.unfinished = b
    BY <2>2, <2>3, <2>4 DEF RecType
  <2> QED
    BY <1>1, <1>2, <1>4, <1>5, <2>1, <2>2, <2>5
<1>6. CASE r.decided[s] # "none"
  <2>1. PICK b \in BOOLEAN : b = (r.unfinished \/ (r.complete[s] /\ ~full))
    OBVIOUS
  <2>2. t = [r EXCEPT !.unfinished = b]
    BY <1>2, <1>4, <1>6, <2>1 DEF CountOutcome
  <2>3. /\ RecType(t) /\ t.at = r.at /\ t.decided = r.decided /\ t.complete = r.complete
        /\ t.interrupted = r.interrupted /\ t.counted = r.counted /\ t.unfinished = b
    BY <2>1, <2>2 DEF RecType
  <2> QED
    BY <1>2, <1>4, <1>6, <2>1, <2>3
<1> QED
  BY <1>5, <1>6

LEMMA ReportIs ==
  ASSUME NEW r, RecType(r), NEW s \in Subjects, NEW a \in Answers
  PROVE  RecType(Report(r, s, a)) /\ SameCore(CountOutcome(r, s, a), Report(r, s, a))
<1>1. RecType(CountOutcome(r, s, a))
  BY CountIs
<1> QED
  BY <1>1, StoreKeeps DEF Report, SameCore

LEMMA RetainIs ==
  ASSUME NEW r, RecType(r), NEW s \in Subjects, NEW a \in Answers
  PROVE  /\ RecType(Retain(r, s, a))
         /\ Retain(r, s, a).at = r.at /\ Retain(r, s, a).decided = r.decided
         /\ Retain(r, s, a).counted = CountOutcome(r, s, a).counted
         /\ Retain(r, s, a).unfinished = CountOutcome(r, s, a).unfinished
         /\ Retain(r, s, a).interrupted = r.interrupted
         /\ Retain(r, s, a).complete =
              IF Outcome(s, a) = "fail"
                THEN [r.complete EXCEPT ![s] = Complete(a) /\ (r.decided[s] = "none" \/ @)] ELSE r.complete
<1>1. PICK p : p = Report(r, s, a)
  OBVIOUS
<1>2. /\ RecType(p) /\ p.at = r.at /\ p.decided = r.decided /\ p.complete = r.complete
      /\ p.interrupted = r.interrupted /\ p.counted = CountOutcome(r, s, a).counted
      /\ p.unfinished = CountOutcome(r, s, a).unfinished
  <2>1. PICK k : k = CountOutcome(r, s, a)
    OBVIOUS
  <2>2. RecType(p) /\ SameCore(k, p)
    BY <1>1, <2>1, ReportIs
  <2>3. k.at = r.at /\ k.decided = r.decided /\ k.complete = r.complete /\ k.interrupted = r.interrupted
    BY <2>1, CountIs
  <2> QED
    BY <2>1, <2>2, <2>3 DEF SameCore
<1>3. CASE Outcome(s, a) = "fail"
  <2>1. PICK d : d = [p.details EXCEPT ![s] = Issues(a)]
    OBVIOUS
  <2>2. PICK b \in BOOLEAN : b = (Complete(a) /\ (~(r.decided[s] # "none") \/ p.complete[s]))
    BY CompleteIs
  <2>3. PICK q : q = [p.complete EXCEPT ![s] = b]
    OBVIOUS
  <2>4. Retain(r, s, a) = [p EXCEPT !.details = d, !.complete = q]
    BY <1>1, <1>3, <2>1, <2>2, <2>3 DEF Retain, retainFailure
  <2>5. q \in [Subjects -> BOOLEAN]
    BY <1>2, <2>3 DEF RecType
  <2>6. PICK t : t = [p EXCEPT !.details = d, !.complete = q]
    OBVIOUS
  <2>7. /\ RecType(t) /\ t.at = p.at /\ t.decided = p.decided /\ t.complete = q
        /\ t.interrupted = p.interrupted /\ t.counted = p.counted /\ t.unfinished = p.unfinished
    BY <1>2, <2>5, <2>6 DEF RecType
  <2>8. q = [r.complete EXCEPT ![s] = Complete(a) /\ (r.decided[s] = "none" \/ @)]
    BY <1>2, <2>2, <2>3
  <2> QED
    BY <1>2, <1>3, <2>4, <2>6, <2>7, <2>8
<1>4. CASE Outcome(s, a) # "fail"
  BY <1>1, <1>2, <1>4 DEF Retain
<1> QED
  BY <1>3, <1>4

LEMMA CacheIs ==
  ASSUME NEW r, RecType(r), NEW s \in Subjects, NEW a \in Answers
  PROVE  /\ RecType(Cache(r, s, a))
         /\ Cache(r, s, a).at = r.at /\ Cache(r, s, a).decided = [r.decided EXCEPT ![s] = Outcome(s, a)]
         /\ Cache(r, s, a).counted = CountOutcome(r, s, a).counted
         /\ Cache(r, s, a).unfinished = CountOutcome(r, s, a).unfinished
         /\ Cache(r, s, a).interrupted = r.interrupted
         /\ Cache(r, s, a).complete = Retain(r, s, a).complete
<1>1. PICK p : p = Retain(r, s, a)
  OBVIOUS
<1>2. /\ RecType(p) /\ p.at = r.at /\ p.decided = r.decided
      /\ p.interrupted = r.interrupted /\ p.counted = CountOutcome(r, s, a).counted
      /\ p.unfinished = CountOutcome(r, s, a).unfinished
  BY <1>1, RetainIs
<1>3. PICK q : q = [r.decided EXCEPT ![s] = Outcome(s, a)]
  OBVIOUS
<1>4. q \in [Subjects -> Outcomes \cup {"none"}]
  BY <1>2, <1>3, OutcomeKinds DEF RecType
<1>5. PICK t : t = [p EXCEPT !.decided = q]
  OBVIOUS
<1>6. t = Cache(r, s, a)
  BY <1>1, <1>2, <1>3, <1>5 DEF Cache
<1>7. /\ RecType(t) /\ t.at = p.at /\ t.decided = q /\ t.complete = p.complete
      /\ t.interrupted = p.interrupted /\ t.counted = p.counted /\ t.unfinished = p.unfinished
  BY <1>2, <1>4, <1>5 DEF RecType
<1> QED
  BY <1>1, <1>2, <1>3, <1>6, <1>7

LEMMA RecordKinds ==
  ASSUME NEW r, RecType(r), ~r.interrupted, NEW s \in Subjects, NEW a \in Answers, NEW stop,
         NEW t, t = recordXSDResult(r, s, a, stop)
  PROVE  /\ RecType(t) /\ t.at = r.at
         /\ \/ Untold(r, t, s, Outcome(s, a))
            \/ First(r, t, s, Outcome(s, a), Complete(a))
            \/ Again(r, t, s, Outcome(s, a), Complete(a))
<1> DEFINE done == r.decided[s] # "none"
           o == Outcome(s, a)
<1>1. PICK refused : refused = (stop = "summary")
  OBVIOUS
<1>2. PICK x : x = (Interrupted(Report(r, s, a)).omitted \/ DefersDTD(r, s, a))
  OBVIOUS
<1>3. t = IF stop = "scan" /\ Unresolved(o) THEN Interrupted(r)
          ELSE IF done /\ (r.decided[s] # "fail" \/ o # "fail") THEN r
          ELSE IF stop = "details" /\ Stores(r, s, a) THEN Interrupted(CountOutcome(r, s, a))
          ELSE IF stop = "retain" THEN [Interrupted(Report(r, s, a)) EXCEPT !.omitted = x]
          ELSE IF done THEN Retain(r, s, a)
          ELSE IF DefersDTD(r, s, a) THEN deferSourceDTDSummary(Cache(r, s, a), s, refused)
          ELSE Cache(r, s, a)
  BY <1>1, <1>2 DEF recordXSDResult
<1>4. o \in Outcomes /\ (Unresolved(o) => o \in {"unsupported", "blocked"})
  BY OutcomeKinds DEF Unresolved
<1>5. r.decided[s] \in Outcomes \cup {"none"} /\ r.interrupted = FALSE
  BY DEF RecType
<1> HIDE DEF o
<1>6. CASE stop = "scan" /\ Unresolved(o)
  BY <1>3, <1>4, <1>6, InterruptedIs DEF Untold, o
<1>7. CASE ~(stop = "scan" /\ Unresolved(o)) /\ done /\ (r.decided[s] # "fail" \/ o # "fail")
  BY <1>3, <1>7 DEF Untold, o
<1>8. ASSUME ~(stop = "scan" /\ Unresolved(o)), ~(done /\ (r.decided[s] # "fail" \/ o # "fail"))
      PROVE  /\ RecType(t) /\ t.at = r.at
             /\ First(r, t, s, o, Complete(a)) \/ Again(r, t, s, o, Complete(a))
  <2>1. PICK k : k = CountOutcome(r, s, a)
    OBVIOUS
  <2>2. /\ RecType(k) /\ k.at = r.at /\ k.decided = r.decided /\ k.complete = r.complete
        /\ k.counted = IF done THEN r.counted ELSE [r.counted EXCEPT ![s] = Append(@, o)]
        /\ k.unfinished <=> IF done THEN r.unfinished \/ (r.complete[s] /\ ~Complete(a))
                            ELSE r.unfinished \/ ~Complete(a)
    BY <2>1, CountIs DEF o
  <2>3. CASE t.interrupted /\ RecType(t) /\ t.at = r.at /\ t.decided = r.decided
             /\ t.complete = r.complete /\ t.counted = k.counted /\ t.unfinished = k.unfinished
    BY <1>8, <2>2, <2>3 DEF First, Again
  <2>4. CASE stop = "details" /\ Stores(r, s, a)
    <3>1. t = Interrupted(k)
      BY <1>3, <1>8, <2>1, <2>4
    <3> QED
      BY <2>2, <2>3, <3>1, InterruptedIs
  <2>5. CASE ~(stop = "details" /\ Stores(r, s, a)) /\ stop = "retain"
    <3>1. PICK p : p = Report(r, s, a)
      OBVIOUS
    <3>2. RecType(p) /\ SameCore(k, p)
      BY <2>1, <3>1, ReportIs
    <3>3. PICK q : q = Interrupted(p)
      OBVIOUS
    <3>4. /\ RecType(q) /\ q.interrupted /\ q.at = p.at /\ q.decided = p.decided
          /\ q.counted = p.counted /\ q.complete = p.complete /\ q.unfinished = p.unfinished
      BY <3>2, <3>3, InterruptedIs
    <3>5. t = [q EXCEPT !.omitted = x]
      BY <1>3, <1>8, <2>5, <3>1, <3>3
    <3>6. RecType(t) /\ SameCore(q, t)
      BY <3>4, <3>5, OmittedKeeps
    <3> QED
      BY <2>2, <2>3, <3>2, <3>4, <3>6 DEF SameCore
  <2>6. CASE ~(stop = "details" /\ Stores(r, s, a)) /\ stop # "retain" /\ done
    <3>1. t = Retain(r, s, a)
      BY <1>3, <1>8, <2>6
    <3>2. /\ RecType(t) /\ t.at = r.at /\ t.decided = r.decided /\ t.counted = k.counted
          /\ t.unfinished = k.unfinished /\ t.interrupted = r.interrupted
          /\ t.complete = [r.complete EXCEPT ![s] = Complete(a) /\ (r.decided[s] = "none" \/ @)]
      BY <1>8, <2>1, <2>6, <3>1, RetainIs DEF o
    <3>3. t.complete = [r.complete EXCEPT ![s] = Complete(a) /\ @]
      BY <2>6, <3>2 DEF RecType
    <3> QED
      BY <1>5, <1>8, <2>2, <2>6, <3>2, <3>3 DEF Again
  <2>7. CASE ~(stop = "details" /\ Stores(r, s, a)) /\ stop # "retain" /\ ~done
    <3>1. PICK c : c = Cache(r, s, a)
      OBVIOUS
    <3>2. /\ RecType(c) /\ c.at = r.at /\ c.decided = [r.decided EXCEPT ![s] = o] /\ c.counted = k.counted
          /\ c.unfinished = k.unfinished /\ c.interrupted = r.interrupted
          /\ c.complete = Retain(r, s, a).complete
      BY <2>1, <3>1, CacheIs DEF o
    <3>3. RecType(t) /\ SameCore(c, t)
      BY <1>3, <1>8, <2>7, <3>1, <3>2, SummaryKeeps DEF SameCore
    <3>4. Retain(r, s, a).complete = IF o = "fail" THEN [r.complete EXCEPT ![s] = Complete(a)] ELSE r.complete
      <4>1. CASE o = "fail"
        <5>1. Retain(r, s, a).complete = [r.complete EXCEPT ![s] = Complete(a) /\ (r.decided[s] = "none" \/ @)]
          BY <4>1, RetainIs DEF o
        <5>2. Complete(a) \in BOOLEAN
          BY DEF Complete
        <5> QED
          BY <2>7, <4>1, <5>1, <5>2 DEF RecType
      <4>2. CASE o # "fail"
        BY <4>2, RetainIs DEF o
      <4> QED
        BY <4>1, <4>2
    <3> QED
      BY <1>5, <2>2, <2>7, <3>2, <3>3, <3>4 DEF First, SameCore
  <2> QED
    BY <2>4, <2>5, <2>6, <2>7
<1> QED
  BY <1>6, <1>7, <1>8 DEF o

\* The books stay in order: what is counted is what is decided.
LEMMA BookKept ==
  ASSUME NEW r, Book(r), ~r.interrupted, NEW s \in Subjects, NEW a \in Answers, NEW stop,
         NEW t, t = recordXSDResult(r, s, a, stop)
  PROVE  Book(t)
<1>1. PICK o : o = Outcome(s, a)
  OBVIOUS
<1>2. PICK full \in BOOLEAN : full = Complete(a)
  BY CompleteIs
<1>3. RecType(t) /\ (Untold(r, t, s, o) \/ First(r, t, s, o, full) \/ Again(r, t, s, o, full))
  BY <1>1, <1>2, RecordKinds DEF Book
<1>4. o \in Outcomes
  BY <1>1, OutcomeKinds
<1>5. /\ r.counted \in [Subjects -> Seq(Outcomes)] /\ r.decided \in [Subjects -> Outcomes \cup {"none"}]
      /\ \A u \in Subjects : r.decided[u] # "none" => r.counted[u] = <<r.decided[u]>>
      /\ \A u \in Subjects : r.decided[u] = "none" => r.counted[u] = <<>>
  BY DEF Book, CountedOK, RecType
<1>6. CASE t.decided = r.decided /\ t.counted = r.counted
  BY <1>3, <1>5, <1>6 DEF Book, CountedOK
<1>7. CASE First(r, t, s, o, full)
  <2>1. /\ t.counted = [r.counted EXCEPT ![s] = Append(@, o)] /\ r.counted[s] = <<>>
        /\ IF t.interrupted THEN t.decided = r.decided ELSE t.decided = [r.decided EXCEPT ![s] = o]
        /\ r.decided[s] = "none"
    BY <1>5, <1>7 DEF First
  <2>2. t.counted[s] = <<o>> /\ \A u \in Subjects \ {s} : t.counted[u] = r.counted[u]
    BY <1>5, <2>1
  <2>3. \A u \in Subjects \ {s} : t.decided[u] = r.decided[u]
    BY <1>5, <2>1
  <2>4. o # "none" /\ t.decided[s] = IF t.interrupted THEN "none" ELSE o
    BY <1>4, <1>5, <2>1 DEF Outcomes
  <2> QED
    BY <1>3, <1>4, <1>5, <2>2, <2>3, <2>4 DEF Book, CountedOK
<1> QED
  BY <1>3, <1>6, <1>7 DEF Untold, Again

\* From r to t, while r ran, the failures of F in the answers ans were recorded.
Progress(r, t, F, ans) ==
  /\ Book(t) /\ t.at = r.at
  /\ \A u \in Subjects \ F : /\ t.decided[u] = r.decided[u] /\ t.counted[u] = r.counted[u]
                             /\ t.complete[u] = r.complete[u]
  /\ \A u \in Subjects : Failed(r, u) => Failed(t, u)
  /\ \A u \in F : t.decided[u] \in {"none", "fail"}
  /\ r.unfinished => t.unfinished
  /\ t.interrupted \/ F # {} => \E u \in Subjects : Failed(t, u)
  /\ ~t.interrupted => \A u \in F : t.decided[u] = "fail"
  /\ ~t.interrupted /\ ~t.unfinished => \A u \in F : Complete(ans[u]) /\ t.complete[u]

\* What must be known of a failure before it is recorded.
Ready(r, s) == r.decided[s] \in {"none", "fail"} /\ (~r.unfinished /\ r.decided[s] = "fail" => r.complete[s])

LEMMA NoProgress ==
  ASSUME NEW r, Book(r), ~r.interrupted, NEW ans
  PROVE  Progress(r, r, {}, ans)
BY DEF Progress

\* One failure is recorded.
LEMMA OneFailure ==
  ASSUME NEW t, Book(t), ~t.interrupted, NEW s \in Subjects, NEW a \in Answers, ~Valid(a), NEW stop,
         Ready(t, s), NEW w, w = recordXSDResult(t, s, a, stop)
  PROVE  /\ Book(w) /\ w.at = t.at /\ Failed(w, s) /\ w.decided[s] \in {"none", "fail"}
         /\ \A u \in Subjects \ {s} : /\ w.decided[u] = t.decided[u] /\ w.counted[u] = t.counted[u]
                                      /\ w.complete[u] = t.complete[u]
         /\ t.unfinished => w.unfinished
         /\ ~w.interrupted => w.decided[s] = "fail"
         /\ ~w.interrupted /\ ~w.unfinished => Complete(a) /\ w.complete[s]
<1>1. PICK full \in BOOLEAN : full = Complete(a)
  BY CompleteIs
<1>2. PICK o : o = Outcome(s, a)
  OBVIOUS
<1>3. o = "fail"
  BY <1>2, OutcomeKinds
<1>4. Book(w) /\ w.at = t.at
      /\ (Untold(t, w, s, o) \/ First(t, w, s, o, full) \/ Again(t, w, s, o, full))
  BY <1>1, <1>2, RecordKinds, BookKept DEF Book
<1>5. ~Untold(t, w, s, o)
  BY <1>3 DEF Untold, Ready
<1>6. /\ t.counted \in [Subjects -> Seq(Outcomes)] /\ t.decided \in [Subjects -> Outcomes \cup {"none"}]
      /\ t.complete \in [Subjects -> BOOLEAN] /\ t.unfinished \in BOOLEAN
      /\ t.decided[s] = "none" => t.counted[s] = <<>>
      /\ t.decided[s] = "fail" => t.counted[s] = <<"fail">>
  BY DEF Book, CountedOK, RecType
<1>7. CASE First(t, w, s, o, full)
  <2>1. /\ w.counted = [t.counted EXCEPT ![s] = Append(@, "fail")] /\ t.decided[s] = "none"
        /\ w.unfinished <=> t.unfinished \/ ~full
        /\ IF w.interrupted THEN w.decided = t.decided ELSE w.decided = [t.decided EXCEPT ![s] = "fail"]
        /\ w.complete = IF ~w.interrupted THEN [t.complete EXCEPT ![s] = full] ELSE t.complete
    BY <1>3, <1>7 DEF First
  <2>2. w.counted[s] = <<"fail">> /\ \A u \in Subjects \ {s} : w.counted[u] = t.counted[u]
    <3>1. t.counted[s] = <<>>
      BY <1>6, <2>1
    <3>2. w.counted[s] = Append(t.counted[s], "fail") /\ \A u \in Subjects \ {s} : w.counted[u] = t.counted[u]
      BY <1>6, <2>1
    <3> QED
      BY <3>1, <3>2
  <2>3. \A u \in Subjects \ {s} : w.decided[u] = t.decided[u] /\ w.complete[u] = t.complete[u]
    BY <1>6, <2>1
  <2>4. /\ ~w.interrupted => w.decided[s] = "fail" /\ w.complete[s] = full
        /\ w.decided[s] \in {"none", "fail"}
    BY <1>6, <2>1
  <2> QED
    BY <1>1, <1>4, <2>1, <2>2, <2>3, <2>4 DEF Failed
<1>8. CASE Again(t, w, s, o, full)
  <2>1. /\ t.decided[s] = "fail" /\ w.decided = t.decided /\ w.counted = t.counted
        /\ w.unfinished <=> t.unfinished \/ (t.complete[s] /\ ~full)
        /\ w.complete = IF w.interrupted THEN t.complete ELSE [t.complete EXCEPT ![s] = full /\ @]
    BY <1>8 DEF Again
  <2>2. \A u \in Subjects \ {s} : w.complete[u] = t.complete[u]
    BY <1>6, <2>1
  <2>3. ~w.interrupted => (w.complete[s] <=> full /\ t.complete[s])
    BY <1>6, <2>1
  <2>4. ~t.unfinished => t.complete[s]
    BY <2>1 DEF Ready
  <2> QED
    BY <1>1, <1>4, <1>6, <2>1, <2>2, <2>3, <2>4 DEF Failed
<1> QED
  BY <1>4, <1>5, <1>7, <1>8

\* ... after others.
LEMMA MoreProgress ==
  ASSUME NEW r, NEW F \in SUBSET Subjects, NEW ans, NEW t, Progress(r, t, F, ans),
         NEW s \in Subjects, s \notin F,
         ans[s] \in Answers, ~Valid(ans[s]), Ready(r, s), NEW stop,
         NEW w, w = recordXSDResult(t, s, ans[s], stop)
  PROVE  Progress(r, w, F \cup {s}, ans)
<1>1. CASE t.interrupted
  <2>1. w = t
    BY <1>1 DEF recordXSDResult
  <2>2. t.decided[s] \in {"none", "fail"}
    BY DEF Progress, Ready
  <2> QED
    BY <1>1, <2>1, <2>2 DEF Progress
<1>2. CASE ~t.interrupted
  <2>1. /\ t.decided[s] = r.decided[s] /\ t.complete[s] = r.complete[s] /\ Book(t)
        /\ r.unfinished => t.unfinished
    BY DEF Progress
  <2>2. Ready(t, s)
    BY <2>1 DEF Ready
  <2>3. /\ Book(w) /\ w.at = t.at /\ Failed(w, s) /\ w.decided[s] \in {"none", "fail"}
        /\ \A u \in Subjects \ {s} : /\ w.decided[u] = t.decided[u] /\ w.counted[u] = t.counted[u]
                                     /\ w.complete[u] = t.complete[u]
        /\ t.unfinished => w.unfinished
        /\ ~w.interrupted => w.decided[s] = "fail"
        /\ ~w.interrupted /\ ~w.unfinished => Complete(ans[s]) /\ w.complete[s]
    BY <1>2, <2>1, <2>2, OneFailure
  <2>4. \A u \in F : /\ w.decided[u] = t.decided[u] /\ w.complete[u] = t.complete[u]
    BY <2>3
  <2>5. \A u \in Subjects : Failed(r, u) => Failed(w, u)
    BY <2>3 DEF Progress, Failed
  <2>6. \A u \in Subjects \ (F \cup {s}) :
          w.decided[u] = r.decided[u] /\ w.counted[u] = r.counted[u] /\ w.complete[u] = r.complete[u]
    BY <2>3 DEF Progress
  <2>7. ~w.interrupted => \A u \in F \cup {s} : w.decided[u] = "fail"
    BY <1>2, <2>3, <2>4 DEF Progress
  <2>8. ~w.interrupted /\ ~w.unfinished => \A u \in F \cup {s} : Complete(ans[u]) /\ w.complete[u]
    BY <1>2, <2>3, <2>4 DEF Progress
  <2>9. \A u \in F \cup {s} : w.decided[u] \in {"none", "fail"}
    BY <2>3, <2>4 DEF Progress
  <2>10. w.at = r.at
    BY <2>3 DEF Progress
  <2> QED
    BY <2>1, <2>3, <2>5, <2>6, <2>7, <2>8, <2>9, <2>10 DEF Progress
<1> QED
  BY <1>1, <1>2

-----------------------------------------------------------------------------
(* The failures of a node                                                   *)

\* Moving to a position, and being stopped, change nothing else.
LEMMA MovedIs ==
  ASSUME NEW r, Book(r), NEW p
  PROVE  /\ Book(MoveTo(r, p)) /\ MoveTo(r, p).at = p
         /\ MoveTo(r, p).decided = r.decided /\ MoveTo(r, p).counted = r.counted
         /\ MoveTo(r, p).complete = r.complete /\ MoveTo(r, p).unfinished = r.unfinished
         /\ MoveTo(r, p).interrupted = r.interrupted
<1>1. PICK t : t = [r EXCEPT !.at = p]
  OBVIOUS
<1>2. /\ RecType(t) /\ t.at = p /\ t.decided = r.decided /\ t.complete = r.complete
      /\ t.interrupted = r.interrupted /\ t.counted = r.counted /\ t.unfinished = r.unfinished
  BY <1>1 DEF Book, RecType
<1>3. CountedOK(t)
  BY <1>2 DEF Book, CountedOK
<1>4. t = MoveTo(r, p)
  BY <1>1 DEF MoveTo
<1> QED
  BY <1>2, <1>3, <1>4 DEF Book

LEMMA StoppedIs ==
  ASSUME NEW r, Book(r), NEW error \in BOOLEAN
  PROVE  /\ Book(InterruptedIf(r, error)) /\ InterruptedIf(r, error).at = r.at
         /\ InterruptedIf(r, error).decided = r.decided /\ InterruptedIf(r, error).counted = r.counted
         /\ InterruptedIf(r, error).complete = r.complete
         /\ InterruptedIf(r, error).unfinished = r.unfinished
         /\ InterruptedIf(r, error).interrupted <=> r.interrupted \/ error
<1>1. PICK b \in BOOLEAN : b = (r.interrupted \/ error)
  OBVIOUS
<1>2. PICK t : t = [r EXCEPT !.interrupted = b]
  OBVIOUS
<1>3. /\ RecType(t) /\ t.at = r.at /\ t.decided = r.decided /\ t.complete = r.complete
      /\ t.interrupted = b /\ t.counted = r.counted /\ t.unfinished = r.unfinished
  BY <1>2 DEF Book, RecType
<1>4. CountedOK(t)
  BY <1>1, <1>3 DEF Book, CountedOK
<1>5. t = InterruptedIf(r, error)
  BY <1>1, <1>2 DEF InterruptedIf
<1> QED
  BY <1>1, <1>3, <1>4, <1>5 DEF Book

\* One check of a node, if it failed.
LEMMA ProvedOne ==
  ASSUME NEW r, NEW F \in SUBSET Subjects, NEW ans, NEW t, Progress(r, t, F, ans), NEW s \in Subjects,
         s \notin F, ans[s] \in Answers, Ready(r, s), NEW stop,
         NEW w, w = IF Valid(ans[s]) THEN t ELSE recordXSDResult(t, s, ans[s], stop)
  PROVE  Progress(r, w, F \cup {u \in {s} : ~Valid(ans[u])}, ans)
<1>1. CASE Valid(ans[s])
  <2>1. F \cup {u \in {s} : ~Valid(ans[u])} = F
    BY <1>1
  <2> QED
    BY <1>1, <2>1
<1>2. CASE ~Valid(ans[s])
  <2>1. F \cup {u \in {s} : ~Valid(ans[u])} = F \cup {s}
    BY <1>2
  <2> QED
    BY <1>2, <2>1, MoreProgress
<1> QED
  BY <1>1, <1>2

\* The subjects of a node, and those whose answer fails.
Own(n) == {<<n, "scalar">>, <<n, "content">>, <<n, "representable">>}
Failing(n, ans) == {u \in Own(n) : ~Valid(ans[u])}

LEMMA ProvedFailures ==
  ASSUME NEW r, Book(r), ~r.interrupted, NEW n \in Nodes, NEW ans \in [Subjects -> Answers],
         \A u \in Own(n) : Ready(r, u), NEW stop, NEW t, t = recordXSDProvedFailures(r, n, ans, stop)
  PROVE  Progress(MoveTo(r, <<1, 0, n>>), t, Failing(n, ans), ans)
<1> DEFINE s1 == <<n, "scalar">>
           s2 == <<n, "content">>
           s3 == <<n, "representable">>
           Where(c) == IF stop.check = c THEN stop.where ELSE "never"
           F1 == {u \in {s1} : ~Valid(ans[u])}
           F2 == F1 \cup {u \in {s2} : ~Valid(ans[u])}
           F3 == F2 \cup {u \in {s3} : ~Valid(ans[u])}
<1>1. PICK r0 : r0 = MoveTo(r, <<1, 0, n>>)
  OBVIOUS
<1>2. PICK w1 : w1 = Where("scalar")
  OBVIOUS
<1>3. PICK w2 : w2 = Where("content")
  OBVIOUS
<1>4. PICK w3 : w3 = Where("representable")
  OBVIOUS
<1>5. PICK t1 : t1 = IF Valid(ans[s1]) THEN r0 ELSE recordXSDResult(r0, s1, ans[s1], w1)
  OBVIOUS
<1>6. PICK t2 : t2 = IF Valid(ans[s2]) THEN t1 ELSE recordXSDResult(t1, s2, ans[s2], w2)
  OBVIOUS
<1>7. PICK t3 : t3 = IF Valid(ans[s3]) THEN t2 ELSE recordXSDResult(t2, s3, ans[s3], w3)
  OBVIOUS
<1>8. t = t3
  BY <1>1, <1>2, <1>3, <1>4, <1>5, <1>6, <1>7 DEF recordXSDProvedFailures
<1>9. /\ s1 \in Subjects /\ s2 \in Subjects /\ s3 \in Subjects
      /\ ans[s1] \in Answers /\ ans[s2] \in Answers /\ ans[s3] \in Answers
      /\ s1 # s2 /\ s1 # s3 /\ s2 # s3
  BY NodeSubject
<1>10. Book(r0) /\ ~r0.interrupted /\ Ready(r0, s1) /\ Ready(r0, s2) /\ Ready(r0, s3)
  <2>1. /\ Book(r0) /\ r0.decided = r.decided /\ r0.complete = r.complete /\ r0.unfinished = r.unfinished
        /\ r0.interrupted = r.interrupted
    BY <1>1, MovedIs
  <2>2. Ready(r, s1) /\ Ready(r, s2) /\ Ready(r, s3)
    BY DEF Own
  <2> QED
    BY <2>1, <2>2 DEF Ready
<1> HIDE DEF s1, s2, s3
<1>11. Progress(r0, r0, {}, ans)
  BY <1>10, NoProgress
<1>12. F1 \subseteq Subjects /\ F2 \subseteq Subjects /\ s2 \notin F1 /\ s3 \notin F2
       /\ {} \cup {u \in {s1} : ~Valid(ans[u])} = F1
  BY <1>9
<1>13. Progress(r0, t1, {} \cup {u \in {s1} : ~Valid(ans[u])}, ans)
  BY <1>5, <1>9, <1>10, <1>11, ProvedOne
<1>14. Progress(r0, t1, F1, ans)
  BY <1>12, <1>13
<1> HIDE DEF F1
<1>15. Progress(r0, t2, F2, ans)
  BY <1>6, <1>9, <1>10, <1>12, <1>14, ProvedOne
<1> HIDE DEF F2
<1>16. Progress(r0, t3, F3, ans)
  BY <1>7, <1>9, <1>10, <1>12, <1>15, ProvedOne
<1>17. F3 = Failing(n, ans)
  BY DEF Failing, Own, F1, F2, s1, s2, s3
<1> QED
  BY <1>1, <1>8, <1>16, <1>17

\* In a sound book the failures are ready to be recorded again.
LEMMA SoundIsReady ==
  ASSUME NEW r, NEW res, Sound(r, res), \A s \in Subjects : r.decided[s] \in {"none", "fail"},
         NEW s \in Subjects
  PROVE  Ready(r, s)
BY DEF Sound, Ready

\* The second thing a step keeps: a violation leaves a failure in the verdict.
Counts(r, res) == (\E s \in Subjects : ~Valid(res[s])) => \E s \in Subjects : Failed(r, s)

LEMMA SoundCounts ==
  ASSUME NEW r, NEW res, Book(r), Sound(r, res)
  PROVE  Counts(r, res)
<1> SUFFICES ASSUME NEW s \in Subjects, ~Valid(res[s]) PROVE Failed(r, s)
  BY DEF Counts
<1>1. r.decided[s] = "fail"
  BY DEF Sound
<1> QED
  BY <1>1 DEF Book, CountedOK, Failed

\* Only failures have been decided.
OnlyFailures(r) == \A s \in Subjects : r.decided[s] \in {"none", "fail"}

\* The answers for a node changed from res to ans, no failure among them
\* was taken back, and its failures were recorded.
LEMMA NodeRecorded ==
  ASSUME NEW r, Book(r), ~r.interrupted, r.at[1] = 1, OnlyFailures(r), NEW n \in Nodes,
         NEW res, Sound(r, res), NEW ans \in [Subjects -> Answers],
         \A u \in Subjects \ Own(n) : ans[u] = res[u],
         \A u \in Subjects : ~Valid(res[u]) => ~Valid(ans[u]),
         NEW stop, NEW error \in BOOLEAN,
         NEW t, t = InterruptedIf(recordXSDProvedFailures(r, n, ans, stop), error)
  PROVE  /\ Book(t) /\ t.at = <<1, 0, n>> /\ OnlyFailures(t)
         /\ ~t.interrupted => Sound(t, ans)
         /\ Counts(t, ans)
         /\ \A u \in Subjects \ Own(n) : t.decided[u] = r.decided[u]
<1> DEFINE F == Failing(n, ans)
<1>1. PICK r0 : r0 = MoveTo(r, <<1, 0, n>>)
  OBVIOUS
<1>2. /\ Book(r0) /\ r0.at = <<1, 0, n>> /\ r0.decided = r.decided /\ r0.counted = r.counted
      /\ r0.complete = r.complete /\ r0.unfinished = r.unfinished /\ r0.interrupted = r.interrupted
  BY <1>1, MovedIs
<1>3. PICK p : p = recordXSDProvedFailures(r, n, ans, stop)
  OBVIOUS
<1>4. Own(n) \subseteq Subjects /\ IdentitySubject \notin Own(n) /\ F \subseteq Own(n)
  BY NodeSubject DEF Own, Failing
<1>5. \A u \in Own(n) : Ready(r, u)
  BY <1>4, SoundIsReady DEF OnlyFailures
<1>6. Progress(r0, p, F, ans)
  BY <1>1, <1>3, <1>5, ProvedFailures
<1>7. Book(p) /\ p.at = <<1, 0, n>>
  BY <1>2, <1>6 DEF Progress
<1>8. /\ Book(t) /\ t.at = p.at /\ t.decided = p.decided /\ t.counted = p.counted
      /\ t.complete = p.complete /\ t.unfinished = p.unfinished
      /\ t.interrupted <=> p.interrupted \/ error
  BY <1>3, <1>7, StoppedIs
<1>9. \A u \in Subjects \ F : t.decided[u] = r.decided[u] /\ t.counted[u] = r.counted[u]
                              /\ t.complete[u] = r.complete[u]
  BY <1>2, <1>6, <1>8 DEF Progress
<1>10. OnlyFailures(t)
  <2>1. \A u \in F : t.decided[u] \in {"none", "fail"}
    BY <1>6, <1>8 DEF Progress
  <2> QED
    BY <1>9, <2>1 DEF OnlyFailures
<1>11. ASSUME ~t.interrupted PROVE Sound(t, ans)
  <2>1. /\ ~p.interrupted /\ \A u \in F : t.decided[u] = "fail"
        /\ ~t.unfinished => ~r.unfinished /\ \A u \in F : Complete(ans[u]) /\ t.complete[u]
    BY <1>2, <1>6, <1>8, <1>11 DEF Progress
  <2>2. ASSUME NEW s \in Subjects PROVE t.decided[s] = "fail" <=> ~Valid(ans[s])
    <3>1. CASE s \in F
      BY <2>1, <3>1 DEF Failing
    <3>2. CASE s \notin F
      <4>1. t.decided[s] = r.decided[s] /\ (r.decided[s] = "fail" <=> ~Valid(res[s]))
        BY <1>9, <3>2 DEF Sound
      <4>2. s \in Own(n) => Valid(ans[s])
        BY <3>2 DEF Failing
      <4> QED
        BY <4>1, <4>2
    <3> QED
      BY <3>1, <3>2
  <2>3. ASSUME ~t.unfinished, NEW s \in Subjects, t.decided[s] = "fail"
        PROVE  t.complete[s] /\ (s # IdentitySubject \/ t.at[1] # 1 => Complete(ans[s]))
    <3>1. CASE s \in F
      BY <2>1, <2>3, <3>1
    <3>2. CASE s \notin F
      <4>1. /\ r.decided[s] = "fail" /\ t.complete[s] = r.complete[s] /\ ~r.unfinished
        BY <1>9, <2>1, <2>3, <3>2
      <4>2. r.complete[s] /\ (s # IdentitySubject => Complete(res[s]))
        BY <4>1 DEF Sound
      <4>3. s \notin Own(n)
        BY <2>2, <2>3, <3>2 DEF Failing
      <4>4. t.at[1] = 1
        BY <1>7, <1>8
      <4> QED
        BY <4>1, <4>2, <4>3, <4>4
    <3> QED
      BY <3>1, <3>2
  <2>4. \A s \in Subjects : t.decided[s] \notin {"pass", "not-applicable"}
    BY <1>10 DEF OnlyFailures
  <2> QED
    BY <2>2, <2>3, <2>4 DEF Sound
<1>12. Counts(t, ans)
  <2> SUFFICES ASSUME NEW s \in Subjects, ~Valid(ans[s]) PROVE \E u \in Subjects : Failed(t, u)
    BY DEF Counts
  <2>1. CASE F # {}
    BY <1>6, <1>8, <2>1 DEF Progress, Failed
  <2>2. CASE F = {}
    <3>1. ~Valid(res[s])
      BY <2>2 DEF Failing
    <3>2. \E u \in Subjects : Failed(r, u)
      BY <3>1, SoundCounts DEF Counts
    <3> QED
      BY <1>2, <1>6, <1>8, <3>2 DEF Progress, Failed
  <2> QED
    BY <2>1, <2>2
<1> QED
  BY <1>4, <1>7, <1>8, <1>9, <1>10, <1>11, <1>12

-----------------------------------------------------------------------------
(* The traversal                                                            *)

\* What holds while the schema is bound.
LEMMA WhileBinding ==
  ASSUME SchemaInv, stage = "binding", Running
  PROVE  /\ Book(rec) /\ ~rec.interrupted /\ rec.at[1] = 1 /\ Sound(rec, result)
         /\ BindingOK /\ FramesOK /\ OnlyFailures(rec)
         /\ frames \in Seq(Frame)
         /\ bound \in [Nodes -> Bindings] /\ result \in [Subjects -> Answers]
BY DEF SchemaInv, StageOK, BindingOK, OnlyFailures, Running

\* A step of the traversal keeps the invariant when it keeps its parts.
LEMMA TraversalStep ==
  ASSUME SchemaInv, stage = "binding", UNCHANGED <<stage, closes, cursor>>,
         frames' \in Seq(Frame),
         bound' \in [Nodes -> Bindings], result' \in [Subjects -> Answers],
         Book(rec'), Counts(rec', result'),
         ~rec.interrupted' => rec.at[1]' = 1 /\ Sound(rec', result') /\ BindingOK'
  PROVE  SchemaInv'
<1>1. ~rec.interrupted' => StageOK'
  <2> SUFFICES ASSUME ~rec.interrupted' PROVE StageOK'
    OBVIOUS
  <2>1. BindingOK' /\ rec.at[1]' = 1 /\ stage' = "binding"
    OBVIOUS
  <2>2. rec.decided[IdentitySubject]' \in {"none", "fail"}
    BY <2>1, SubjectsAre DEF BindingOK
  <2> QED
    BY <2>1, <2>2 DEF StageOK
<1> QED
  BY <1>1 DEF SchemaInv, Running, Counts, Book

\* The children of a node that was not reached were not reached.
LEMMA ChildrenUnbound ==
  ASSUME BindingOK, NEW n \in Nodes, bound[n] # "bound", NEW m \in Children(n)
  PROVE  m \in Nodes /\ m # n /\ m # Root /\ Parent[m] = n /\ bound[m] = "none"
<1>1. m \in Nodes /\ Parent[m] = n
  BY DEF Children
<1>2. m # Root
  BY <1>1, SubjectsAre, DocumentAssumption
<1>3. Parent[m] \in 1..(m - 1) /\ m \in Nat
  BY <1>1, <1>2, SubjectsAre, DocumentAssumption
<1> QED
  BY <1>1, <1>2, <1>3 DEF BindingOK

\* The node that is entered.
LEMMA EnteredIs ==
  ASSUME BindingOK, frames \in Seq(Frame), NEW n \in Entered
  PROVE  /\ n \in Nodes /\ bound[n] = "none"
         /\ frames = <<>> => n = Root
         /\ frames # <<>> => Len(frames) \in DOMAIN frames /\ n \in frames[Len(frames)].rest
<1>1. CASE frames = <<>>
  BY <1>1, SubjectsAre DEF Entered
<1>2. CASE frames # <<>>
  <2>1. Len(frames) \in DOMAIN frames /\ n \in frames[Len(frames)].rest
    BY <1>2 DEF Entered
  <2>2. bound[n] = "none" /\ n \in Children(frames[Len(frames)].node)
    BY <2>1 DEF BindingOK, FramesOK
  <2> QED
    BY <1>2, <2>1, <2>2 DEF Children
<1> QED
  BY <1>1, <1>2

\* The stack without the entered node.
Without(n) == IF frames = <<>> THEN frames ELSE [frames EXCEPT ![Len(frames)].rest = @ \ {n}]

LEMMA Waiting ==
  ASSUME BindingOK, frames \in Seq(Frame), NEW n \in Entered,
         NEW base, base = Without(n)
  PROVE  /\ base \in Seq(Frame) /\ Len(base) = Len(frames)
         /\ DOMAIN base = DOMAIN frames
         /\ \A i \in DOMAIN base : /\ base[i].node = frames[i].node /\ base[i].rest \subseteq frames[i].rest
                                   /\ n \notin base[i].rest
<1>1. CASE frames = <<>>
  BY <1>1 DEF Without
<1>2. CASE frames # <<>>
  <2>8. PICK k : k = Len(frames)
    OBVIOUS
  <2>1. k \in DOMAIN frames /\ n \in frames[k].rest /\ DOMAIN frames = 1..Len(frames)
    BY <1>2, <2>8, EnteredIs
  <2>2. PICK f : f = [frames[k] EXCEPT !.rest = @ \ {n}]
    OBVIOUS
  <2>3. frames[k] \in Frame
    BY <2>1
  <2>4. f \in Frame /\ f.node = frames[k].node /\ f.rest = frames[k].rest \ {n}
    BY <2>2, <2>3 DEF Frame
  <2>5. base = [frames EXCEPT ![k] = f]
    BY <1>2, <2>2, <2>8 DEF Without
  <2>6. base \in Seq(Frame) /\ Len(base) = Len(frames) /\ DOMAIN base = DOMAIN frames
    <3>1. frames \in [1..Len(frames) -> Frame] /\ Len(frames) \in Nat
      OBVIOUS
    <3>2. base \in [1..Len(frames) -> Frame]
      BY <2>1, <2>4, <2>5, <3>1
    <3> QED
      BY <3>1, <3>2
  <2>7. ASSUME NEW i \in DOMAIN base
        PROVE  /\ base[i].node = frames[i].node /\ base[i].rest \subseteq frames[i].rest /\ n \notin base[i].rest
    <3>1. CASE i = k
      BY <2>1, <2>4, <2>5, <3>1
    <3>2. CASE i # k
      <4>1. base[i] = frames[i] /\ i \in DOMAIN frames
        BY <2>5, <2>6, <3>2
      <4>2. frames[i].node # frames[k].node
        BY <2>1, <3>2, <4>1 DEF BindingOK, FramesOK
      <4>3. n \in Children(frames[k].node) /\ (n \in frames[i].rest => n \in Children(frames[i].node))
        BY <2>1, <4>1 DEF BindingOK, FramesOK
      <4> QED
        BY <4>1, <4>2, <4>3 DEF Children
    <3> QED
      BY <3>1, <3>2
  <2> QED
    BY <2>6, <2>7
<1> QED
  BY <1>1, <1>2

\* The answers of an entered node: nothing else changes, and nothing that was
\* known is taken back.
LEMMA EnteredAnswers ==
  ASSUME BindingOK, result \in [Subjects -> Answers], NEW n \in Nodes, bound[n] = "none",
         NEW scalar \in Answers, NEW content \in Answers,
         NEW ans, ans = [s \in Subjects |-> IF s[1] = n /\ s[2] \in ToSet(LocalChecks)
                           THEN [scalar |-> scalar, content |-> content][s[2]] ELSE result[s]]
  PROVE  /\ ans \in [Subjects -> Answers]
         /\ \A u \in Subjects \ Own(n) : ans[u] = result[u]
         /\ \A m \in Nodes : ans[<<m, "representable">>] = result[<<m, "representable">>]
         /\ \A u \in Own(n) : result[u] = "limited"
         /\ \A u \in Subjects : ~Valid(result[u]) => ~Valid(ans[u])
<1>1. ToSet(LocalChecks) = {"scalar", "content"}
  BY SubjectsAre
<1>2. \A c \in {"scalar", "content"} : [scalar |-> scalar, content |-> content][c] \in Answers
  OBVIOUS
<1>3. ans \in [Subjects -> Answers]
  BY <1>1, <1>2
<1>4. \A u \in Own(n) : result[u] = "limited"
  <2>1. \A c \in {"scalar", "content", "representable"} : result[<<n, c>>] = "limited"
    BY SubjectsAre DEF BindingOK
  <2> QED
    BY <2>1 DEF Own
<1>5. ASSUME NEW u \in Subjects, u \notin Own(n) PROVE ans[u] = result[u]
  <2>1. CASE u = IdentitySubject
    BY <1>1, <2>1 DEF IdentitySubject
  <2>2. CASE u # IdentitySubject
    <3>1. PICK m \in Nodes, c \in {"scalar", "content", "representable"} : u = <<m, c>>
      BY <2>2, SubjectsAre
    <3> QED
      BY <1>5, <3>1 DEF Own
  <2> QED
    BY <2>1, <2>2
<1>6. ASSUME NEW m \in Nodes PROVE ans[<<m, "representable">>] = result[<<m, "representable">>]
  BY <1>1, NodeSubject
<1>7. Valid("limited")
  BY DEF Valid
<1> QED
  BY <1>3, <1>4, <1>5, <1>6, <1>7

LEMMA EnterStep ==
  ASSUME SchemaInv, NEW n \in Entered, NEW scalar \in ScalarAnswers[n], NEW content \in ContentAnswers[n],
         NEW error \in BOOLEAN, NEW stop, NEW kinds,
         Enter(n, [scalar |-> scalar, content |-> content], kinds, error, stop)
  PROVE  SchemaInv'
<1>0. PICK D : D = {m \in Children(n) : kinds[m] = "declared"}
  OBVIOUS
<1>1. /\ stage = "binding" /\ Running /\ UNCHANGED <<stage, closes, cursor>>
      /\ bound' = [m \in Nodes |-> IF m = n THEN "bound"
                                   ELSE IF m \in Children(n) /\ kinds[m] \in {"skipped", "unavailable"}
                                     THEN kinds[m] ELSE bound[m]]
  BY DEF Enter
<1>2. PICK ans : ans = [s \in Subjects |-> IF s[1] = n /\ s[2] \in ToSet(LocalChecks)
                           THEN [scalar |-> scalar, content |-> content][s[2]] ELSE result[s]]
  OBVIOUS
<1>3. result' = ans /\ rec' = InterruptedIf(recordXSDProvedFailures(rec, n, ans, stop), error)
  BY <1>2 DEF Enter
<1>4. PICK base : base = Without(n)
  OBVIOUS
<1>23. PICK f : f = [node |-> n, rest |-> D]
  OBVIOUS
<1>5. frames' = Append(base, f) /\ f.node = n /\ f.rest = D
  BY <1>0, <1>4, <1>23 DEF Enter, Without
<1>6. /\ Book(rec) /\ ~rec.interrupted /\ rec.at[1] = 1 /\ Sound(rec, result)
      /\ BindingOK /\ FramesOK /\ OnlyFailures(rec)
      /\ frames \in Seq(Frame)
      /\ bound \in [Nodes -> Bindings] /\ result \in [Subjects -> Answers]
  BY <1>1, WhileBinding
<1>7. /\ n \in Nodes /\ bound[n] = "none" /\ (frames = <<>> => n = Root)
      /\ frames # <<>> => Len(frames) \in DOMAIN frames /\ n \in frames[Len(frames)].rest
  BY <1>6, EnteredIs
<1>8. /\ base \in Seq(Frame) /\ Len(base) = Len(frames)
      /\ DOMAIN base = DOMAIN frames
      /\ \A i \in DOMAIN base : /\ base[i].node = frames[i].node /\ base[i].rest \subseteq frames[i].rest
                                /\ n \notin base[i].rest
  BY <1>4, <1>6, Waiting
<1>9. scalar \in Answers /\ content \in Answers
  BY <1>7, DocumentAssumption
<1>10. /\ ans \in [Subjects -> Answers]
       /\ \A u \in Subjects \ Own(n) : ans[u] = result[u]
       /\ \A m \in Nodes : ans[<<m, "representable">>] = result[<<m, "representable">>]
       /\ \A u \in Own(n) : result[u] = "limited"
       /\ \A u \in Subjects : ~Valid(result[u]) => ~Valid(ans[u])
  BY <1>2, <1>6, <1>7, <1>9, EnteredAnswers
<1>11. PICK t : t = InterruptedIf(recordXSDProvedFailures(rec, n, ans, stop), error)
  OBVIOUS
<1>12. /\ Book(t) /\ t.at = <<1, 0, n>> /\ OnlyFailures(t) /\ (~t.interrupted => Sound(t, ans))
       /\ Counts(t, ans)
  BY <1>6, <1>7, <1>10, <1>11, NodeRecorded
<1>13. \A m \in Children(n) : m \in Nodes /\ m # n /\ m # Root /\ Parent[m] = n /\ bound[m] = "none"
  BY <1>6, <1>7, ChildrenUnbound
<1>14. bound' \in [Nodes -> Bindings]
  BY <1>1, <1>6 DEF Bindings
<1>15. /\ \A m \in Nodes : bound[m] = "bound" => bound'[m] = "bound"
       /\ \A m \in Nodes : bound'[m] = "bound" => m = n \/ bound[m] = "bound"
       /\ bound'[n] = "bound"
  BY <1>1, <1>7, <1>13
<1>16. frames' \in Seq(Frame) /\ DOMAIN frames' = 1..(Len(frames) + 1)
       /\ DOMAIN frames = 1..Len(frames) /\ Len(frames) \in Nat
       /\ \A i \in DOMAIN frames : frames'[i] = base[i]
       /\ frames'[Len(frames) + 1] = f
  <2>2. D \subseteq Nodes
    BY <1>0, <1>13
  <2>3. f \in Frame
    BY <1>7, <1>23, <2>2 DEF Frame
  <2>5. /\ frames' \in Seq(Frame) /\ DOMAIN frames' = 1..(Len(frames) + 1) /\ DOMAIN frames = 1..Len(frames)
        /\ Len(frames) \in Nat /\ \A i \in DOMAIN frames : frames'[i] = base[i]
        /\ frames'[Len(frames) + 1] = f
    BY <1>5, <1>6, <1>8, <2>3
  <2> QED
    BY <2>5
<1>17. FramesOK'
  <2>1. ASSUME NEW i \in DOMAIN frames
        PROVE  /\ frames'[i].node = frames[i].node /\ frames[i].node # n /\ frames[i].node \in Nodes
               /\ bound'[frames[i].node] = "bound"
               /\ ans[<<frames[i].node, "representable">>] = "limited"
               /\ \A m \in frames'[i].rest : m \in Children(frames[i].node) /\ bound'[m] = "none"
    <3>1. /\ bound[frames[i].node] = "bound" /\ result[<<frames[i].node, "representable">>] = "limited"
          /\ \A m \in frames[i].rest : m \in Children(frames[i].node) /\ bound[m] = "none"
      BY <1>6 DEF FramesOK
    <3>5. frames[i].node \in Nodes
      <4>1. frames[i] \in Frame
        BY <1>6
      <4> QED
        BY <4>1 DEF Frame
    <3>2. frames'[i].node = frames[i].node /\ frames'[i].rest \subseteq frames[i].rest /\ n \notin frames'[i].rest
      BY <1>8, <1>16
    <3>3. frames[i].node # n
      BY <1>7, <3>1
    <3>4. ASSUME NEW m \in frames'[i].rest PROVE m \in Children(frames[i].node) /\ bound'[m] = "none"
      <4>1. m \in Children(frames[i].node) /\ bound[m] = "none" /\ m # n
        BY <3>1, <3>2
      <4>2. m \in Nodes /\ m \notin Children(n)
        BY <3>3, <4>1 DEF Children
      <4> QED
        BY <1>1, <4>1, <4>2
    <3> QED
      BY <1>10, <1>15, <3>1, <3>2, <3>3, <3>4, <3>5
  <2>2. /\ frames'[Len(frames) + 1].node = n /\ bound'[n] = "bound"
        /\ ans[<<n, "representable">>] = "limited"
        /\ \A m \in frames'[Len(frames) + 1].rest : m \in Children(n) /\ bound'[m] = "none"
    <3>1. ASSUME NEW m \in D PROVE m \in Children(n) /\ bound'[m] = "none"
      BY <1>0, <1>1, <1>13
    <3>2. frames'[Len(frames) + 1].node = n /\ frames'[Len(frames) + 1].rest = D
      BY <1>5, <1>16
    <3>3. ans[<<n, "representable">>] = "limited"
      BY <1>7, <1>10 DEF Own
    <3> QED
      BY <1>15, <3>1, <3>2, <3>3
  <2>3. \A i \in DOMAIN frames' : i \in DOMAIN frames \/ i = Len(frames) + 1
    BY <1>16
  <2>4. ASSUME NEW i \in DOMAIN frames', NEW j \in DOMAIN frames', frames'[i].node = frames'[j].node
        PROVE  i = j
    <3>1. CASE i \in DOMAIN frames /\ j \in DOMAIN frames
      BY <1>6, <2>1, <2>4, <3>1 DEF FramesOK
    <3>2. CASE i \in DOMAIN frames /\ j = Len(frames) + 1
      BY <2>1, <2>2, <2>4, <3>2
    <3>3. CASE j \in DOMAIN frames /\ i = Len(frames) + 1
      BY <2>1, <2>2, <2>4, <3>3
    <3>4. CASE i = Len(frames) + 1 /\ j = Len(frames) + 1
      BY <3>4
    <3> QED
      BY <2>3, <3>1, <3>2, <3>3, <3>4
  <2>5. ASSUME NEW i \in DOMAIN frames'
        PROVE  /\ bound'[frames'[i].node] = "bound" /\ result'[<<frames'[i].node, "representable">>] = "limited"
               /\ \A m \in frames'[i].rest : m \in Children(frames'[i].node) /\ bound'[m] = "none"
    <3>1. CASE i \in DOMAIN frames
      BY <1>3, <2>1, <3>1
    <3>2. CASE i = Len(frames) + 1
      BY <1>3, <2>2, <3>2
    <3> QED
      BY <2>3, <3>1, <3>2
  <2> QED
    BY <2>4, <2>5 DEF FramesOK, Children
<1>18. ASSUME NEW m \in Nodes \ {Root}, bound'[m] # "none" PROVE bound'[Parent[m]] = "bound"
  <2>1. Parent[m] \in Nodes
    <3>1. Parent[m] \in 1..(m - 1) /\ m \in Nodes /\ Nodes = 1..Cardinality(Nodes) /\ Cardinality(Nodes) \in Nat
      BY DocumentAssumption, FS_CardinalityType
    <3> QED
      BY <3>1
  <2>2. CASE m = n
    <3>1. frames # <<>>
      BY <1>7, <1>18, <2>2
    <3>2. n \in Children(frames[Len(frames)].node) /\ bound[frames[Len(frames)].node] = "bound"
      BY <1>6, <1>7, <3>1 DEF FramesOK
    <3> QED
      BY <1>15, <2>1, <2>2, <3>2 DEF Children
  <2>3. CASE m \in Children(n)
    BY <1>13, <1>15, <2>3
  <2>4. CASE m # n /\ m \notin Children(n)
    <3>1. bound[m] # "none"
      BY <1>1, <1>18, <2>4
    <3> QED
      BY <1>6, <1>15, <2>1, <3>1 DEF BindingOK
  <2> QED
    BY <2>2, <2>3, <2>4
<1>19. ASSUME NEW m \in Nodes, bound'[m] # "bound", NEW c \in {"scalar", "content", "representable"}
       PROVE  ans[<<m, c>>] = "limited"
  <2>1. m # n /\ bound[m] # "bound"
    BY <1>15, <1>19
  <2>2. result[<<m, c>>] = "limited" /\ <<m, c>> \in Subjects
    BY <1>6, <2>1, SubjectsAre, NodeSubject DEF BindingOK
  <2>3. <<m, c>> \notin Own(n)
    BY <2>1 DEF Own
  <2> QED
    BY <1>10, <2>2, <2>3
<1>20. ans[IdentitySubject] = "limited"
  <2>1. IdentitySubject \in Subjects /\ IdentitySubject \notin Own(n)
    BY <1>7, SubjectsAre, NodeSubject DEF Own
  <2> QED
    BY <1>6, <1>10, <2>1 DEF BindingOK
<1>21. BindingOK'
  BY <1>3, <1>11, <1>12, <1>17, <1>18, <1>19, <1>20, SubjectsAre DEF BindingOK, OnlyFailures
<1>22. rec' = t /\ t.at[1] = 1
  BY <1>3, <1>11, <1>12
<1> QED
  BY <1>1, <1>3, <1>10, <1>12, <1>14, <1>16, <1>21, <1>22, TraversalStep

LEMMA InterruptedBook ==
  ASSUME NEW r, Book(r)
  PROVE  /\ Book(Interrupted(r)) /\ Interrupted(r).interrupted /\ Interrupted(r).counted = r.counted
         /\ Interrupted(r).unfinished = r.unfinished
<1>1. PICK t : t = Interrupted(r)
  OBVIOUS
<1>2. /\ RecType(t) /\ t.interrupted /\ t.decided = r.decided /\ t.counted = r.counted
      /\ t.unfinished = r.unfinished
  BY <1>1, InterruptedIs DEF Book
<1>3. CountedOK(t)
  BY <1>2 DEF Book, CountedOK
<1> QED
  BY <1>1, <1>2, <1>3 DEF Book

\* The answers of a completed node: an interrupted operation takes completeness
\* back, never a failure.
Aborted(n, error) == [s \in Subjects |-> IF error /\ s[1] = n THEN abort(result[s]) ELSE result[s]]

Completed(n, answer, error) == [Aborted(n, error) EXCEPT ![<<n, "representable">>] = answer]

LEMMA CompletedAnswers ==
  ASSUME result \in [Subjects -> Answers], NEW n \in Nodes, result[<<n, "representable">>] = "limited",
         result[IdentitySubject] = "limited", NEW answer \in Answers, NEW error \in BOOLEAN,
         NEW ans, ans = Completed(n, answer, error)
  PROVE  /\ ans \in [Subjects -> Answers]
         /\ \A u \in Subjects \ Own(n) : ans[u] = result[u]
         /\ \A u \in Subjects : ~Valid(result[u]) => ~Valid(ans[u])
         /\ Valid(answer) => \A u \in Subjects : ~Valid(ans[u]) => ~Valid(result[u])
<1>1. /\ \A a \in Answers : abort(a) \in Answers /\ (Valid(abort(a)) <=> Valid(a))
      /\ abort("limited") = "limited" /\ Valid("limited")
  BY DEF abort, Answers, Valid
<1>2. <<n, "representable">> \in Subjects
  BY NodeSubject
<1>7. PICK done : done = Aborted(n, error)
  OBVIOUS
<1>3. /\ done \in [Subjects -> Answers]
      /\ \A u \in Subjects : done[u] = IF error /\ u[1] = n THEN abort(result[u]) ELSE result[u]
  BY <1>1, <1>7 DEF Aborted
<1>4. /\ ans \in [Subjects -> Answers] /\ ans[<<n, "representable">>] = answer
      /\ \A u \in Subjects \ {<<n, "representable">>} : ans[u] = done[u]
  BY <1>2, <1>3, <1>7 DEF Completed
<1>5. ASSUME NEW u \in Subjects \ Own(n) PROVE ans[u] = result[u]
  <2>0. <<n, "representable">> \in Own(n)
    BY DEF Own
  <2>1. u # <<n, "representable">>
    BY <1>5, <2>0
  <2>2. CASE u = IdentitySubject
    BY <1>1, <1>3, <1>4, <2>1, <2>2
  <2>3. CASE u # IdentitySubject
    <3>1. PICK m \in Nodes, c \in {"scalar", "content", "representable"} : u = <<m, c>>
      BY <2>3, SubjectsAre
    <3>2. m # n /\ u[1] = m
      BY <1>5, <3>1 DEF Own
    <3> QED
      BY <1>3, <1>4, <2>1, <3>2
  <2> QED
    BY <2>2, <2>3
<1>6. ASSUME NEW u \in Subjects, u # <<n, "representable">> PROVE Valid(ans[u]) <=> Valid(result[u])
  BY <1>1, <1>3, <1>4, <1>6
<1> QED
  BY <1>1, <1>4, <1>5, <1>6

LEMMA CompleteStep ==
  ASSUME SchemaInv, NEW answer \in {"valid", "invalid", "limited"}, NEW error \in BOOLEAN, NEW stop,
         CompleteNode(answer, error, stop)
  PROVE  SchemaInv'
<1>1. PICK k, n : k = Len(frames) /\ n = frames[k].node
  OBVIOUS
<1>2. PICK ans : ans = Completed(n, answer, error)
  OBVIOUS
<1>4. /\ stage = "binding" /\ Running /\ UNCHANGED <<stage, closes, cursor>> /\ bound' = bound
      /\ frames # <<>> /\ frames' = Front(frames) /\ result' = ans
      /\ rec' = IF answer = "limited" THEN Interrupted(rec)
                ELSE InterruptedIf(recordXSDProvedFailures(rec, n, ans, stop), error)
  BY <1>1, <1>2 DEF CompleteNode, Last, Aborted, Completed
<1>5. /\ Book(rec) /\ ~rec.interrupted /\ rec.at[1] = 1 /\ Sound(rec, result)
      /\ BindingOK /\ FramesOK /\ OnlyFailures(rec) /\ frames \in Seq(Frame)
      /\ bound \in [Nodes -> Bindings] /\ result \in [Subjects -> Answers]
  BY <1>4, WhileBinding
<1>6. /\ k \in Nat \ {0} /\ DOMAIN frames = 1..k /\ frames' \in Seq(Frame) /\ DOMAIN frames' = 1..(k - 1)
      /\ \A i \in 1..(k - 1) : frames'[i] = frames[i]
  <2>1. k \in Nat \ {0} /\ DOMAIN frames = 1..k /\ \A i \in 1..k : frames[i] \in Frame
    BY <1>1, <1>4, <1>5
  <2>2. frames' = [i \in 1..(k - 1) |-> frames[i]]
    <3>1. frames' = SubSeq(frames, 1, k - 1)
      BY <1>1, <1>4 DEF Front
    <3>2. DOMAIN frames' = 1..(k - 1) /\ \A i \in 1..(k - 1) : frames'[i] = frames[i] /\ frames' \in Seq(Frame)
      BY <1>1, <1>5, <2>1, <3>1
    <3> QED
      BY <1>5, <2>1, <3>1, <3>2
  <2>3. frames' \in [1..(k - 1) -> Frame] /\ k - 1 \in Nat
    BY <2>1, <2>2
  <2> QED
    BY <2>1, <2>2, <2>3
<1>7. /\ n \in Nodes /\ bound[n] = "bound" /\ result[<<n, "representable">>] = "limited"
      /\ \A i \in 1..(k - 1) : frames[i].node # n
  <2>1. frames[k] \in Frame /\ k \in DOMAIN frames
    BY <1>5, <1>6
  <2>2. n \in Nodes
    BY <1>1, <2>1 DEF Frame
  <2>3. \A i \in 1..(k - 1) : i \in DOMAIN frames /\ i # k
    BY <1>6
  <2> QED
    BY <1>1, <1>5, <2>1, <2>2, <2>3 DEF FramesOK
<1>8. result[IdentitySubject] = "limited" /\ answer \in Answers
  BY <1>5 DEF BindingOK, Answers
<1>9. /\ ans \in [Subjects -> Answers]
      /\ \A u \in Subjects \ Own(n) : ans[u] = result[u]
      /\ \A u \in Subjects : ~Valid(result[u]) => ~Valid(ans[u])
      /\ Valid(answer) => \A u \in Subjects : ~Valid(ans[u]) => ~Valid(result[u])
  BY <1>2, <1>5, <1>7, <1>8, CompletedAnswers
<1>10. CASE answer = "limited"
  <2>1. rec' = Interrupted(rec) /\ Valid(answer)
    BY <1>4, <1>10 DEF Valid
  <2>2. Book(rec') /\ rec'.interrupted /\ rec'.counted = rec.counted
    BY <1>5, <2>1, InterruptedBook
  <2>3. Counts(rec, result)
    BY <1>5, SoundCounts
  <2>4. Counts(rec', result')
    BY <1>4, <1>9, <2>1, <2>2, <2>3 DEF Counts, Failed
  <2> QED
    BY <1>4, <1>5, <1>6, <1>9, <2>2, <2>4, TraversalStep
<1>11. CASE answer # "limited"
  <2>1. PICK t : t = InterruptedIf(recordXSDProvedFailures(rec, n, ans, stop), error)
    OBVIOUS
  <2>2. /\ Book(t) /\ t.at = <<1, 0, n>> /\ OnlyFailures(t) /\ (~t.interrupted => Sound(t, ans))
        /\ Counts(t, ans)
    BY <1>5, <1>7, <1>9, <2>1, NodeRecorded
  <2>3. rec' = t /\ t.at[1] = 1
    BY <1>4, <1>11, <2>1, <2>2
  <2>4. ASSUME NEW m \in Nodes, m # n, NEW c \in {"scalar", "content", "representable"}
        PROVE  ans[<<m, c>>] = result[<<m, c>>]
    <3>1. <<m, c>> \in Subjects /\ <<m, c>> \notin Own(n)
      BY <2>4, NodeSubject DEF Own
    <3> QED
      BY <1>9, <3>1
  <2>5. FramesOK'
    <3>1. ASSUME NEW i \in DOMAIN frames'
          PROVE  /\ frames'[i] = frames[i] /\ i \in DOMAIN frames
                 /\ bound'[frames'[i].node] = "bound" /\ result'[<<frames'[i].node, "representable">>] = "limited"
                 /\ \A m \in frames'[i].rest : m \in Children(frames'[i].node) /\ bound'[m] = "none"
      <4>1. frames'[i] = frames[i] /\ i \in 1..(k - 1) /\ i \in DOMAIN frames
        BY <1>6
      <4>2. frames[i] \in Frame /\ frames[i].node # n
        BY <1>5, <1>7, <4>1
      <4>3. frames[i].node \in Nodes
        BY <4>2 DEF Frame
      <4>4. /\ bound[frames[i].node] = "bound" /\ result[<<frames[i].node, "representable">>] = "limited"
            /\ \A m \in frames[i].rest : m \in Children(frames[i].node) /\ bound[m] = "none"
        BY <1>5, <4>1 DEF FramesOK
      <4> QED
        BY <1>4, <2>4, <4>1, <4>2, <4>3, <4>4
    <3>2. ASSUME NEW i \in DOMAIN frames', NEW j \in DOMAIN frames', frames'[i].node = frames'[j].node
          PROVE  i = j
      <4>1. i \in DOMAIN frames /\ j \in DOMAIN frames /\ frames[i].node = frames[j].node
        BY <3>1, <3>2
      <4> QED
        BY <1>5, <4>1 DEF FramesOK
    <3> QED
      BY <3>1, <3>2 DEF FramesOK, Children
  <2>6. ASSUME NEW m \in Nodes, bound'[m] # "bound", NEW c \in {"scalar", "content", "representable"}
        PROVE  ans[<<m, c>>] = "limited"
    <3>1. m # n /\ bound[m] # "bound"
      BY <1>4, <1>7, <2>6
    <3> QED
      BY <1>5, <2>4, <3>1, SubjectsAre DEF BindingOK
  <2>7. ans[IdentitySubject] = "limited"
    <3>1. IdentitySubject \in Subjects /\ IdentitySubject \notin Own(n)
      BY <1>7, SubjectsAre, NodeSubject DEF Own
    <3> QED
      BY <1>8, <1>9, <3>1
  <2>8. \A m \in Nodes \ {Root} : bound'[m] # "none" => bound'[Parent[m]] = "bound"
    BY <1>4, <1>5 DEF BindingOK
  <2>9. BindingOK'
    BY <1>4, <2>2, <2>3, <2>5, <2>6, <2>7, <2>8, SubjectsAre DEF BindingOK, OnlyFailures
  <2> QED
    BY <1>4, <1>5, <1>6, <1>9, <2>2, <2>3, <2>9, TraversalStep
<1> QED
  BY <1>10, <1>11

-----------------------------------------------------------------------------
(* The end of the traversal                                                 *)

\* A nonempty set of numbers has a least element.
LEMMA LeastElement ==
  ASSUME NEW T, T \subseteq Nat, T # {}
  PROVE  \E x \in T : \A y \in T : x <= y
<1> DEFINE R == OpToRel(<, Nat)
<1>1. IsWellFoundedOn(R, Nat)
  BY NatLessThanWellFounded
<1>2. \A x, y \in Nat : x < y => <<x, y>> \in R
  BY DEF OpToRel
<1> HIDE DEF R
<1>3. PICK x \in T : \A y \in T : <<y, x>> \notin R
  BY <1>1, WFMin
<1>4. ASSUME NEW y \in T PROVE x <= y
  <2>1. x \in Nat /\ y \in Nat
    BY <1>3
  <2>2. ~(y < x)
    BY <1>2, <1>3, <2>1
  <2> QED
    BY <2>1, <2>2
<1> QED
  BY <1>4

\* Induction, as a fact about sets.
LEMMA Induction ==
  ASSUME NEW S, 0 \in S, \A n \in Nat : n \in S => n + 1 \in S
  PROVE  Nat \subseteq S
<1> SUFFICES ASSUME Nat \ S # {} PROVE FALSE
  OBVIOUS
<1>1. PICK x \in Nat \ S : \A y \in Nat \ S : x <= y
  BY LeastElement
<1>2. x # 0 /\ x - 1 \in Nat /\ x - 1 \notin Nat \ S
  BY <1>1
<1> QED
  BY <1>1, <1>2

\* The kind of an unmatched node from its parent's, and the kinds of the first
\* k nodes.
Below(n, kind) ==
  IF bound[n] # "none" THEN bound[n]
  ELSE IF kind # "bound" THEN kind
  ELSE IF rec.decided[<<Parent[n], "content">>] = "fail" THEN "blocked" ELSE "unavailable"
KindsUpTo(g, k) == g = [n \in 1..k |-> Below(n, g[Parent[n]])]

LEMMA KindsExist ==
  ASSUME bound[Root] # "none"
  PROVE  \E g : KindsUpTo(g, Cardinality(Nodes))
<1> DEFINE N == Cardinality(Nodes)
           S == {k \in Nat : k <= N => \E g : KindsUpTo(g, k)}
<1>1. N \in Nat /\ Nodes = 1..N
  BY DocumentAssumption, FS_CardinalityType
<1> HIDE DEF N
<1>2. 0 \in S
  <2> DEFINE g == [n \in 1..0 |-> "none"]
  <2>1. g = [n \in 1..0 |-> Below(n, g[Parent[n]])]
    OBVIOUS
  <2>2. KindsUpTo(g, 0)
    BY <2>1 DEF KindsUpTo
  <2> QED
    BY <2>2
<1>3. ASSUME NEW k \in Nat, k \in S PROVE k + 1 \in S
  <2> SUFFICES ASSUME k + 1 <= N PROVE \E h : KindsUpTo(h, k + 1)
    OBVIOUS
  <2>1. PICK g : KindsUpTo(g, k)
    BY <1>1, <1>3
  <2>2. g = [n \in 1..k |-> Below(n, g[Parent[n]])]
    BY <2>1 DEF KindsUpTo
  <2> DEFINE h == [n \in 1..(k + 1) |-> IF n = k + 1 THEN Below(n, g[Parent[n]]) ELSE g[n]]
  <2>3. ASSUME NEW n \in 1..(k + 1) PROVE h[n] = Below(n, h[Parent[n]])
    <3>1. h[n] = Below(n, g[Parent[n]])
      <4>1. CASE n = k + 1
        BY <4>1
      <4>2. CASE n # k + 1
        <5>1. n \in 1..k
          BY <4>2
        <5> QED
          BY <2>2, <4>2, <5>1
      <4> QED
        BY <4>1, <4>2
    <3>2. CASE n = Root
      BY <3>1, <3>2 DEF Below
    <3>3. CASE n # Root
      <4>1. n \in Nodes
        BY <1>1
      <4>2. Parent[n] \in 1..(n - 1)
        BY <3>3, <4>1, DocumentAssumption
      <4>3. Parent[n] \in 1..(k + 1) /\ Parent[n] # k + 1
        BY <4>2
      <4>4. h[Parent[n]] = g[Parent[n]]
        BY <4>3
      <4> QED
        BY <3>1, <4>4
    <3> QED
      BY <3>2, <3>3
  <2>4. h = [n \in 1..(k + 1) |-> Below(n, h[Parent[n]])]
    BY <2>3
  <2>5. KindsUpTo(h, k + 1)
    BY <2>4 DEF KindsUpTo
  <2> QED
    BY <2>5
<1>4. N \in S
  BY <1>1, <1>2, <1>3, Induction
<1> QED
  BY <1>1, <1>4 DEF N

LEMMA UnmatchedIs ==
  ASSUME bound \in [Nodes -> Bindings], bound[Root] = "bound"
  PROVE  /\ Unmatched \in [Nodes -> Bindings]
         /\ \A n \in Nodes : Unmatched[n] = "bound" <=> bound[n] = "bound"
<1>1. Nodes = 1..Cardinality(Nodes) /\ Cardinality(Nodes) \in Nat
  BY DocumentAssumption, FS_CardinalityType
<1>2. Unmatched = CHOOSE g : KindsUpTo(g, Cardinality(Nodes))
  BY <1>1 DEF Unmatched, KindsUpTo, Below
<1>3. KindsUpTo(Unmatched, Cardinality(Nodes))
  BY <1>2, KindsExist
<1>4. PICK g : g = Unmatched
  OBVIOUS
<1>5. g = [n \in Nodes |-> Below(n, g[Parent[n]])]
  BY <1>1, <1>3, <1>4 DEF KindsUpTo
<1>6. \A n \in Nodes : g[n] = "bound" <=> bound[n] = "bound"
  BY <1>5 DEF Below
<1>7. ASSUME NEW B, B = {n \in Nodes : g[n] \notin Bindings}, B # {} PROVE FALSE
  <2>1. B \subseteq Nat
    BY <1>1, <1>7
  <2>2. PICK x \in B : \A y \in B : x <= y
    BY <1>7, <2>1, LeastElement
  <2>3. x \in Nodes /\ g[x] \notin Bindings /\ x \in Nat
    BY <1>7, <2>1, <2>2
  <2>4. g[x] = Below(x, g[Parent[x]])
    BY <1>5, <2>3
  <2>5. bound[x] = "none"
    BY <2>3, <2>4 DEF Below
  <2>6. x # Root
    BY <2>5
  <2>7. Parent[x] \in 1..(x - 1)
    BY <2>3, <2>6, DocumentAssumption
  <2>8. Parent[x] \in Nodes /\ ~(x <= Parent[x])
    BY <1>1, <2>3, <2>7
  <2>9. g[Parent[x]] \in Bindings
    BY <1>7, <2>2, <2>8
  <2> QED
    BY <2>3, <2>4, <2>5, <2>9 DEF Below, Bindings
<1>8. \A n \in Nodes : g[n] \in Bindings
  BY <1>7
<1> QED
  BY <1>4, <1>5, <1>6, <1>8

\* Recording the document-wide answer leaves the other subjects alone.
OthersKept(r, t, s) ==
  \A u \in Subjects \ {s} : /\ t.decided[u] = r.decided[u] /\ t.counted[u] = r.counted[u]
                            /\ t.complete[u] = r.complete[u]
FailureTold(t, s, a) ==
  /\ Failed(t, s)
  /\ ~t.interrupted => t.decided[s] = "fail"
  /\ ~t.interrupted /\ ~t.unfinished => Complete(a) /\ t.complete[s]

Told(r, identity, a, stop) == IF Valid(identity) THEN r ELSE recordXSDResult(r, IdentitySubject, a, stop)

IdentityKept(r, w, t, identity, a) ==
  /\ Book(t) /\ t.at = r.at /\ OthersKept(r, t, IdentitySubject)
  /\ r.unfinished => t.unfinished
  /\ t.decided[IdentitySubject] \in {"none", "fail"}
  /\ t.decided = w.decided
  /\ Valid(identity) => t.decided = r.decided
  /\ ~Valid(identity) => FailureTold(t, IdentitySubject, a)

LEMMA IdentityRecorded ==
  ASSUME NEW r, Book(r), ~r.interrupted, Ready(r, IdentitySubject), NEW identity, NEW a \in Answers,
         ~Valid(a), NEW stop, NEW error \in BOOLEAN,
         NEW w, w = Told(r, identity, a, stop),
         NEW t, t = InterruptedIf(w, error)
  PROVE  IdentityKept(r, w, t, identity, a)
<1>1. IdentitySubject \in Subjects
  BY SubjectsAre
<1>2. CASE Valid(identity)
  <2>1. w = r
    BY <1>2 DEF Told
  <2>2. /\ Book(t) /\ t.at = r.at /\ t.decided = r.decided /\ t.counted = r.counted
        /\ t.complete = r.complete /\ t.unfinished = r.unfinished
    BY <2>1, StoppedIs
  <2> QED
    BY <1>2, <2>1, <2>2 DEF OthersKept, Ready, IdentityKept
<1>3. CASE ~Valid(identity)
  <2>1. w = recordXSDResult(r, IdentitySubject, a, stop)
    BY <1>3 DEF Told
  <2>2. /\ Book(w) /\ w.at = r.at /\ Failed(w, IdentitySubject) /\ w.decided[IdentitySubject] \in {"none", "fail"}
        /\ OthersKept(r, w, IdentitySubject)
        /\ r.unfinished => w.unfinished
        /\ ~w.interrupted => w.decided[IdentitySubject] = "fail"
        /\ ~w.interrupted /\ ~w.unfinished => Complete(a) /\ w.complete[IdentitySubject]
    BY <1>1, <2>1, OneFailure DEF OthersKept
  <2>3. /\ Book(t) /\ t.at = w.at /\ t.decided = w.decided /\ t.counted = w.counted
        /\ t.complete = w.complete /\ t.unfinished = w.unfinished
        /\ t.interrupted <=> w.interrupted \/ error
    BY <2>2, StoppedIs
  <2>4. OthersKept(r, t, IdentitySubject)
    BY <2>2, <2>3 DEF OthersKept
  <2>5. FailureTold(t, IdentitySubject, a)
    BY <2>2, <2>3 DEF FailureTold, Failed
  <2> QED
    BY <1>3, <2>2, <2>3, <2>4, <2>5 DEF IdentityKept
<1> QED
  BY <1>2, <1>3

\* What is sound stays sound when the document-wide answer is recorded, and no
\* other failure appears or is taken back.
LEMMA IdentitySound ==
  ASSUME NEW r, Book(r), NEW res, Sound(r, res), NEW t, Book(t), OthersKept(r, t, IdentitySubject),
         NEW ans, NEW identity, ans[IdentitySubject] = identity, NEW a,
         r.unfinished => t.unfinished,
         r.decided[IdentitySubject] \in {"none", "fail"},
         ~Valid(res[IdentitySubject]) => ~Valid(identity),
         \A u \in Subjects \ {IdentitySubject} : /\ ~Valid(ans[u]) <=> ~Valid(res[u])
                                                 /\ Complete(res[u]) => Complete(ans[u]),
         Valid(identity) => t.decided = r.decided,
         ~Valid(identity) => FailureTold(t, IdentitySubject, a),
         ~Valid(identity) /\ t.at[1] # 1 => a = identity
  PROVE  /\ ~t.interrupted => Sound(t, ans)
         /\ Counts(t, ans)
<1> DEFINE I == IdentitySubject
<1>1. I \in Subjects
  BY SubjectsAre
<1> HIDE DEF I
<1>2. ASSUME NEW s \in Subjects, s # I
      PROVE  t.decided[s] = r.decided[s] /\ t.complete[s] = r.complete[s] /\ t.counted[s] = r.counted[s]
  BY <1>2 DEF OthersKept, I
<1>3. ASSUME ~t.interrupted PROVE Sound(t, ans)
  <2>1. ASSUME NEW s \in Subjects PROVE t.decided[s] = "fail" <=> ~Valid(ans[s])
    <3>1. CASE s # I
      BY <1>2, <3>1 DEF Sound, I
    <3>2. CASE s = I /\ Valid(identity)
      <4>1. Valid(res[I])
        BY <3>2 DEF I
      <4>2. r.decided[I] # "fail"
        BY <1>1, <4>1 DEF Sound
      <4> QED
        BY <3>2, <4>2 DEF I
    <3>3. CASE s = I /\ ~Valid(identity)
      BY <1>3, <3>3 DEF FailureTold, I
    <3> QED
      BY <3>1, <3>2, <3>3
  <2>2. ASSUME NEW s \in Subjects, t.decided[s] \in {"pass", "not-applicable"} PROVE Complete(ans[s])
    <3>1. CASE s # I
      BY <1>2, <2>2, <3>1 DEF Sound, I
    <3>2. CASE s = I /\ Valid(identity)
      BY <2>2, <3>2 DEF I
    <3>3. CASE s = I /\ ~Valid(identity)
      BY <1>3, <2>2, <3>3 DEF FailureTold, I
    <3> QED
      BY <3>1, <3>2, <3>3
  <2>3. ASSUME ~t.unfinished, NEW s \in Subjects, t.decided[s] = "fail"
        PROVE  t.complete[s] /\ (s # I \/ t.at[1] # 1 => Complete(ans[s]))
    <3>1. CASE s # I
      <4>1. ~r.unfinished /\ r.decided[s] = "fail"
        BY <1>2, <2>3, <3>1
      <4>2. r.complete[s] /\ Complete(res[s])
        BY <3>1, <4>1 DEF Sound, I
      <4> QED
        BY <1>2, <3>1, <4>2 DEF I
    <3>2. CASE s = I
      <4>1. ~Valid(identity)
        BY <2>1, <2>3, <3>2 DEF I
      <4>2. FailureTold(t, I, a)
        BY <4>1 DEF I
      <4>3. Complete(a) /\ t.complete[I]
        BY <1>3, <2>3, <4>2 DEF FailureTold
      <4> QED
        BY <3>2, <4>1, <4>3 DEF I
    <3> QED
      BY <3>1, <3>2
  <2> QED
    BY <2>1, <2>2, <2>3 DEF Sound, I
<1>4. ASSUME NEW s \in Subjects, ~Valid(ans[s]) PROVE Failed(t, s)
  <2>1. CASE s # I
    <3>1. r.decided[s] = "fail"
      BY <1>4, <2>1 DEF Sound, I
    <3>2. r.counted[s] = <<"fail">>
      BY <3>1 DEF Book, CountedOK
    <3> QED
      BY <1>2, <2>1, <3>2 DEF Failed
  <2>2. CASE s = I
    BY <1>4, <2>2 DEF FailureTold, I
  <2> QED
    BY <2>1, <2>2
<1> QED
  BY <1>3, <1>4 DEF Counts

\* The answers after the traversal: unmatched nodes are skipped or limited.
EndAnswer(identity, s) ==
  IF s = IdentitySubject THEN identity
  ELSE IF Unmatched[s[1]] = "skipped" THEN "inapplicable"
  ELSE IF Unmatched[s[1]] = "bound" THEN result[s]
  ELSE "limited"

LEMMA EndStep ==
  ASSUME SchemaInv, NEW identity \in {"limited", "cut"}, NEW error \in BOOLEAN, NEW stop,
         EndBinding(identity, error, stop)
  PROVE  SchemaInv'
<1>1. PICK w : w = Told(rec, identity, "invalid", stop)
  OBVIOUS
<1>2. PICK ans : ans = [s \in Subjects |-> EndAnswer(identity, s)]
  OBVIOUS
<1>3. /\ stage = "binding" /\ Running /\ bound[Root] = "bound" /\ bound' = Unmatched
      /\ result' = ans /\ rec' = InterruptedIf(w, error)
      /\ stage' = IF closes THEN "closing" ELSE "phases"
      /\ cursor' = IF closes THEN Due(w, NodeSubjects) ELSE {}
      /\ closes' = closes /\ frames' = frames
  BY <1>1, <1>2 DEF EndBinding, EndAnswer, Told
<1>4. /\ Book(rec) /\ ~rec.interrupted /\ rec.at[1] = 1 /\ Sound(rec, result)
      /\ BindingOK /\ FramesOK /\ OnlyFailures(rec) /\ frames \in Seq(Frame)
      /\ bound \in [Nodes -> Bindings] /\ result \in [Subjects -> Answers]
  BY <1>3, WhileBinding
<1>5. Unmatched \in [Nodes -> Bindings] /\ \A n \in Nodes : Unmatched[n] = "bound" <=> bound[n] = "bound"
  BY <1>3, <1>4, UnmatchedIs
<1>6. /\ IdentitySubject \in Subjects /\ identity \in Answers /\ "invalid" \in Answers /\ "limited" \in Answers
      /\ "inapplicable" \in Answers
      /\ ~Valid("invalid") /\ Valid("limited") /\ Valid("inapplicable") /\ ~Complete("limited")
  BY SubjectsAre DEF Answers, Valid, Complete
<1>7. ans \in [Subjects -> Answers] /\ ans[IdentitySubject] = identity
  BY <1>2, <1>4, <1>6 DEF EndAnswer
<1>8. ASSUME NEW u \in Subjects \ {IdentitySubject}
      PROVE  (~Valid(ans[u]) <=> ~Valid(result[u])) /\ (Complete(result[u]) => Complete(ans[u]))
  <2>1. PICK n \in Nodes, c \in {"scalar", "content", "representable"} : u = <<n, c>>
    BY <1>8, SubjectsAre
  <2>2. u[1] = n /\ ans[u] = EndAnswer(identity, u)
    BY <1>2, <2>1
  <2>3. CASE bound[n] = "bound"
    <3>1. Unmatched[n] = "bound"
      BY <1>5, <2>3
    <3> QED
      BY <2>2, <3>1 DEF EndAnswer
  <2>4. CASE bound[n] # "bound"
    <3>1. result[u] = "limited"
      BY <1>4, <2>1, <2>4, SubjectsAre DEF BindingOK
    <3>2. Unmatched[n] # "bound"
      BY <1>5, <2>4
    <3>3. ans[u] \in {"limited", "inapplicable"}
      BY <2>2, <3>2 DEF EndAnswer
    <3> QED
      BY <1>6, <3>1, <3>3
  <2> QED
    BY <2>3, <2>4
<1>9. Ready(rec, IdentitySubject) /\ rec.decided[IdentitySubject] \in {"none", "fail"}
  BY <1>4, <1>6 DEF OnlyFailures, Ready, Sound
<1>10. PICK t : t = InterruptedIf(w, error)
  OBVIOUS
<1>20. PICK a : a = "invalid"
  OBVIOUS
<1>21. w = Told(rec, identity, a, stop) /\ a \in Answers /\ ~Valid(a)
  BY <1>1, <1>6, <1>20
<1>22. IdentityKept(rec, w, t, identity, a)
  BY <1>4, <1>9, <1>10, <1>21, IdentityRecorded
<1>11. /\ Book(t) /\ t.at = rec.at /\ OthersKept(rec, t, IdentitySubject)
       /\ rec.unfinished => t.unfinished
       /\ t.decided[IdentitySubject] \in {"none", "fail"}
       /\ Valid(identity) => t.decided = rec.decided
       /\ ~Valid(identity) => FailureTold(t, IdentitySubject, a)
  BY <1>22 DEF IdentityKept
<1>12. result[IdentitySubject] = "limited"
  BY <1>4 DEF BindingOK
<1>13. (~t.interrupted => Sound(t, ans)) /\ Counts(t, ans)
  BY <1>4, <1>6, <1>7, <1>8, <1>9, <1>11, <1>12, IdentitySound
<1>14. rec' = t /\ t.at[1] = 1 /\ t.decided[IdentitySubject] \in {"none", "fail"}
  BY <1>3, <1>4, <1>10, <1>11
<1>15. closes \in BOOLEAN /\ stage' \in {"closing", "phases"}
  BY <1>3 DEF SchemaInv
<1>16. NodeSubjects \subseteq Subjects /\ cursor' \subseteq NodeSubjects
  BY <1>3, SubjectsAre DEF Due
<1>17. ~rec.interrupted' => StageOK'
  BY <1>14, <1>15, <1>16 DEF StageOK
<1> QED
  BY <1>3, <1>4, <1>5, <1>7, <1>11, <1>13, <1>14, <1>15, <1>16, <1>17 DEF SchemaInv, Running, Counts

-----------------------------------------------------------------------------
(* Finish                                                                   *)

LEMMA FinalizeStep ==
  ASSUME SchemaInv, NEW identity \in {"valid", "limited", "invalid", "cut"}, NEW error \in BOOLEAN,
         NEW stop, finalizeSourceSchema(identity, error, stop)
  PROVE  SchemaInv'
<1>1. PICK a : a = IF Valid(identity) THEN "invalid" ELSE identity
  OBVIOUS
<1>2. PICK m : m = MoveTo(rec, <<2, 0, 0>>)
  OBVIOUS
<1>3. PICK w : w = Told(m, identity, a, stop)
  OBVIOUS
<1>4. PICK t : t = InterruptedIf(w, error)
  OBVIOUS
<1>5. PICK ans : ans = [result EXCEPT ![IdentitySubject] = identity]
  OBVIOUS
<1>6. /\ (stage = "closing" /\ cursor = {}) \/ (stage = "phases" /\ rec.at[1] = 1)
      /\ Running /\ (~Valid(result[IdentitySubject]) => ~Valid(identity))
      /\ result' = ans /\ rec' = t /\ stage' = "phases" /\ cursor' = Due(w, Subjects)
      /\ closes' = closes /\ frames' = frames /\ bound' = bound
  BY <1>1, <1>2, <1>3, <1>4, <1>5 DEF finalizeSourceSchema, Told
<1>7. /\ Book(rec) /\ ~rec.interrupted /\ Sound(rec, result) /\ StageOK
      /\ result \in [Subjects -> Answers]
  BY <1>6 DEF SchemaInv, Running
<1>8. rec.at[1] = 1 /\ rec.decided[IdentitySubject] \in {"none", "fail"}
  BY <1>6, <1>7 DEF StageOK
<1>9. IdentitySubject \in Subjects /\ identity \in Answers /\ a \in Answers /\ ~Valid(a)
  BY <1>1, SubjectsAre DEF Answers, Valid
<1>10. /\ Book(m) /\ m.at = <<2, 0, 0>> /\ m.decided = rec.decided /\ m.counted = rec.counted
       /\ m.complete = rec.complete /\ m.unfinished = rec.unfinished /\ m.interrupted = rec.interrupted
  BY <1>2, <1>7, MovedIs
<1>11. Ready(m, IdentitySubject)
  BY <1>7, <1>8, <1>9, <1>10 DEF Ready, Sound
<1>12. IdentityKept(m, w, t, identity, a)
  BY <1>3, <1>4, <1>7, <1>9, <1>10, <1>11, IdentityRecorded
<1>13. /\ Book(t) /\ t.at = <<2, 0, 0>> /\ OthersKept(rec, t, IdentitySubject) /\ t.decided = w.decided
       /\ rec.unfinished => t.unfinished
       /\ Valid(identity) => t.decided = rec.decided
       /\ ~Valid(identity) => FailureTold(t, IdentitySubject, a)
  BY <1>10, <1>12 DEF IdentityKept, OthersKept
<1>14. /\ ans \in [Subjects -> Answers] /\ ans[IdentitySubject] = identity
       /\ \A u \in Subjects \ {IdentitySubject} : ans[u] = result[u]
  BY <1>5, <1>7, <1>9
<1>15. ~Valid(identity) /\ t.at[1] # 1 => a = identity
  BY <1>1
<1>16. \A u \in Subjects \ {IdentitySubject} : /\ ~Valid(ans[u]) <=> ~Valid(result[u])
                                               /\ Complete(result[u]) => Complete(ans[u])
  BY <1>14
<1>17. (~t.interrupted => Sound(t, ans)) /\ Counts(t, ans)
  BY <1>6, <1>7, <1>8, <1>13, <1>14, <1>15, <1>16, IdentitySound
<1>18. t.at[1] = 2
  BY <1>13
<1>19. cursor' \subseteq Subjects /\ \A s \in Subjects : t.decided[s] = "none" => s \in cursor'
  BY <1>6, <1>13 DEF Due
<1>20. StageOK'
  BY <1>6, <1>18, <1>19 DEF StageOK
<1> QED
  BY <1>6, <1>13, <1>14, <1>17, <1>19, <1>20 DEF SchemaInv, Running, Counts

\* One evaluation of a pass records the answer of its subject.
Evaluable(r, s) == s # IdentitySubject \/ r.at[1] # 1
Evaluated(r, t, res, s) ==
  /\ Book(t) /\ t.at = r.at /\ Counts(t, res)
  /\ ~t.interrupted => Sound(t, res) /\ t.decided[s] # "none"
  /\ \A u \in Subjects \ {s} : t.decided[u] = r.decided[u]

LEMMA EvaluateRecorded ==
  ASSUME NEW r, Book(r), ~r.interrupted, NEW res, Sound(r, res), NEW s \in Subjects, res[s] \in Answers,
         Evaluable(r, s), NEW stop, NEW t, t = recordXSDResult(r, s, res[s], stop)
  PROVE  Evaluated(r, t, res, s)
<1>1. PICK full \in BOOLEAN : full = Complete(res[s])
  BY CompleteIs
<1>2. PICK o : o = Outcome(s, res[s])
  OBVIOUS
<1>3. /\ o \in Outcomes /\ (o = "fail" <=> ~Valid(res[s]))
      /\ o \in {"pass", "not-applicable"} => full
  BY <1>1, <1>2, OutcomeKinds
<1>4. Book(t) /\ t.at = r.at
      /\ (Untold(r, t, s, o) \/ First(r, t, s, o, full) \/ Again(r, t, s, o, full))
  BY <1>1, <1>2, RecordKinds, BookKept DEF Book
<1>5. /\ r.counted \in [Subjects -> Seq(Outcomes)] /\ r.decided \in [Subjects -> Outcomes \cup {"none"}]
      /\ r.complete \in [Subjects -> BOOLEAN] /\ r.unfinished \in BOOLEAN
      /\ \A u \in Subjects : r.decided[u] = "fail" => r.counted[u] = <<"fail">>
  BY DEF Book, CountedOK, RecType
<1>6. \A u \in Subjects \ {s} : /\ t.decided[u] = r.decided[u] /\ t.counted[u] = r.counted[u]
                                /\ t.complete[u] = r.complete[u]
  <2>1. CASE Untold(r, t, s, o)
    BY <2>1 DEF Untold
  <2>2. CASE First(r, t, s, o, full)
    BY <1>5, <2>2 DEF First
  <2>3. CASE Again(r, t, s, o, full)
    BY <1>5, <2>3 DEF Again
  <2> QED
    BY <1>4, <2>1, <2>2, <2>3
<1>7. r.unfinished => t.unfinished
  BY <1>4 DEF Untold, First, Again
<1>8. r.decided[s] = "fail" => t.counted[s] = <<"fail">>
  BY <1>4, <1>5 DEF Untold, First, Again
<1>9. Counts(t, res)
  <2> SUFFICES ASSUME NEW u \in Subjects, ~Valid(res[u]) PROVE Failed(t, u)
    BY DEF Counts
  <2>1. r.decided[u] = "fail" /\ r.counted[u] = <<"fail">>
    BY <1>5 DEF Sound
  <2> QED
    BY <1>6, <1>8, <2>1 DEF Failed
<1>10. ASSUME ~t.interrupted
       PROVE  /\ t.decided[s] # "none" /\ (t.decided[s] = "fail" <=> ~Valid(res[s]))
              /\ t.decided[s] \in {"pass", "not-applicable"} => full
              /\ ~t.unfinished /\ t.decided[s] = "fail" => t.complete[s] /\ full
  <2>1. /\ r.decided[s] = "fail" <=> ~Valid(res[s])
        /\ r.decided[s] \in {"pass", "not-applicable"} => full
        /\ ~r.unfinished /\ r.decided[s] = "fail" => r.complete[s] /\ full
    BY <1>1 DEF Sound, Evaluable
  <2>2. CASE Untold(r, t, s, o)
    BY <1>10, <2>1, <2>2 DEF Untold
  <2>3. CASE First(r, t, s, o, full)
    <3>1. t.decided[s] = o /\ r.decided[s] = "none" /\ o # "fail"
      BY <1>3, <1>5, <1>10, <2>1, <2>3 DEF First
    <3> QED
      BY <1>3, <3>1 DEF Outcomes
  <2>4. CASE Again(r, t, s, o, full)
    <3>1. /\ t.decided[s] = "fail" /\ r.decided[s] = "fail" /\ o = "fail"
          /\ t.complete = [r.complete EXCEPT ![s] = full /\ @]
      BY <1>10, <2>4 DEF Again
    <3>2. ~t.unfinished => full /\ r.complete[s]
      BY <1>7, <2>1, <3>1
    <3>3. ~t.unfinished => t.complete[s]
      <4> SUFFICES ASSUME ~t.unfinished PROVE t.complete[s]
        OBVIOUS
      <4>1. PICK b \in BOOLEAN : b = (full /\ r.complete[s])
        OBVIOUS
      <4>2. t.complete = [r.complete EXCEPT ![s] = b]
        BY <3>1, <4>1
      <4>3. t.complete[s] = b
        BY <1>5, <4>2
      <4> QED
        BY <3>2, <4>1, <4>3
    <3> QED
      BY <2>1, <3>1, <3>2, <3>3
  <2> QED
    BY <1>4, <2>2, <2>3, <2>4
<1>11. ASSUME ~t.interrupted PROVE Sound(t, res)
  <2>1. ASSUME NEW u \in Subjects
        PROVE  /\ t.decided[u] = "fail" <=> ~Valid(res[u])
               /\ t.decided[u] \in {"pass", "not-applicable"} => Complete(res[u])
    <3>1. CASE u = s
      BY <1>1, <1>10, <1>11, <3>1
    <3>2. CASE u # s
      BY <1>6, <3>2 DEF Sound
    <3> QED
      BY <3>1, <3>2
  <2>2. ASSUME ~t.unfinished, NEW u \in Subjects, t.decided[u] = "fail"
        PROVE  t.complete[u] /\ (u # IdentitySubject \/ t.at[1] # 1 => Complete(res[u]))
    <3>1. CASE u = s
      BY <1>1, <1>10, <1>11, <2>2, <3>1
    <3>2. CASE u # s
      <4>1. ~r.unfinished /\ r.decided[u] = "fail" /\ t.complete[u] = r.complete[u]
        BY <1>6, <1>7, <2>2, <3>2
      <4> QED
        BY <1>4, <4>1 DEF Sound
    <3> QED
      BY <3>1, <3>2
  <2> QED
    BY <2>1, <2>2 DEF Sound
<1> QED
  BY <1>4, <1>6, <1>9, <1>10, <1>11 DEF Evaluated

LEMMA ClosedStep ==
  ASSUME SchemaInv, NEW s \in cursor, NEW stop, EvaluateClosed(s, stop)
  PROVE  SchemaInv'
<1>1. PICK t : t = recordXSDResult(rec, s, result[s], stop)
  OBVIOUS
<1>2. /\ stage = "closing" /\ Running /\ rec' = t /\ cursor' = cursor \ {s}
      /\ UNCHANGED <<stage, closes, frames, bound, result>>
  BY <1>1 DEF EvaluateClosed, Evaluate
<1>3. /\ Book(rec) /\ ~rec.interrupted /\ Sound(rec, result) /\ StageOK
      /\ result \in [Subjects -> Answers] /\ cursor \subseteq Subjects
  BY <1>2 DEF SchemaInv, Running
<1>4. rec.at[1] = 1 /\ cursor \subseteq NodeSubjects /\ rec.decided[IdentitySubject] \in {"none", "fail"}
  BY <1>2, <1>3 DEF StageOK
<1>5. s \in Subjects /\ s # IdentitySubject /\ IdentitySubject \in Subjects \ {s} /\ result[s] \in Answers
  BY <1>3, <1>4, SubjectsAre
<1>6. /\ Book(t) /\ t.at = rec.at /\ Counts(t, result)
      /\ ~t.interrupted => Sound(t, result) /\ t.decided[s] # "none"
      /\ \A u \in Subjects \ {s} : t.decided[u] = rec.decided[u]
  <2>1. Evaluable(rec, s)
    BY <1>5 DEF Evaluable
  <2>2. Evaluated(rec, t, result, s)
    BY <1>1, <1>3, <1>5, <2>1, EvaluateRecorded
  <2> QED
    BY <2>2 DEF Evaluated
<1>7. StageOK'
  BY <1>2, <1>4, <1>5, <1>6 DEF StageOK
<1> QED
  BY <1>2, <1>3, <1>6, <1>7 DEF SchemaInv, Running, Counts

LEMMA FinalStep ==
  ASSUME SchemaInv, NEW s \in cursor, NEW stop, EvaluateFinal(s, stop)
  PROVE  SchemaInv'
<1>1. PICK p : p = <<3, PhaseOf(s), s[1]>>
  OBVIOUS
<1>2. PICK m : m = MoveTo(rec, p)
  OBVIOUS
<1>3. PICK t : t = recordXSDResult(m, s, result[s], stop)
  OBVIOUS
<1>4. /\ stage = "phases" /\ Running /\ rec.at[1] # 1 /\ rec' = t /\ cursor' = cursor \ {s}
      /\ UNCHANGED <<stage, closes, frames, bound, result>>
  BY <1>1, <1>2, <1>3 DEF EvaluateFinal, Evaluate
<1>5. /\ Book(rec) /\ ~rec.interrupted /\ Sound(rec, result) /\ StageOK
      /\ result \in [Subjects -> Answers] /\ cursor \subseteq Subjects
  BY <1>4 DEF SchemaInv, Running
<1>6. /\ Book(m) /\ m.at = p /\ m.decided = rec.decided /\ m.complete = rec.complete
      /\ m.unfinished = rec.unfinished /\ m.interrupted = rec.interrupted
  BY <1>2, <1>5, MovedIs
<1>7. p[1] = 3
  BY <1>1
<1>8. Sound(m, result)
  BY <1>4, <1>5, <1>6, <1>7 DEF Sound
<1>9. s \in Subjects /\ result[s] \in Answers /\ m.at[1] # 1
  BY <1>5, <1>6, <1>7
<1>10. /\ Book(t) /\ t.at = m.at /\ Counts(t, result)
       /\ ~t.interrupted => Sound(t, result) /\ t.decided[s] # "none"
       /\ \A u \in Subjects \ {s} : t.decided[u] = m.decided[u]
  <2>1. Evaluable(m, s)
    BY <1>9 DEF Evaluable
  <2>2. Evaluated(m, t, result, s)
    BY <1>3, <1>5, <1>6, <1>8, <1>9, <2>1, EvaluateRecorded
  <2> QED
    BY <2>2 DEF Evaluated
<1>11. \A u \in Subjects : rec.decided[u] = "none" => u \in cursor
  BY <1>4, <1>5 DEF StageOK
<1>12. ~t.interrupted => \A u \in Subjects : t.decided[u] = "none" => u \in cursor'
  BY <1>4, <1>6, <1>10, <1>11
<1>13. ~t.interrupted => StageOK'
  BY <1>4, <1>6, <1>7, <1>10, <1>12 DEF StageOK
<1> QED
  BY <1>4, <1>5, <1>10, <1>13 DEF SchemaInv, Running, Counts

LEMMA InterruptStep ==
  ASSUME SchemaInv, Interrupt
  PROVE  SchemaInv'
<1>1. /\ stage # "done" /\ rec' = Interrupted(rec) /\ UNCHANGED <<stage, closes, frames, bound, result, cursor>>
  BY DEF Interrupt
<1>2. Book(rec') /\ rec'.interrupted /\ rec'.counted = rec.counted
  BY <1>1, InterruptedBook DEF SchemaInv
<1> QED
  BY <1>1, <1>2 DEF SchemaInv, Running, Failed

LEMMA FlushStep ==
  ASSUME SchemaInv, flushSourceDTDSummaries
  PROVE  SchemaInv'
<1>1. PICK p : p = <<4, 0, 0>>
  OBVIOUS
<1>2. PICK m : m = MoveTo(rec, p)
  OBVIOUS
<1>3. PICK f : f = m.findings \o [i \in DOMAIN rec.summaries |->
                                    [key |-> <<4, 0, 0, i - 1>>, subject |-> rec.summaries[i].first,
                                     outcome |-> "unsupported"]]
  OBVIOUS
<1>4. Book(rec) /\ rec.unfinished \in BOOLEAN /\ rec.interrupted \in BOOLEAN
  BY DEF SchemaInv, Book, RecType
<1>5. /\ Book(m) /\ m.at = p /\ m.decided = rec.decided /\ m.complete = rec.complete
      /\ m.counted = rec.counted /\ m.unfinished = rec.unfinished /\ m.interrupted = rec.interrupted
  BY <1>2, <1>4, MovedIs
<1>6. PICK b \in BOOLEAN : b = (m.unfinished \/ rec.interrupted)
  BY <1>4, <1>5
<1>7. PICK x : x = rec.omitted
  OBVIOUS
<1>8. PICK t : t = [m EXCEPT !.findings = f, !.unfinished = b, !.truncated = x]
  OBVIOUS
<1>9. /\ stage # "done" /\ (Running => stage = "phases" /\ rec.at[1] # 1 /\ cursor = {})
      /\ rec' = t /\ stage' = "done" /\ UNCHANGED <<closes, frames, bound, result, cursor>>
  BY <1>1, <1>2, <1>3, <1>6, <1>7, <1>8 DEF flushSourceDTDSummaries
<1>10. /\ RecType(t) /\ t.at = p /\ t.decided = rec.decided /\ t.complete = rec.complete
       /\ t.counted = rec.counted /\ t.unfinished = b /\ t.interrupted = rec.interrupted
  BY <1>5, <1>8 DEF Book, RecType
<1>11. Book(t)
  BY <1>4, <1>10 DEF Book, CountedOK
<1>12. ASSUME ~t.interrupted PROVE Sound(t, result) /\ t.at[1] # 1 /\ \A s \in Subjects : t.decided[s] # "none"
  <2>1. Running /\ Sound(rec, result) /\ StageOK
    BY <1>10, <1>12 DEF SchemaInv, Running
  <2>2. t.at[1] = 4
    BY <1>1, <1>10
  <2>3. b = rec.unfinished
    BY <1>4, <1>5, <1>6, <2>1 DEF Running
  <2>4. Sound(t, result)
    BY <1>9, <1>10, <2>1, <2>2, <2>3 DEF Sound
  <2> QED
    BY <1>9, <1>10, <2>1, <2>2, <2>4 DEF StageOK
<1>13. ~t.interrupted => StageOK'
  BY <1>9, <1>12 DEF StageOK
<1>14. t.interrupted => t.unfinished
  BY <1>6, <1>10
<1> QED
  BY <1>9, <1>10, <1>11, <1>12, <1>13, <1>14 DEF SchemaInv, Running, Failed

-----------------------------------------------------------------------------
(* The theorems                                                             *)

LEMMA InitHolds == Init => SchemaInv
<1> SUFFICES ASSUME Init PROVE SchemaInv
  OBVIOUS
<1>1. /\ stage = "binding" /\ closes \in BOOLEAN /\ frames = <<>> /\ cursor = {}
      /\ bound = [n \in Nodes |-> "none"] /\ result = [s \in Subjects |-> "limited"]
  BY DEF Init
<1>2. PICK no : no = FALSE
  OBVIOUS
<1>3. PICK none, nil, false, zero : /\ none = [s \in Subjects |-> "none"] /\ nil = [s \in Subjects |-> <<>>]
                                    /\ false = [s \in Subjects |-> no] /\ zero = [s \in Subjects |-> 0]
  OBVIOUS
<1>4. rec = [at |-> <<1, 0, 0>>, decided |-> none, counted |-> nil, details |-> zero, complete |-> false,
             findings |-> <<>>, summaries |-> <<>>, omitted |-> no, unfinished |-> no,
             truncated |-> no, interrupted |-> no]
  BY <1>2, <1>3 DEF Init, Unrecorded
<1>5. /\ rec.at = <<1, 0, 0>> /\ rec.decided = none /\ rec.counted = nil /\ rec.complete = false
      /\ rec.unfinished = no /\ rec.interrupted = no
      /\ rec = [at |-> rec.at, decided |-> rec.decided, counted |-> rec.counted, details |-> rec.details,
                complete |-> rec.complete, findings |-> rec.findings, summaries |-> rec.summaries,
                omitted |-> rec.omitted, unfinished |-> rec.unfinished, truncated |-> rec.truncated,
                interrupted |-> rec.interrupted]
  BY <1>4
<1>6. /\ none \in [Subjects -> Outcomes \cup {"none"}] /\ nil \in [Subjects -> Seq(Outcomes)]
      /\ false \in [Subjects -> BOOLEAN] /\ no \in BOOLEAN
  <2>1. no \in BOOLEAN
    BY <1>2
  <2>2. false \in [Subjects -> BOOLEAN]
    BY <1>3, <2>1
  <2>3. PICK e : e = <<>>
    OBVIOUS
  <2>4. e \in Seq(Outcomes)
    BY <2>3
  <2>5. nil = [s \in Subjects |-> e]
    BY <1>3, <2>3
  <2>6. nil \in [Subjects -> Seq(Outcomes)]
    BY <2>4, <2>5
  <2>7. none \in [Subjects -> Outcomes \cup {"none"}]
    BY <1>3
  <2> QED
    BY <2>1, <2>2, <2>6, <2>7
<1>7. Book(rec)
  <2>1. RecType(rec)
    BY <1>5, <1>6 DEF RecType
  <2>2. CountedOK(rec)
    BY <1>3, <1>5 DEF CountedOK
  <2> QED
    BY <2>1, <2>2 DEF Book
<1>8. "limited" \in Answers /\ Valid("limited")
  BY DEF Answers, Valid
<1>9. result \in [Subjects -> Answers] /\ \A s \in Subjects : Valid(result[s])
  BY <1>1, <1>8
<1>10. Sound(rec, result)
  BY <1>3, <1>5, <1>9 DEF Sound
<1>11. BindingOK
  <2>1. DOMAIN frames = {}
    BY <1>1
  <2>2. FramesOK
    BY <2>1 DEF FramesOK
  <2>3. \A n \in Nodes : \A c \in ToSet(Checks) : result[<<n, c>>] = "limited"
    BY <1>1, NodeSubject, SubjectsAre
  <2>4. result[IdentitySubject] = "limited"
    BY <1>1, SubjectsAre
  <2> QED
    BY <1>1, <1>3, <1>5, <2>2, <2>3, <2>4 DEF BindingOK
<1>12. StageOK
  <2>1. rec.at[1] = 1 /\ rec.decided[IdentitySubject] = "none"
    BY <1>3, <1>5, SubjectsAre
  <2> QED
    BY <1>1, <1>11, <2>1 DEF StageOK
<1>13. bound \in [Nodes -> Bindings] /\ frames \in Seq(Frame)
  BY <1>1 DEF Bindings
<1> QED
  BY <1>1, <1>7, <1>9, <1>10, <1>12, <1>13 DEF SchemaInv

LEMMA StutterStep ==
  ASSUME SchemaInv, UNCHANGED vars
  PROVE  SchemaInv'
<1>1. /\ stage' = stage /\ closes' = closes /\ frames' = frames /\ bound' = bound
      /\ result' = result /\ cursor' = cursor /\ rec' = rec
  BY DEF vars
<1>2. FramesOK => FramesOK'
  BY <1>1 DEF FramesOK, Children
<1>3. BindingOK => BindingOK'
  BY <1>1, <1>2 DEF BindingOK
<1>4. StageOK => StageOK'
  BY <1>1, <1>3 DEF StageOK
<1>5. Book(rec') /\ (~rec.interrupted => Sound(rec', result'))
  BY <1>1 DEF SchemaInv, Running
<1>6. (\E s \in Subjects : ~Valid(result'[s])) => \E s \in Subjects : Failed(rec', s)
  BY <1>1 DEF SchemaInv
<1> QED
  BY <1>1, <1>4, <1>5, <1>6 DEF SchemaInv, Running

\* The inductive invariant of the schema part of a session: what is counted is
\* what is decided (recordXSDResult); while the session runs the decided
\* failures are the proved ones and a report that is not incomplete has only
\* complete failures; the traversal's stack holds bound nodes whose waiting
\* children are unbound (bindSourceSchema); and a finished session has decided
\* every subject (evaluateXSD in Finish) or is incomplete.
THEOREM SchemaInductive == Spec => []SchemaInv
<1>1. Init => SchemaInv
  BY InitHolds
<1>2. SchemaInv /\ [Next]_vars => SchemaInv'
  <2> SUFFICES ASSUME SchemaInv, [Next]_vars PROVE SchemaInv'
    OBVIOUS
  <2>1. CASE UNCHANGED vars
    BY <2>1, StutterStep
  <2>2. ASSUME NEW n \in Entered, NEW scalar \in ScalarAnswers[n], NEW content \in ContentAnswers[n],
               NEW error \in BOOLEAN, NEW stop \in CheckStops, NEW kinds \in [Children(n) -> Kinds],
               Enter(n, [scalar |-> scalar, content |-> content], kinds, error, stop)
        PROVE  SchemaInv'
    BY <2>2, EnterStep
  <2>3. ASSUME NEW answer \in {"valid", "invalid", "limited"}, NEW error \in BOOLEAN, NEW stop \in CheckStops,
               CompleteNode(answer, error, stop)
        PROVE  SchemaInv'
    BY <2>3, CompleteStep
  <2>4. ASSUME NEW identity \in {"limited", "cut"}, NEW error \in BOOLEAN, NEW stop \in Stops,
               EndBinding(identity, error, stop)
        PROVE  SchemaInv'
    BY <2>4, EndStep
  <2>5. ASSUME NEW s \in cursor, NEW stop \in Stops, EvaluateClosed(s, stop) PROVE SchemaInv'
    BY <2>5, ClosedStep
  <2>6. ASSUME NEW identity \in {"valid", "limited", "invalid", "cut"}, NEW error \in BOOLEAN,
               NEW stop \in Stops, finalizeSourceSchema(identity, error, stop)
        PROVE  SchemaInv'
    BY <2>6, FinalizeStep
  <2>7. ASSUME NEW s \in cursor, NEW stop \in Stops, EvaluateFinal(s, stop) PROVE SchemaInv'
    BY <2>7, FinalStep
  <2>8. CASE Interrupt
    BY <2>8, InterruptStep
  <2>9. CASE flushSourceDTDSummaries
    BY <2>9, FlushStep
  <2> QED
    BY <2>1, <2>2, <2>3, <2>4, <2>5, <2>6, <2>7, <2>8, <2>9 DEF Next
<1> QED
  BY <1>1, <1>2, PTL DEF Spec

\* The set of what a sequence of at most one outcome holds.
LEMMA CountedSet ==
  /\ ToSet(<<>>) = {}
  /\ \A o : ToSet(<<o>>) = {o}
  /\ Len(<<>>) = 0 /\ \A o : Len(<<o>>) = 1
BY DEF ToSet

LEMMA CountedKinds ==
  ASSUME Book(rec), NEW s \in Subjects
  PROVE  /\ rec.counted[s] = <<>> \/ \E o \in Outcomes : rec.counted[s] = <<o>>
         /\ rec.decided[s] # "none" => rec.counted[s] = <<rec.decided[s]>> /\ rec.decided[s] \in Outcomes
         /\ Running /\ rec.decided[s] = "none" => rec.counted[s] = <<>>
         /\ Failed(rec, s) <=> CountedAs(s, "fail")
<1>1. rec.decided[s] \in Outcomes \cup {"none"}
  BY DEF Book, RecType
<1>2. /\ rec.counted[s] = <<>> \/ \E o \in Outcomes : rec.counted[s] = <<o>>
      /\ rec.decided[s] # "none" => rec.counted[s] = <<rec.decided[s]>>
      /\ Running /\ rec.decided[s] = "none" => rec.counted[s] = <<>>
  BY <1>1 DEF Book, CountedOK, Running
<1>3. Failed(rec, s) <=> CountedAs(s, "fail")
  <2>1. CASE rec.counted[s] = <<>>
    BY <2>1, CountedSet DEF Failed, CountedAs
  <2>2. ASSUME NEW o \in Outcomes, rec.counted[s] = <<o>> PROVE Failed(rec, s) <=> CountedAs(s, "fail")
    BY <2>2, CountedSet DEF Failed, CountedAs
  <2> QED
    BY <1>2, <2>1, <2>2
<1> QED
  BY <1>1, <1>2, <1>3

\* What the schema run proves is in the verdict, once: a check recorded at
\* entry, at completion, by the preview and again in Finish is counted one time,
\* and no interruption loses the document's violation (recordXSDResult,
\* recordXSDProvedFailures), for every document and every answer of the run.
THEOREM FailuresAreCountedOnce == Spec => []FailuresCountedOnce
<1>1. SchemaInv => FailuresCountedOnce
  <2> SUFFICES ASSUME SchemaInv PROVE FailuresCountedOnce
    OBVIOUS
  <2>1. Book(rec)
    BY DEF SchemaInv
  <2>2. CountedOnce
    <3> SUFFICES ASSUME NEW s \in Subjects
                 PROVE  /\ Len(rec.counted[s]) <= 1
                        /\ rec.decided[s] # "none" => rec.counted[s] = <<rec.decided[s]>>
      BY DEF CountedOnce
    <3>1. rec.counted[s] = <<>> \/ \E o \in Outcomes : rec.counted[s] = <<o>>
      BY <2>1, CountedKinds
    <3>2. Len(rec.counted[s]) <= 1
      <4>1. CASE rec.counted[s] = <<>>
        BY <4>1, CountedSet
      <4>2. ASSUME NEW o \in Outcomes, rec.counted[s] = <<o>> PROVE Len(rec.counted[s]) <= 1
        BY <4>2, CountedSet
      <4> QED
        BY <3>1, <4>1, <4>2
    <3> QED
      BY <2>1, <3>2, CountedKinds
  <2>3. ASSUME Running, NEW s \in Subjects PROVE ~Valid(result[s]) <=> CountedAs(s, "fail")
    <3>1. Sound(rec, result)
      BY <2>3 DEF SchemaInv
    <3>2. rec.decided[s] = "fail" <=> ~Valid(result[s])
      BY <3>1 DEF Sound
    <3>3. rec.decided[s] = "fail" <=> Failed(rec, s)
      <4>1. CASE rec.decided[s] = "none"
        BY <2>1, <2>3, <4>1, CountedKinds DEF Failed
      <4>2. CASE rec.decided[s] # "none"
        BY <2>1, <4>2, CountedKinds DEF Failed
      <4> QED
        BY <4>1, <4>2
    <3> QED
      BY <2>1, <3>2, <3>3, CountedKinds
  <2>4. ASSUME NEW s \in Subjects, ~Valid(result[s]) PROVE \E u \in Subjects : CountedAs(u, "fail")
    <3>1. PICK u \in Subjects : Failed(rec, u)
      BY <2>4 DEF SchemaInv
    <3> QED
      BY <2>1, <3>1, CountedKinds
  <2>5. FailureNeverLost
    BY <2>3, <2>4 DEF FailureNeverLost
  <2> QED
    BY <2>2, <2>5 DEF FailuresCountedOnce
<1> QED
  BY <1>1, SchemaInductive, PTL

\* A report that calls itself complete has assessed every subject completely:
\* an interrupted Finish, a limited answer or a failure whose assessment was
\* cut short later leave it incomplete (recordXSDResult's done branch,
\* finalizeSourceSchema, evaluateXSD).
THEOREM CompleteReportsAreAssessed == Spec => []CompleteMeansAssessed
<1>1. SchemaInv => CompleteMeansAssessed
  <2> SUFFICES ASSUME SchemaInv, stage = "done", ~rec.unfinished,
                      \A s \in Subjects : \A o \in ToSet(rec.counted[s]) : ~Unresolved(o),
                      NEW s \in Subjects
               PROVE  Complete(result[s]) /\ rec.counted[s] # <<>>
    BY DEF CompleteMeansAssessed
  <2>1. Book(rec) /\ Running /\ Sound(rec, result) /\ StageOK
    BY DEF SchemaInv, Running
  <2>2. rec.at[1] # 1 /\ rec.decided[s] # "none"
    BY <2>1 DEF StageOK
  <2>3. rec.counted[s] = <<rec.decided[s]>> /\ rec.decided[s] \in Outcomes
    BY <2>1, <2>2, CountedKinds
  <2>4. rec.decided[s] \in ToSet(rec.counted[s])
    BY <2>3, CountedSet
  <2>5. rec.decided[s] \in {"fail", "pass", "not-applicable"}
    BY <2>3, <2>4 DEF Unresolved, Outcomes
  <2>6. Complete(result[s])
    BY <2>1, <2>2, <2>5 DEF Sound
  <2> QED
    BY <2>3, <2>6
<1> QED
  BY <1>1, SchemaInductive, PTL

-----------------------------------------------------------------------------
(* The keys of the findings                                                 *)

Position == Nat \X Nat \X Nat
Finding == [key : Nat \X Nat \X Nat \X Nat, subject : Subjects, outcome : Outcomes]
Summary == [check : {"scalar", "content", "representable", "identity"}, first : Subjects, count : Nat]

\* A position, or the position of a key, is before a position.
Before(k, p) == \/ k[1] < p[1]
                \/ k[1] = p[1] /\ k[2] < p[2]
                \/ k[1] = p[1] /\ k[2] = p[2] /\ k[3] < p[3]
Same(k, p) == k[1] = p[1] /\ k[2] = p[2] /\ k[3] = p[3]
StepsBack(k, p) == k[1] = 1 /\ p[1] = 1 /\ p[3] \in Ancestors(k[3])

LastKey(r) == r.findings[Len(r.findings)].key

\* The findings are in order, and the current position may follow the last one.
Filed(r) ==
  /\ r.at \in Position /\ r.findings \in Seq(Finding) /\ r.summaries \in Seq(Summary)
  /\ \A i \in 1..(Len(r.findings) - 1) :
       LET k == r.findings[i].key
           l == r.findings[i + 1].key
       IN Precedes(k, l) \/ StepsBack(k, l)
  /\ r.findings # <<>> => Before(LastKey(r), r.at) \/ Same(LastKey(r), r.at) \/ StepsBack(LastKey(r), r.at)

\* The traversal in document order: a frame's node is an ancestor of those
\* above it; the entered nodes come before the waiting ones, and what waits
\* above comes before what waits below; and the last finding is at an entered
\* node, from which every frame's node can be reached.
StackOrdered ==
  \A i, j \in DOMAIN frames :
    i < j => /\ frames[i].node < frames[j].node /\ frames[i].node \in Ancestors(frames[j].node)
             /\ \A a \in frames[j].rest, b \in frames[i].rest : a < b
EnteredFirst ==
  /\ \A i \in DOMAIN frames : \A b \in frames[i].rest : \A v \in Nodes : bound[v] = "bound" => v < b
  /\ bound[Root] = "none" => frames = <<>> /\ \A v \in Nodes : bound[v] # "bound"
LastReached ==
  rec.findings # <<>> =>
    /\ LastKey(rec)[1] = 1 /\ LastKey(rec)[2] = 0
    /\ LastKey(rec)[3] \in Nodes /\ bound[LastKey(rec)[3]] = "bound"
    /\ \A i \in DOMAIN frames : \/ LastKey(rec)[3] <= frames[i].node
                                \/ frames[i].node \in Ancestors(LastKey(rec)[3])

\* The evaluations of the final phases that are left come after the position.
FinalPosition(s) == <<3, PhaseOf(s), s[1]>>
PassOrdered == \A s \in cursor : Before(rec.at, FinalPosition(s))

KeysInv ==
  /\ Filed(rec)
  /\ stage # "done" => rec.at[1] <= 3
  /\ Running /\ stage = "binding" => StackOrdered /\ EnteredFirst /\ LastReached
  /\ Running /\ stage = "phases" /\ rec.at[1] # 1 => PassOrdered

\* What a recording does to the findings: nothing, or it appends one at the
\* current position.
SameFile(r, t) == t.at = r.at /\ t.findings = r.findings /\ t.summaries = r.summaries
NewFinding(r, s, o) == [key |-> Key(r), subject |-> s, outcome |-> o]
Files(r, t, s, o) ==
  /\ t.at = r.at
  /\ t.findings = r.findings \/ t.findings = Append(r.findings, NewFinding(r, s, o))

LEMMA KeyOfSame ==
  ASSUME NEW r, NEW t, SameFile(r, t)
  PROVE  Key(t) = Key(r)
BY DEF Key, SameFile

LEMMA StoreFiles ==
  ASSUME NEW r, RecType(r), NEW s, NEW o
  PROVE  /\ Store(r, s, o).at = r.at /\ Store(r, s, o).summaries = r.summaries
         /\ Store(r, s, o).findings = Append(r.findings, NewFinding(r, s, o))
<1>1. PICK f : f = Append(r.findings, NewFinding(r, s, o))
  OBVIOUS
<1>2. PICK t : t = [r EXCEPT !.findings = f]
  OBVIOUS
<1>3. t.at = r.at /\ t.summaries = r.summaries /\ t.findings = f
  BY <1>2 DEF RecType
<1>4. Store(r, s, o) = t
  BY <1>1, <1>2 DEF Store, NewFinding
<1> QED
  BY <1>1, <1>3, <1>4

LEMMA CountFiles ==
  ASSUME NEW r, RecType(r), NEW s \in Subjects, NEW a \in Answers
  PROVE  SameFile(r, CountOutcome(r, s, a)) /\ RecType(CountOutcome(r, s, a))
<1>1. PICK q, b : /\ q = [r.counted EXCEPT ![s] = Append(@, Outcome(s, a))]
                  /\ b = (r.unfinished \/ ~Complete(a))
  OBVIOUS
<1>2. PICK c : c = (r.unfinished \/ (r.complete[s] /\ ~Complete(a)))
  OBVIOUS
<1>3. PICK t, w : t = [r EXCEPT !.counted = q, !.unfinished = b] /\ w = [r EXCEPT !.unfinished = c]
  OBVIOUS
<1>4. SameFile(r, t) /\ SameFile(r, w)
  BY <1>3 DEF SameFile, RecType
<1>5. CountOutcome(r, s, a) = IF r.decided[s] = "none" THEN t ELSE w
  BY <1>1, <1>2, <1>3 DEF CountOutcome
<1> QED
  BY <1>4, <1>5, CountIs

LEMMA ReportFiles ==
  ASSUME NEW r, RecType(r), NEW s \in Subjects, NEW a \in Answers
  PROVE  /\ Files(r, Report(r, s, a), s, Outcome(s, a)) /\ Report(r, s, a).summaries = r.summaries
         /\ RecType(Report(r, s, a))
<1>1. PICK k : k = CountOutcome(r, s, a)
  OBVIOUS
<1>2. SameFile(r, k) /\ RecType(k)
  BY <1>1, CountFiles
<1>3. NewFinding(k, s, Outcome(s, a)) = NewFinding(r, s, Outcome(s, a))
  BY <1>2, KeyOfSame DEF NewFinding
<1>4. PICK w : w = Store(k, s, Outcome(s, a))
  OBVIOUS
<1>5. w.at = r.at /\ w.summaries = r.summaries /\ w.findings = Append(r.findings, NewFinding(r, s, Outcome(s, a)))
  BY <1>2, <1>3, <1>4, StoreFiles DEF SameFile
<1>6. Report(r, s, a) = IF Stores(r, s, a) THEN w ELSE k
  BY <1>1, <1>4 DEF Report
<1> QED
  BY <1>2, <1>5, <1>6, ReportIs DEF Files, SameFile

LEMMA RetainFiles ==
  ASSUME NEW r, RecType(r), NEW s \in Subjects, NEW a \in Answers
  PROVE  SameFile(Report(r, s, a), Retain(r, s, a)) /\ RecType(Retain(r, s, a))
<1>1. PICK p : p = Report(r, s, a)
  OBVIOUS
<1>2. RecType(p)
  BY <1>1, ReportFiles
<1>3. PICK d, q : /\ d = [p.details EXCEPT ![s] = Issues(a)]
                  /\ q = [p.complete EXCEPT ![s] = Complete(a) /\ (~(r.decided[s] # "none") \/ @)]
  OBVIOUS
<1>4. PICK t : t = [p EXCEPT !.details = d, !.complete = q]
  OBVIOUS
<1>5. SameFile(p, t) /\ SameFile(p, p)
  BY <1>2, <1>4 DEF SameFile, RecType
<1>6. Retain(r, s, a) = IF Outcome(s, a) = "fail" THEN t ELSE p
  BY <1>1, <1>3, <1>4 DEF Retain, retainFailure
<1> QED
  BY <1>1, <1>5, <1>6, RetainIs

LEMMA CacheFiles ==
  ASSUME NEW r, RecType(r), NEW s \in Subjects, NEW a \in Answers
  PROVE  SameFile(Report(r, s, a), Cache(r, s, a)) /\ RecType(Cache(r, s, a))
<1>1. PICK p : p = Retain(r, s, a)
  OBVIOUS
<1>2. RecType(p) /\ SameFile(Report(r, s, a), p)
  BY <1>1, RetainFiles
<1>3. PICK q : q = [p.decided EXCEPT ![s] = Outcome(s, a)]
  OBVIOUS
<1>4. PICK t : t = [p EXCEPT !.decided = q]
  OBVIOUS
<1>5. SameFile(p, t)
  BY <1>2, <1>4 DEF SameFile, RecType
<1>6. Cache(r, s, a) = t
  BY <1>1, <1>3, <1>4 DEF Cache
<1> QED
  BY <1>2, <1>5, <1>6, CacheIs DEF SameFile

LEMMA OneFieldFiles ==
  ASSUME NEW r, RecType(r), NEW x
  PROVE  /\ SameFile(r, [r EXCEPT !.omitted = x]) /\ SameFile(r, [r EXCEPT !.interrupted = x])
         /\ [r EXCEPT !.summaries = x].at = r.at /\ [r EXCEPT !.summaries = x].findings = r.findings
         /\ [r EXCEPT !.summaries = x].summaries = x
<1>1. PICK t : t = [r EXCEPT !.omitted = x]
  OBVIOUS
<1>2. PICK u : u = [r EXCEPT !.interrupted = x]
  OBVIOUS
<1>3. PICK v : v = [r EXCEPT !.summaries = x]
  OBVIOUS
<1>4. SameFile(r, t)
  BY <1>1 DEF SameFile, RecType
<1>5. SameFile(r, u)
  BY <1>2 DEF SameFile, RecType
<1>6. v.at = r.at /\ v.findings = r.findings /\ v.summaries = x
  BY <1>3 DEF RecType
<1> QED
  BY <1>1, <1>2, <1>3, <1>4, <1>5, <1>6

LEMMA InterruptedFiles ==
  ASSUME NEW r, RecType(r), NEW error
  PROVE  SameFile(r, Interrupted(r)) /\ SameFile(r, InterruptedIf(r, error))
<1>1. PICK yes, either : yes = TRUE /\ either = (r.interrupted \/ error)
  OBVIOUS
<1>2. PICK t, u : t = [r EXCEPT !.interrupted = yes] /\ u = [r EXCEPT !.interrupted = either]
  OBVIOUS
<1>3. SameFile(r, t) /\ SameFile(r, u)
  BY <1>2 DEF SameFile, RecType
<1>4. Interrupted(r) = t /\ InterruptedIf(r, error) = u
  BY <1>1, <1>2 DEF Interrupted, InterruptedIf
<1> QED
  BY <1>3, <1>4

\* A summary is opened for the subject, or counts it.
LEMMA SummaryFiles ==
  ASSUME NEW r, RecType(r), r.summaries \in Seq(Summary), NEW s \in Subjects, NEW refused,
         NEW t, t = deferSourceDTDSummary(r, s, refused)
  PROVE  t.at = r.at /\ t.findings = r.findings /\ t.summaries \in Seq(Summary)
<1>1. PICK open : open = {i \in DOMAIN r.summaries : r.summaries[i].check = s[2]}
  OBVIOUS
<1>2. PICK k : k = CHOOSE i \in open : TRUE
  OBVIOUS
<1>3. PICK u : u = [r.summaries EXCEPT ![k].count = @ + 1]
  OBVIOUS
<1>4. PICK e : e = [check |-> s[2], first |-> s, count |-> 1]
  OBVIOUS
<1>5. PICK v : v = Append(r.summaries, e)
  OBVIOUS
<1>6. PICK yes : yes = TRUE
  OBVIOUS
<1>7. t = IF open # {} THEN [r EXCEPT !.summaries = u]
          ELSE IF refused THEN [r EXCEPT !.omitted = yes] ELSE [r EXCEPT !.summaries = v]
  BY <1>1, <1>2, <1>3, <1>4, <1>5, <1>6 DEF deferSourceDTDSummary
<1>8. CASE open # {}
  <2>1. k \in DOMAIN r.summaries
    BY <1>1, <1>2, <1>8
  <2>2. r.summaries[k] \in Summary /\ r.summaries \in [1..Len(r.summaries) -> Summary] /\ Len(r.summaries) \in Nat
    BY <2>1
  <2>3. PICK f : f = [r.summaries[k] EXCEPT !.count = @ + 1]
    OBVIOUS
  <2>4. f \in Summary
    BY <2>2, <2>3 DEF Summary
  <2>5. u = [r.summaries EXCEPT ![k] = f]
    BY <1>3, <2>3
  <2>6. u \in [1..Len(r.summaries) -> Summary]
    BY <2>1, <2>2, <2>4, <2>5
  <2>7. u \in Seq(Summary)
    BY <2>2, <2>6
  <2> QED
    BY <1>7, <1>8, <2>7, OneFieldFiles
<1>9. CASE open = {}
  <2>1. e \in Summary
    <3>1. s[2] \in {"scalar", "content", "representable", "identity"}
      BY SubjectsAre DEF IdentitySubject
    <3> QED
      BY <1>4, <3>1 DEF Summary
  <2>2. v \in Seq(Summary)
    BY <1>5, <2>1
  <2> QED
    BY <1>7, <1>9, <2>2, OneFieldFiles DEF SameFile
<1> QED
  BY <1>8, <1>9

LEMMA RecordFiles ==
  ASSUME NEW r, RecType(r), r.summaries \in Seq(Summary), NEW s \in Subjects, NEW a \in Answers, NEW stop,
         NEW t, t = recordXSDResult(r, s, a, stop)
  PROVE  Files(r, t, s, Outcome(s, a)) /\ t.summaries \in Seq(Summary)
<1>1. PICK refused : refused = (stop = "summary")
  OBVIOUS
<1>2. PICK p : p = Report(r, s, a)
  OBVIOUS
<1>3. PICK q : q = Interrupted(p)
  OBVIOUS
<1>4. PICK x : x = (q.omitted \/ DefersDTD(r, s, a))
  OBVIOUS
<1>5. PICK k, c : k = CountOutcome(r, s, a) /\ c = Cache(r, s, a)
  OBVIOUS
<1>6. t \in {r, Interrupted(r), Interrupted(k), [q EXCEPT !.omitted = x], Retain(r, s, a), c,
             deferSourceDTDSummary(c, s, refused)}
  BY <1>1, <1>2, <1>3, <1>4, <1>5 DEF recordXSDResult
<1>7. Files(r, p, s, Outcome(s, a)) /\ p.summaries = r.summaries /\ RecType(p)
  BY <1>2, ReportFiles
<1>8. SameFile(r, Interrupted(r)) /\ SameFile(r, Interrupted(k)) /\ SameFile(r, r)
  <2>1. SameFile(r, k) /\ RecType(k)
    BY <1>5, CountFiles
  <2> QED
    BY <2>1, InterruptedFiles DEF SameFile
<1>9. SameFile(p, [q EXCEPT !.omitted = x]) /\ SameFile(p, Retain(r, s, a)) /\ SameFile(p, c) /\ RecType(c)
  <2>1. SameFile(p, q) /\ RecType(q)
    BY <1>3, <1>7, InterruptedFiles, InterruptedIs
  <2>2. SameFile(q, [q EXCEPT !.omitted = x])
    BY <2>1, OneFieldFiles
  <2>3. SameFile(p, [q EXCEPT !.omitted = x])
    BY <2>1, <2>2 DEF SameFile
  <2> QED
    BY <1>2, <1>5, <2>3, RetainFiles, CacheFiles
<1>10. CASE SameFile(r, t)
  BY <1>10 DEF SameFile, Files
<1>11. CASE SameFile(p, t)
  BY <1>7, <1>11 DEF SameFile, Files
<1>12. CASE t = deferSourceDTDSummary(c, s, refused)
  <2>1. c.summaries \in Seq(Summary)
    BY <1>7, <1>9 DEF SameFile
  <2>2. t.at = c.at /\ t.findings = c.findings /\ t.summaries \in Seq(Summary)
    BY <1>9, <1>12, <2>1, SummaryFiles
  <2> QED
    BY <1>7, <1>9, <2>2 DEF SameFile, Files
<1> QED
  BY <1>6, <1>8, <1>9, <1>10, <1>11, <1>12

-----------------------------------------------------------------------------
(* Keys in order                                                            *)

LEMMA PrecedesIs ==
  ASSUME NEW k \in Nat \X Nat \X Nat \X Nat, NEW l \in Nat \X Nat \X Nat \X Nat,
         Before(k, l) \/ (Same(k, l) /\ k[4] < l[4])
  PROVE  Precedes(k, l)
<1>1. CASE k[1] < l[1]
  <2>1. 1 \in 1..4 /\ \A j \in 1..(1 - 1) : k[j] = l[j]
    OBVIOUS
  <2> QED
    BY <1>1, <2>1 DEF Precedes
<1>2. CASE k[1] = l[1] /\ k[2] < l[2]
  <2>1. 2 \in 1..4 /\ \A j \in 1..(2 - 1) : j = 1
    OBVIOUS
  <2>2. \A j \in 1..(2 - 1) : k[j] = l[j]
    BY <1>2, <2>1
  <2> QED
    BY <1>2, <2>1, <2>2 DEF Precedes
<1>3. CASE k[1] = l[1] /\ k[2] = l[2] /\ k[3] < l[3]
  <2>1. 3 \in 1..4 /\ \A j \in 1..(3 - 1) : j = 1 \/ j = 2
    OBVIOUS
  <2>2. \A j \in 1..(3 - 1) : k[j] = l[j]
    BY <1>3, <2>1
  <2> QED
    BY <1>3, <2>1, <2>2 DEF Precedes
<1>4. CASE Same(k, l) /\ k[4] < l[4]
  <2>1. 4 \in 1..4 /\ \A j \in 1..(4 - 1) : j = 1 \/ j = 2 \/ j = 3
    OBVIOUS
  <2>2. \A j \in 1..(4 - 1) : k[j] = l[j]
    BY <1>4, <2>1 DEF Same
  <2> QED
    BY <1>4, <2>1, <2>2 DEF Precedes
<1> QED
  BY <1>1, <1>2, <1>3, <1>4 DEF Before

LEMMA KeyParts ==
  ASSUME NEW a \in Nat, NEW b \in Nat, NEW c \in Nat, NEW i \in Nat
  PROVE  <<a, b, c>> \o <<i>> = <<a, b, c, i>>
<1>1. PICK p, q, u : p = <<a, b, c>> /\ q = <<i>> /\ u = <<a, b, c, i>>
  OBVIOUS
<1>2. /\ p \in Seq(Nat) /\ Len(p) = 3 /\ p[1] = a /\ p[2] = b /\ p[3] = c
      /\ q \in Seq(Nat) /\ Len(q) = 1 /\ q[1] = i
      /\ u \in Seq(Nat) /\ Len(u) = 4 /\ u[1] = a /\ u[2] = b /\ u[3] = c /\ u[4] = i
  BY <1>1
<1>3. PICK t : t = p \o q
  OBVIOUS
<1>4. t \in Seq(Nat) /\ Len(t) = 4 /\ \A j \in 1..4 : t[j] = IF j <= 3 THEN p[j] ELSE q[j - 3]
  <2>1. p \in Seq(Nat) /\ q \in Seq(Nat)
    BY <1>2
  <2>2. /\ p \o q \in Seq(Nat) /\ Len(p \o q) = Len(p) + Len(q)
        /\ \A j \in 1..(Len(p) + Len(q)) : (p \o q)[j] = IF j <= Len(p) THEN p[j] ELSE q[j - Len(p)]
    BY <2>1, ConcatProperties
  <2>3. t \in Seq(Nat) /\ Len(t) = Len(p) + Len(q)
        /\ \A j \in 1..(Len(p) + Len(q)) : t[j] = IF j <= Len(p) THEN p[j] ELSE q[j - Len(p)]
    BY <1>3, <2>2
  <2>4. Len(p) = 3 /\ Len(q) = 1
    BY <1>2
  <2> QED
    BY <2>3, <2>4
<1>5. t[1] = a /\ t[2] = b /\ t[3] = c /\ t[4] = i
  BY <1>2, <1>4
<1>6. \A j \in 1..4 : j = 1 \/ j = 2 \/ j = 3 \/ j = 4
  OBVIOUS
<1>7. t = u
  <2>1. \A j \in 1..4 : t[j] = u[j]
    BY <1>2, <1>5, <1>6
  <2> QED
    BY <1>2, <1>4, <2>1, SeqEqual
<1> QED
  BY <1>1, <1>3, <1>7

LEMMA KeyHead ==
  ASSUME NEW a \in Nat, NEW b \in Nat, NEW c \in Nat, NEW i \in Nat, NEW u, u = <<a, b, c, i>>
  PROVE  SubSeq(u, 1, 3) = <<a, b, c>>
<1>1. PICK p : p = <<a, b, c>>
  OBVIOUS
<1>2. /\ p \in Seq(Nat) /\ Len(p) = 3 /\ p[1] = a /\ p[2] = b /\ p[3] = c
      /\ u \in Seq(Nat) /\ Len(u) = 4 /\ u[1] = a /\ u[2] = b /\ u[3] = c /\ u[4] = i
  BY <1>1
<1>3. PICK w : w = SubSeq(u, 1, 3)
  OBVIOUS
<1>4. w \in Seq(Nat) /\ Len(w) = 3 /\ w[1] = a /\ w[2] = b /\ w[3] = c
  BY <1>2, <1>3
<1>5. \A j \in 1..3 : j = 1 \/ j = 2 \/ j = 3
  OBVIOUS
<1>6. \A j \in 1..3 : w[j] = p[j]
  BY <1>2, <1>4, <1>5
<1>7. w = p
  BY <1>2, <1>4, <1>6, SeqEqual
<1> QED
  BY <1>1, <1>3, <1>7

\* The last key has its parts.
LEMMA LastKeyIs ==
  ASSUME NEW r, Filed(r), r.findings # <<>>
  PROVE  /\ Len(r.findings) \in Nat \ {0} /\ LastKey(r) \in Nat \X Nat \X Nat \X Nat
         /\ Last(r.findings).key = LastKey(r)
         /\ LastKey(r)[1] <= r.at[1]
<1>1. r.findings \in Seq(Finding) /\ r.at \in Position
  BY DEF Filed
<1>2. Len(r.findings) \in Nat \ {0} /\ r.findings[Len(r.findings)] \in Finding
  BY <1>1
<1>3. LastKey(r) \in Nat \X Nat \X Nat \X Nat
  BY <1>2 DEF LastKey, Finding
<1>4. Before(LastKey(r), r.at) \/ Same(LastKey(r), r.at) \/ StepsBack(LastKey(r), r.at)
  BY DEF Filed
<1>5. LastKey(r)[1] \in Nat /\ r.at[1] \in Nat
  BY <1>1, <1>3 DEF Position
<1>6. LastKey(r)[1] <= r.at[1]
  BY <1>4, <1>5 DEF Before, Same, StepsBack
<1>7. Last(r.findings).key = LastKey(r)
  BY DEF LastKey, Last
<1> QED
  BY <1>2, <1>3, <1>6, <1>7

\* nextKey at a position that may follow the last finding.
LEMMA KeyIs ==
  ASSUME NEW r, Filed(r)
  PROVE  /\ Key(r) \in Nat \X Nat \X Nat \X Nat /\ Same(Key(r), r.at)
         /\ r.findings # <<>> => Precedes(LastKey(r), Key(r)) \/ StepsBack(LastKey(r), Key(r))
<1>1. PICK a \in Nat, b \in Nat, c \in Nat : r.at = <<a, b, c>>
  <2>1. r.at \in Nat \X Nat \X Nat
    BY DEF Filed, Position
  <2> QED
    BY <2>1
<1>2. CASE r.findings = <<>>
  <2>1. Key(r) = <<a, b, c>> \o <<0>>
    BY <1>1, <1>2 DEF Key
  <2>2. Key(r) = <<a, b, c, 0>>
    BY <2>1, KeyParts
  <2> QED
    BY <1>1, <1>2, <2>2 DEF Same
<1>3. CASE r.findings # <<>>
  <2>1. /\ LastKey(r) \in Nat \X Nat \X Nat \X Nat /\ Last(r.findings).key = LastKey(r)
    BY <1>3, LastKeyIs
  <2>2. PICK d \in Nat, e \in Nat, f \in Nat, g \in Nat : LastKey(r) = <<d, e, f, g>>
    BY <2>1
  <2>3. SubSeq(LastKey(r), 1, 3) = <<d, e, f>>
    BY <2>2, KeyHead
  <2>4. PICK i \in Nat : i = IF <<d, e, f>> = <<a, b, c>> THEN g + 1 ELSE 0
    OBVIOUS
  <2>5. LastKey(r)[4] = g
    BY <2>2
  <2>6. Key(r) = <<a, b, c>> \o <<i>>
    BY <1>1, <1>3, <2>1, <2>3, <2>4, <2>5 DEF Key
  <2>7. Key(r) = <<a, b, c, i>>
    BY <2>6, KeyParts
  <2>8. Key(r) \in Nat \X Nat \X Nat \X Nat /\ Same(Key(r), r.at)
    BY <1>1, <2>7 DEF Same
  <2>9. Before(LastKey(r), r.at) \/ Same(LastKey(r), r.at) \/ StepsBack(LastKey(r), r.at)
    BY <1>3 DEF Filed
  <2>10. CASE Before(LastKey(r), r.at)
    <3>1. Before(LastKey(r), Key(r))
      BY <2>8, <2>10 DEF Before, Same
    <3> QED
      BY <2>1, <2>8, <3>1, PrecedesIs
  <2>11. CASE Same(LastKey(r), r.at)
    <3>1. d = a /\ e = b /\ f = c
      BY <1>1, <2>2, <2>11 DEF Same
    <3>2. i = g + 1 /\ Same(LastKey(r), Key(r))
      BY <2>2, <2>4, <2>7, <3>1 DEF Same
    <3>3. LastKey(r)[4] < Key(r)[4]
      BY <2>2, <2>7, <3>2
    <3> QED
      BY <2>1, <2>8, <3>2, <3>3, PrecedesIs
  <2>12. CASE StepsBack(LastKey(r), r.at)
    BY <2>8, <2>12 DEF StepsBack, Same
  <2> QED
    BY <2>8, <2>9, <2>10, <2>11, <2>12
<1> QED
  BY <1>2, <1>3

\* What is filed after recordings at one position.
Filing(r, t) ==
  /\ Filed(t) /\ t.at = r.at
  /\ t.findings = r.findings \/ (t.findings # <<>> /\ Same(LastKey(t), r.at))

LEMMA FiledSame ==
  ASSUME NEW r, Filed(r), NEW t, t.at = r.at, t.findings = r.findings, t.summaries \in Seq(Summary)
  PROVE  Filing(r, t)
BY DEF Filed, LastKey, Filing

LEMMA FiledMore ==
  ASSUME NEW r, Filed(r), NEW s \in Subjects, NEW o \in Outcomes, NEW t, t.at = r.at,
         t.findings = Append(r.findings, NewFinding(r, s, o)), t.summaries \in Seq(Summary)
  PROVE  Filing(r, t)
<1>1. PICK e : e = NewFinding(r, s, o)
  OBVIOUS
<1>2. PICK n : n = Len(r.findings)
  OBVIOUS
<1>3. e \in Finding /\ e.key = Key(r)
  BY <1>1, KeyIs DEF NewFinding, Finding
<1>4. /\ n \in Nat /\ r.findings \in Seq(Finding) /\ t.findings \in Seq(Finding) /\ Len(t.findings) = n + 1
      /\ t.findings[n + 1] = e /\ \A i \in 1..n : t.findings[i] = r.findings[i]
      /\ t.findings # <<>>
  <2>1. r.findings \in Seq(Finding)
    BY DEF Filed
  <2>2. t.findings = Append(r.findings, e)
    BY <1>1
  <2> QED
    BY <1>2, <1>3, <2>1, <2>2
<1>5. LastKey(t) = Key(r)
  BY <1>3, <1>4 DEF LastKey
<1>6. Same(LastKey(t), t.at)
  BY <1>5, KeyIs
<1>7. ASSUME NEW i \in 1..(Len(t.findings) - 1)
      PROVE  \/ Precedes(t.findings[i].key, t.findings[i + 1].key)
             \/ StepsBack(t.findings[i].key, t.findings[i + 1].key)
  <2>1. CASE i = n
    <3>1. n # 0 /\ r.findings # <<>> /\ n \in 1..n
      BY <1>2, <1>4, <2>1
    <3>2. t.findings[i].key = LastKey(r) /\ t.findings[i + 1].key = Key(r)
      BY <1>2, <1>3, <1>4, <2>1, <3>1 DEF LastKey
    <3> QED
      BY <3>1, <3>2, KeyIs
  <2>2. CASE i # n
    <3>1. i \in 1..(n - 1) /\ i \in 1..n /\ i + 1 \in 1..n
      BY <1>4, <2>2
    <3>2. t.findings[i] = r.findings[i] /\ t.findings[i + 1] = r.findings[i + 1]
      BY <1>4, <3>1
    <3> QED
      BY <1>2, <3>1, <3>2 DEF Filed
  <2> QED
    BY <2>1, <2>2
<1> QED
  BY <1>4, <1>6, <1>7 DEF Filed, Filing

LEMMA RecordFiled ==
  ASSUME NEW r, RecType(r), Filed(r), NEW s \in Subjects, NEW a \in Answers, NEW stop,
         NEW t, t = recordXSDResult(r, s, a, stop)
  PROVE  Filing(r, t)
<1>1. PICK o : o = Outcome(s, a)
  OBVIOUS
<1>2. o \in Outcomes /\ r.summaries \in Seq(Summary)
  BY <1>1, OutcomeKinds DEF Filed
<1>3. Files(r, t, s, o) /\ t.summaries \in Seq(Summary)
  BY <1>1, <1>2, RecordFiles
<1> QED
  BY <1>2, <1>3, FiledSame, FiledMore DEF Files

LEMMA FilingMore ==
  ASSUME NEW r, NEW t, Filing(r, t), NEW w, Filing(t, w)
  PROVE  Filing(r, w)
BY DEF Filing, LastKey

LEMMA FilingSame ==
  ASSUME NEW r, NEW t, Filing(r, t), NEW w, SameFile(t, w)
  PROVE  Filing(r, w)
BY DEF Filing, SameFile, LastKey, Filed

LEMMA RecordTyped ==
  ASSUME NEW r, RecType(r), NEW s \in Subjects, NEW a \in Answers, NEW stop,
         NEW t, t = recordXSDResult(r, s, a, stop)
  PROVE  RecType(t)
<1>1. CASE r.interrupted
  BY <1>1 DEF recordXSDResult
<1>2. CASE ~r.interrupted
  BY <1>2, RecordKinds
<1> QED
  BY <1>1, <1>2

LEMMA FiledOne ==
  ASSUME NEW m, NEW x, Filing(m, x), RecType(x), NEW ans \in [Subjects -> Answers], NEW s \in Subjects,
         NEW stop, NEW w, w = IF Valid(ans[s]) THEN x ELSE recordXSDResult(x, s, ans[s], stop)
  PROVE  Filing(m, w) /\ RecType(w)
<1>1. CASE Valid(ans[s])
  BY <1>1
<1>2. CASE ~Valid(ans[s])
  <2>1. ans[s] \in Answers /\ Filed(x) /\ w = recordXSDResult(x, s, ans[s], stop)
    BY <1>2 DEF Filing
  <2>2. RecType(w) /\ Filing(x, w)
    BY <2>1, RecordTyped, RecordFiled
  <2> QED
    BY <2>2, FilingMore
<1> QED
  BY <1>1, <1>2

\* The failures of a node are filed at its position.
LEMMA ProvedFiled ==
  ASSUME NEW r, Book(r), NEW n \in Nodes, NEW ans \in [Subjects -> Answers],
         NEW stop, NEW error \in BOOLEAN, NEW m, m = MoveTo(r, <<1, 0, n>>), Filed(m),
         NEW t, t = InterruptedIf(recordXSDProvedFailures(r, n, ans, stop), error)
  PROVE  Filing(m, t)
<1> DEFINE s1 == <<n, "scalar">>
           s2 == <<n, "content">>
           s3 == <<n, "representable">>
           Where(c) == IF stop.check = c THEN stop.where ELSE "never"
<1>1. PICK w1 : w1 = Where("scalar")
  OBVIOUS
<1>2. PICK w2 : w2 = Where("content")
  OBVIOUS
<1>3. PICK w3 : w3 = Where("representable")
  OBVIOUS
<1>4. PICK t1 : t1 = IF Valid(ans[s1]) THEN m ELSE recordXSDResult(m, s1, ans[s1], w1)
  OBVIOUS
<1>5. PICK t2 : t2 = IF Valid(ans[s2]) THEN t1 ELSE recordXSDResult(t1, s2, ans[s2], w2)
  OBVIOUS
<1>6. PICK t3 : t3 = IF Valid(ans[s3]) THEN t2 ELSE recordXSDResult(t2, s3, ans[s3], w3)
  OBVIOUS
<1>7. t = InterruptedIf(t3, error)
  BY <1>1, <1>2, <1>3, <1>4, <1>5, <1>6 DEF recordXSDProvedFailures
<1>8. s1 \in Subjects /\ s2 \in Subjects /\ s3 \in Subjects
  BY NodeSubject
<1>9. PICK p : p = <<1, 0, n>>
  OBVIOUS
<1>10. RecType(m)
  <2>1. m = MoveTo(r, p)
    BY <1>9
  <2> QED
    BY <2>1, MovedIs DEF Book
<1>11. Filing(m, m)
  BY DEF Filing
<1> HIDE DEF s1, s2, s3
<1>12. Filing(m, t1) /\ RecType(t1)
  BY <1>4, <1>8, <1>10, <1>11, FiledOne
<1>13. Filing(m, t2) /\ RecType(t2)
  BY <1>5, <1>8, <1>12, FiledOne
<1>14. Filing(m, t3) /\ RecType(t3)
  BY <1>6, <1>8, <1>13, FiledOne
<1>15. SameFile(t3, t)
  BY <1>7, <1>14, InterruptedFiles
<1> QED
  BY <1>14, <1>15, FilingSame

-----------------------------------------------------------------------------
(* Ancestors                                                                *)

AboveUpTo(g, k) == g = [m \in 0..k |-> IF m \in {0, Root} THEN {} ELSE {Parent[m]} \cup g[Parent[m]]]

LEMMA AboveExists == \E g : AboveUpTo(g, Cardinality(Nodes))
<1> DEFINE N == Cardinality(Nodes)
           S == {k \in Nat : k <= N => \E g : AboveUpTo(g, k)}
           Step(g, n) == IF n \in {0, Root} THEN {} ELSE {Parent[n]} \cup g[Parent[n]]
<1>1. N \in Nat /\ Nodes = 1..N
  BY DocumentAssumption, FS_CardinalityType
<1> HIDE DEF N
<1>2. 0 \in S
  <2> DEFINE g == [n \in 0..0 |-> {}]
  <2>1. \A n \in 0..0 : n \in {0, Root}
    OBVIOUS
  <2>2. g = [n \in 0..0 |-> IF n \in {0, Root} THEN {} ELSE {Parent[n]} \cup g[Parent[n]]]
    BY <2>1
  <2>3. AboveUpTo(g, 0)
    BY <2>2 DEF AboveUpTo
  <2> QED
    BY <2>3
<1>3. ASSUME NEW k \in Nat, k \in S PROVE k + 1 \in S
  <2> SUFFICES ASSUME k + 1 <= N PROVE \E h : AboveUpTo(h, k + 1)
    OBVIOUS
  <2>1. PICK g : AboveUpTo(g, k)
    BY <1>1, <1>3
  <2>2. g = [n \in 0..k |-> Step(g, n)]
    BY <2>1 DEF AboveUpTo
  <2> DEFINE h == [n \in 0..(k + 1) |-> IF n = k + 1 THEN Step(g, n) ELSE g[n]]
  <2>3. ASSUME NEW n \in 0..(k + 1) PROVE h[n] = Step(h, n)
    <3>1. h[n] = Step(g, n)
      <4>1. CASE n = k + 1
        BY <4>1
      <4>2. CASE n # k + 1
        <5>1. n \in 0..k
          BY <4>2
        <5>2. g[n] = Step(g, n)
          BY <2>2, <5>1
        <5> HIDE DEF Step
        <5> QED
          BY <4>2, <5>2
      <4> QED
        BY <4>1, <4>2
    <3>2. CASE n \in {0, Root}
      BY <3>1, <3>2
    <3>3. CASE n \notin {0, Root}
      <4>1. n \in Nodes \ {Root}
        BY <1>1, <3>3
      <4>2. Parent[n] \in 1..(n - 1)
        BY <4>1, DocumentAssumption
      <4>3. Parent[n] \in 0..(k + 1) /\ Parent[n] # k + 1
        BY <4>2
      <4>4. h[Parent[n]] = g[Parent[n]]
        BY <4>3
      <4> HIDE DEF h
      <4> QED
        BY <3>1, <3>3, <4>4
    <3> QED
      BY <3>2, <3>3
  <2> HIDE DEF Step
  <2>4. h = [n \in 0..(k + 1) |-> Step(h, n)]
    BY <2>3
  <2>5. AboveUpTo(h, k + 1)
    BY <2>4 DEF AboveUpTo, Step
  <2> QED
    BY <2>5
<1>4. N \in S
  BY <1>1, <1>2, <1>3, Induction
<1> QED
  BY <1>1, <1>4 DEF N

LEMMA AncestorsIs ==
  ASSUME NEW n \in Nodes, n # Root
  PROVE  Ancestors(n) = {Parent[n]} \cup Ancestors(Parent[n])
<1> DEFINE G == CHOOSE g : AboveUpTo(g, Cardinality(Nodes))
<1>1. \A m : Ancestors(m) = G[m]
  BY DEF Ancestors, AboveUpTo
<1>2. AboveUpTo(G, Cardinality(Nodes))
  BY AboveExists
<1> HIDE DEF G
<1>3. n \in 0..Cardinality(Nodes) /\ n \notin {0, Root}
  BY DocumentAssumption, FS_CardinalityType
<1>4. G[n] = {Parent[n]} \cup G[Parent[n]]
  BY <1>2, <1>3 DEF AboveUpTo
<1> QED
  BY <1>1, <1>4

-----------------------------------------------------------------------------
(* Every step keeps the keys in order                                       *)

\* Moving to a position that may follow the last finding.
MayFollow(r, p) == r.findings # <<>> => Before(LastKey(r), p) \/ Same(LastKey(r), p) \/ StepsBack(LastKey(r), p)

LEMMA MovedFiled ==
  ASSUME NEW r, RecType(r), Filed(r), NEW p \in Position, MayFollow(r, p), NEW m, m = MoveTo(r, p)
  PROVE  Filed(m) /\ m.at = p /\ m.findings = r.findings /\ RecType(m)
<1>1. m = [r EXCEPT !.at = p]
  BY DEF MoveTo
<1>2. m.at = p /\ m.findings = r.findings /\ m.summaries = r.summaries /\ RecType(m)
  BY <1>1 DEF RecType
<1>3. LastKey(m) = LastKey(r)
  BY <1>2 DEF LastKey
<1> QED
  BY <1>2, <1>3 DEF Filed, MayFollow

\* The last finding is at a node of the schema stage from which n is reached.
Reaches(r, n) ==
  r.findings # <<>> => /\ LastKey(r)[1] = 1 /\ LastKey(r)[2] = 0 /\ LastKey(r)[3] \in Nat
                       /\ LastKey(r)[3] <= n \/ n \in Ancestors(LastKey(r)[3])
AtNode(r, n) == r.findings # <<>> /\ LastKey(r)[1] = 1 /\ LastKey(r)[2] = 0 /\ LastKey(r)[3] = n

LEMMA NodeFiled ==
  ASSUME NEW r, Book(r), Filed(r), NEW n \in Nodes, Reaches(r, n), NEW ans \in [Subjects -> Answers],
         NEW stop, NEW error \in BOOLEAN,
         NEW t, t = InterruptedIf(recordXSDProvedFailures(r, n, ans, stop), error)
  PROVE  Filed(t) /\ t.at = <<1, 0, n>> /\ (t.findings = r.findings \/ AtNode(t, n))
<1>1. PICK p : p = <<1, 0, n>>
  OBVIOUS
<1>2. n \in Nat
  BY SubjectsAre
<1>3. p \in Position /\ p[1] = 1 /\ p[2] = 0 /\ p[3] = n
  BY <1>1, <1>2 DEF Position
<1>4. MayFollow(r, p)
  BY <1>2, <1>3 DEF MayFollow, Reaches, Before, Same, StepsBack
<1>5. PICK m : m = MoveTo(r, p)
  OBVIOUS
<1>6. Filed(m) /\ m.at = p /\ m.findings = r.findings
  BY <1>3, <1>4, <1>5, MovedFiled DEF Book
<1>7. Filing(m, t)
  BY <1>1, <1>5, <1>6, ProvedFiled
<1> QED
  BY <1>1, <1>3, <1>6, <1>7 DEF Filing, Same, AtNode

\* What KeysInv says while the schema is bound.
LEMMA BindingKeys ==
  ASSUME SchemaInv, KeysInv, stage = "binding", Running
  PROVE  StackOrdered /\ EnteredFirst /\ LastReached /\ Filed(rec)
BY DEF KeysInv

\* The traversal's part of the invariant after a step.
LEMMA TraversalKeys ==
  ASSUME stage' = "binding", NEW n \in Nodes, NEW t, rec' = t, Filed(t), t.at[1] = 1,
         StackOrdered', EnteredFirst', LastReached'
  PROVE  KeysInv'
BY DEF KeysInv

LEMMA NodesAre ==
  ASSUME NEW n \in Nodes
  PROVE  n \in Nat /\ (n # Root => Parent[n] \in Nodes /\ Parent[n] < n /\ Parent[n] \in Nat)
<1>1. Nodes = 1..Cardinality(Nodes) /\ Cardinality(Nodes) \in Nat
  BY DocumentAssumption, FS_CardinalityType
<1>2. n # Root => Parent[n] \in 1..(n - 1)
  BY DocumentAssumption
<1> QED
  BY <1>1, <1>2

LEMMA CompleteKeys ==
  ASSUME SchemaInv, KeysInv, NEW answer \in {"valid", "invalid", "limited"}, NEW error \in BOOLEAN, NEW stop,
         CompleteNode(answer, error, stop)
  PROVE  KeysInv'
<1>1. PICK k, n : k = Len(frames) /\ n = frames[k].node
  OBVIOUS
<1>2. PICK ans : ans = Completed(n, answer, error)
  OBVIOUS
<1>3. /\ stage = "binding" /\ Running /\ UNCHANGED <<stage, closes, cursor>> /\ bound' = bound
      /\ frames # <<>> /\ frames' = Front(frames) /\ result' = ans
      /\ rec' = IF answer = "limited" THEN Interrupted(rec)
                ELSE InterruptedIf(recordXSDProvedFailures(rec, n, ans, stop), error)
  BY <1>1, <1>2 DEF CompleteNode, Completed, Aborted, Last
<1>4. /\ Book(rec) /\ ~rec.interrupted /\ rec.at[1] = 1 /\ BindingOK /\ FramesOK /\ frames \in Seq(Frame)
      /\ bound \in [Nodes -> Bindings] /\ result \in [Subjects -> Answers]
  BY <1>3, WhileBinding
<1>5. StackOrdered /\ EnteredFirst /\ LastReached /\ Filed(rec)
  BY <1>3, BindingKeys
<1>6. /\ k \in Nat \ {0} /\ DOMAIN frames = 1..k /\ k \in DOMAIN frames /\ DOMAIN frames' = 1..(k - 1)
      /\ \A i \in 1..(k - 1) : frames'[i] = frames[i] /\ i \in DOMAIN frames /\ i < k
  <2>1. k \in Nat \ {0} /\ DOMAIN frames = 1..k
    BY <1>1, <1>3, <1>4
  <2>2. frames' = SubSeq(frames, 1, k - 1)
    BY <1>1, <1>3 DEF Front
  <2>3. DOMAIN frames' = 1..(k - 1) /\ \A i \in 1..(k - 1) : frames'[i] = frames[i]
    BY <1>1, <1>4, <2>1, <2>2
  <2> QED
    BY <2>1, <2>3
<1>7. n \in Nodes /\ result[<<n, "representable">>] = "limited" /\ bound[n] = "bound"
  <2>1. frames[k] \in Frame
    BY <1>4, <1>6
  <2> QED
    BY <1>1, <1>4, <1>6, <2>1 DEF Frame, FramesOK
<1>8. ans \in [Subjects -> Answers]
  <2>1. result[IdentitySubject] = "limited" /\ answer \in Answers
    BY <1>4 DEF BindingOK, Answers
  <2> QED
    BY <1>2, <1>4, <1>7, <2>1, CompletedAnswers
<1>9. CASE answer = "limited"
  <2>1. rec' = Interrupted(rec)
    BY <1>3, <1>9
  <2>2. SameFile(rec, rec') /\ rec'.interrupted /\ rec'.at = rec.at
    BY <1>4, <2>1, InterruptedFiles, InterruptedIs DEF Book
  <2>3. Filed(rec')
    BY <1>5, <2>2 DEF SameFile, Filed, LastKey
  <2> QED
    BY <1>3, <1>4, <2>2, <2>3 DEF KeysInv, Running
<1>10. CASE answer # "limited"
  <2>1. PICK t : t = InterruptedIf(recordXSDProvedFailures(rec, n, ans, stop), error)
    OBVIOUS
  <2>2. Reaches(rec, n)
    <3>1. \A m \in Nodes : m \in Nat
      BY NodesAre
    <3> QED
      BY <1>1, <1>5, <1>6, <3>1 DEF LastReached, Reaches
  <2>3. Filed(t) /\ t.at = <<1, 0, n>> /\ (t.findings = rec.findings \/ AtNode(t, n))
    BY <1>4, <1>5, <1>7, <1>8, <2>1, <2>2, NodeFiled
  <2>4. rec' = t /\ t.at[1] = 1
    BY <1>3, <1>10, <2>1, <2>3
  <2>5. StackOrdered'
    BY <1>5, <1>6 DEF StackOrdered, Ancestors
  <2>6. EnteredFirst'
    <3>1. bound[Root] # "none"
      BY <1>3, <1>5 DEF EnteredFirst
    <3>2. \A i \in DOMAIN frames' : i \in DOMAIN frames /\ frames'[i] = frames[i]
      BY <1>6
    <3> QED
      BY <1>3, <1>5, <3>1, <3>2 DEF EnteredFirst
  <2>7. LastReached'
    <3> SUFFICES ASSUME t.findings # <<>>
                 PROVE  /\ LastKey(t)[1] = 1 /\ LastKey(t)[2] = 0
                        /\ LastKey(t)[3] \in Nodes /\ bound'[LastKey(t)[3]] = "bound"
                        /\ \A i \in DOMAIN frames' : \/ LastKey(t)[3] <= frames'[i].node
                                                     \/ frames'[i].node \in Ancestors(LastKey(t)[3])
      BY <2>4 DEF LastReached, LastKey, Ancestors
    <3>1. CASE t.findings = rec.findings
      <4>1. LastKey(t) = LastKey(rec)
        BY <3>1 DEF LastKey
      <4>2. \A i \in DOMAIN frames' : i \in DOMAIN frames /\ frames'[i] = frames[i]
        BY <1>6
      <4> QED
        BY <1>3, <1>5, <3>1, <4>1, <4>2 DEF LastReached
    <3>2. CASE AtNode(t, n)
      <4>1. ASSUME NEW i \in DOMAIN frames' PROVE frames'[i].node \in Ancestors(n)
        <5>1. i \in DOMAIN frames /\ i < k /\ frames'[i] = frames[i] /\ k \in DOMAIN frames
          BY <1>6
        <5> QED
          BY <1>1, <1>5, <5>1 DEF StackOrdered
      <4> QED
        BY <1>3, <1>7, <3>2, <4>1 DEF AtNode
    <3> QED
      BY <2>3, <3>1, <3>2
  <2>8. stage' = "binding"
    BY <1>3
  <2> QED
    BY <1>7, <2>3, <2>4, <2>5, <2>6, <2>7, <2>8, TraversalKeys
<1> QED
  BY <1>9, <1>10

\* The nodes that wait come after the one that is entered, and its children
\* come before them.
LEMMA WaitAfter ==
  ASSUME StackOrdered, FramesOK, frames \in Seq(Frame), NEW n \in Entered, n \in Nodes, bound[n] = "none",
         NEW base, base = Without(n),
         /\ base \in Seq(Frame) /\ DOMAIN base = DOMAIN frames
         /\ \A i \in DOMAIN base : /\ base[i].node = frames[i].node /\ base[i].rest \subseteq frames[i].rest
                                   /\ n \notin base[i].rest,
         NEW i \in DOMAIN frames, NEW b \in base[i].rest
  PROVE  /\ b \in Nodes /\ b \in Nat /\ n < b
         /\ \A a \in Children(n) : a \in Nodes => a < b
<1>1. PICK k : k = Len(frames)
  OBVIOUS
<1>2. k \in DOMAIN frames /\ DOMAIN frames = 1..k /\ k \in Nat /\ frames # <<>>
  BY <1>1
<1>3. n \in frames[k].rest /\ \A m \in frames[k].rest : n <= m
  BY <1>1, <1>2 DEF Entered
<1>4. b \in frames[i].rest /\ b # n /\ b \in Children(frames[i].node)
  <2>1. i \in DOMAIN base
    OBVIOUS
  <2>2. b \in frames[i].rest /\ b # n
    BY <2>1
  <2> QED
    BY <2>2 DEF FramesOK
<1>5. b \in Nodes /\ Parent[b] = frames[i].node /\ n \in Children(frames[k].node)
  BY <1>2, <1>3, <1>4 DEF Children, FramesOK
<1>6. b \in Nat /\ n \in Nat
  BY <1>5, NodesAre
<1>7. n < b
  <2>1. CASE i = k
    BY <1>3, <1>4, <1>6, <2>1
  <2>2. CASE i # k
    <3>1. i < k
      BY <1>2, <2>2
    <3> QED
      BY <1>2, <1>3, <1>4, <3>1 DEF StackOrdered
  <2> QED
    BY <2>1, <2>2
<1>8. frames[i].node < n /\ frames[i].node \in Nat
  <2>1. Parent[n] = frames[k].node /\ n # Root
    <3>1. Parent[n] = frames[k].node
      BY <1>5 DEF Children
    <3>2. frames[k] \in Frame
      BY <1>2
    <3>3. frames[k].node \in Nat \ {0}
      BY <3>2, SubjectsAre DEF Frame
    <3> QED
      BY <3>1, <3>3, DocumentAssumption
  <2>2. frames[k].node < n /\ frames[k].node \in Nat
    BY <2>1, NodesAre
  <2>3. frames[i].node \in Nat
    <3>1. frames[i] \in Frame
      OBVIOUS
    <3> QED
      BY <3>1, SubjectsAre DEF Frame
  <2>4. i # k => frames[i].node < frames[k].node
    <3>1. i # k => i < k
      BY <1>2
    <3> QED
      BY <1>2, <3>1 DEF StackOrdered
  <2> QED
    BY <1>6, <2>2, <2>3, <2>4
<1>9. ASSUME NEW a \in Children(n), a \in Nodes PROVE a < b
  <2>1. Parent[a] = n /\ a \in Nat
    BY <1>9, NodesAre DEF Children
  <2>2. a # b
    BY <1>5, <1>6, <1>8, <2>1
  <2>3. b < a => Parent[a] <= Parent[b]
    BY <1>5, <1>7, <1>9, <2>1, PreorderAssumption
  <2>4. ~(b < a)
    BY <1>5, <1>6, <1>8, <2>1, <2>3
  <2> QED
    BY <1>6, <2>1, <2>2, <2>4
<1> QED
  BY <1>5, <1>6, <1>7, <1>9

LEMMA EnterKeys ==
  ASSUME SchemaInv, KeysInv, NEW n \in Entered, NEW scalar \in ScalarAnswers[n], NEW content \in ContentAnswers[n],
         NEW error \in BOOLEAN, NEW stop, NEW kinds,
         Enter(n, [scalar |-> scalar, content |-> content], kinds, error, stop)
  PROVE  KeysInv'
<1>0. PICK D : D = {m \in Children(n) : kinds[m] = "declared"}
  OBVIOUS
<1>1. /\ stage = "binding" /\ Running /\ UNCHANGED <<stage, closes, cursor>>
      /\ bound' = [m \in Nodes |-> IF m = n THEN "bound"
                                   ELSE IF m \in Children(n) /\ kinds[m] \in {"skipped", "unavailable"}
                                     THEN kinds[m] ELSE bound[m]]
  BY DEF Enter
<1>2. PICK ans : ans = [s \in Subjects |-> IF s[1] = n /\ s[2] \in ToSet(LocalChecks)
                           THEN [scalar |-> scalar, content |-> content][s[2]] ELSE result[s]]
  OBVIOUS
<1>3. rec' = InterruptedIf(recordXSDProvedFailures(rec, n, ans, stop), error)
  BY <1>2 DEF Enter
<1>4. PICK base : base = Without(n)
  OBVIOUS
<1>5. PICK f : f = [node |-> n, rest |-> D]
  OBVIOUS
<1>6. frames' = Append(base, f) /\ f.node = n /\ f.rest = D
  BY <1>0, <1>4, <1>5 DEF Enter, Without
<1>7. /\ Book(rec) /\ ~rec.interrupted /\ BindingOK /\ FramesOK /\ frames \in Seq(Frame)
      /\ bound \in [Nodes -> Bindings] /\ result \in [Subjects -> Answers]
  BY <1>1, WhileBinding
<1>8. StackOrdered /\ EnteredFirst /\ LastReached /\ Filed(rec)
  BY <1>1, BindingKeys
<1>9. /\ n \in Nodes /\ bound[n] = "none" /\ (frames = <<>> => n = Root)
      /\ frames # <<>> => Len(frames) \in DOMAIN frames /\ n \in frames[Len(frames)].rest
  BY <1>7, EnteredIs
<1>10. /\ base \in Seq(Frame) /\ Len(base) = Len(frames) /\ DOMAIN base = DOMAIN frames
       /\ \A i \in DOMAIN base : /\ base[i].node = frames[i].node /\ base[i].rest \subseteq frames[i].rest
                                 /\ n \notin base[i].rest
  BY <1>4, <1>7, Waiting
<1>11. ans \in [Subjects -> Answers]
  <2>1. scalar \in Answers /\ content \in Answers
    BY <1>9, DocumentAssumption
  <2> QED
    BY <1>2, <1>7, <1>9, <2>1, EnteredAnswers
<1>12. \A m \in Children(n) : m \in Nodes /\ m # n /\ m # Root /\ Parent[m] = n /\ bound[m] = "none"
  BY <1>7, <1>9, ChildrenUnbound
<1>13. /\ \A m \in Nodes : bound[m] = "bound" => bound'[m] = "bound"
       /\ \A m \in Nodes : bound'[m] = "bound" => m = n \/ bound[m] = "bound"
       /\ bound'[n] = "bound"
  BY <1>1, <1>9, <1>12
<1>14. PICK k : k = Len(frames)
  OBVIOUS
<1>15. /\ DOMAIN frames' = 1..(k + 1) /\ DOMAIN frames = 1..k /\ k \in Nat
       /\ \A i \in DOMAIN frames : frames'[i] = base[i]
       /\ frames'[k + 1] = f
       /\ \A i \in DOMAIN frames' : i \in DOMAIN frames \/ i = k + 1
  <2>1. D \subseteq Nodes
    BY <1>0, <1>12
  <2>2. f \in Frame
    BY <1>5, <1>9, <2>1 DEF Frame
  <2>3. /\ DOMAIN frames' = 1..(Len(frames) + 1) /\ DOMAIN frames = 1..Len(frames)
        /\ Len(frames) \in Nat /\ \A i \in DOMAIN frames : frames'[i] = base[i]
        /\ frames'[Len(frames) + 1] = f
    BY <1>6, <1>7, <1>10, <2>2
  <2>4. \A i \in DOMAIN frames' : i \in DOMAIN frames \/ i = k + 1
    BY <1>14, <2>3
  <2> QED
    BY <1>14, <2>3, <2>4
<1>16. ASSUME NEW i \in DOMAIN frames, NEW b \in base[i].rest
       PROVE  /\ b \in Nodes /\ b \in Nat /\ n < b /\ b \in frames[i].rest
              /\ \A a \in D : a < b
  <2>1. b \in Nodes /\ b \in Nat /\ n < b /\ \A a \in Children(n) : a \in Nodes => a < b
    BY <1>4, <1>7, <1>8, <1>9, <1>10, <1>16, WaitAfter
  <2> QED
    BY <1>0, <1>10, <1>12, <1>16, <2>1
\* What was entered before n comes before it.
<1>17. ASSUME NEW v \in Nodes, bound[v] = "bound" PROVE v < n
  <2>1. CASE frames = <<>>
    BY <1>8, <1>9, <1>17, <2>1 DEF EnteredFirst
  <2>2. CASE frames # <<>>
    BY <1>8, <1>9, <1>17, <2>2 DEF EnteredFirst
  <2> QED
    BY <2>1, <2>2
<1>18. ASSUME NEW i \in DOMAIN frames
       PROVE  frames[i].node < n /\ frames[i].node \in Ancestors(n)
  <2>1. k \in DOMAIN frames /\ frames # <<>>
    BY <1>14, <1>15, <1>18
  <2>2. frames[i] \in Frame /\ frames[k] \in Frame
    BY <1>7, <2>1
  <2>3. frames[i].node \in Nodes /\ frames[k].node \in Nodes
    BY <2>2 DEF Frame
  <2>4. n \in Children(frames[k].node)
    BY <1>7, <1>9, <1>14, <2>1 DEF FramesOK
  <2>5. Parent[n] = frames[k].node /\ n # Root
    <3>1. Parent[n] = frames[k].node
      BY <2>4 DEF Children
    <3>2. frames[k].node # 0
      BY <2>3, SubjectsAre
    <3> QED
      BY <3>1, <3>2, DocumentAssumption
  <2>6. Ancestors(n) = {frames[k].node} \cup Ancestors(frames[k].node)
    BY <1>9, <2>5, AncestorsIs
  <2>7. i = k \/ i < k
    BY <1>15, <1>18
  <2>8. frames[i].node \in Ancestors(n)
    BY <1>8, <1>18, <2>1, <2>6, <2>7 DEF StackOrdered
  <2>9. bound[frames[i].node] = "bound"
    BY <1>7, <1>18 DEF FramesOK
  <2> QED
    BY <1>17, <2>3, <2>8, <2>9
<1>19. PICK t : t = InterruptedIf(recordXSDProvedFailures(rec, n, ans, stop), error)
  OBVIOUS
<1>20. n \in Nat
  BY <1>9, NodesAre
<1>21. rec.findings # <<>> => /\ LastKey(rec)[1] = 1 /\ LastKey(rec)[2] = 0 /\ LastKey(rec)[3] \in Nodes
                              /\ bound[LastKey(rec)[3]] = "bound" /\ LastKey(rec)[3] < n
                              /\ LastKey(rec)[3] \in Nat
  <2>1. \A v \in Nodes : v \in Nat
    BY NodesAre
  <2> QED
    BY <1>8, <1>17, <2>1 DEF LastReached
<1>22. Reaches(rec, n)
  BY <1>20, <1>21 DEF Reaches
<1>23. Filed(t) /\ t.at = <<1, 0, n>> /\ (t.findings = rec.findings \/ AtNode(t, n))
  BY <1>7, <1>8, <1>9, <1>11, <1>19, <1>22, NodeFiled
<1>24. rec' = t /\ t.at[1] = 1 /\ stage' = "binding"
  BY <1>1, <1>3, <1>19, <1>23
<1>25. StackOrdered'
  <2> SUFFICES ASSUME NEW i \in DOMAIN frames', NEW j \in DOMAIN frames', i < j
               PROVE  /\ frames'[i].node < frames'[j].node /\ frames'[i].node \in Ancestors(frames'[j].node)
                      /\ \A a \in frames'[j].rest, b \in frames'[i].rest : a < b
    BY DEF StackOrdered, Ancestors
  <2>1. i \in DOMAIN frames /\ frames'[i] = base[i] /\ frames'[i].node = frames[i].node
    BY <1>10, <1>15
  <2>2. CASE j \in DOMAIN frames
    <3>1. frames'[j] = base[j] /\ frames'[j].node = frames[j].node
      BY <1>10, <1>15, <2>2
    <3>2. base[i].rest \subseteq frames[i].rest /\ base[j].rest \subseteq frames[j].rest
      BY <1>10, <2>1, <2>2
    <3>3. /\ frames[i].node < frames[j].node /\ frames[i].node \in Ancestors(frames[j].node)
          /\ \A a \in frames[j].rest, b \in frames[i].rest : a < b
      BY <1>8, <2>1, <2>2 DEF StackOrdered
    <3> QED
      BY <2>1, <3>1, <3>2, <3>3
  <2>3. CASE j = k + 1
    <3>1. frames'[j].node = n /\ frames'[j].rest = D
      BY <1>6, <1>15, <2>3
    <3>2. \A a \in D, b \in base[i].rest : a < b
      BY <1>16, <2>1
    <3> QED
      BY <1>18, <2>1, <3>1, <3>2
  <2> QED
    BY <1>15, <2>2, <2>3
<1>26. EnteredFirst'
  <2>1. ASSUME NEW i \in DOMAIN frames', NEW b \in frames'[i].rest, NEW v \in Nodes, bound'[v] = "bound"
        PROVE  v < b
    <3>1. v = n \/ (bound[v] = "bound" /\ v < n)
      BY <1>13, <1>17, <2>1
    <3>2. v \in Nat
      BY NodesAre
    <3>3. b \in Nat /\ n < b
      <4>1. CASE i \in DOMAIN frames
        <5>1. b \in base[i].rest
          BY <1>15, <2>1, <4>1
        <5> QED
          BY <1>16, <4>1, <5>1
      <4>2. CASE i = k + 1
        <5>1. b \in Children(n)
          BY <1>0, <1>6, <1>15, <2>1, <4>2
        <5>2. b \in Nodes /\ b # Root /\ Parent[b] = n
          BY <1>12, <5>1
        <5> QED
          BY <5>2, NodesAre
      <4> QED
        BY <1>15, <2>1, <4>1, <4>2
    <3> QED
      BY <1>20, <3>1, <3>2, <3>3
  <2>2. bound'[Root] # "none"
    <3>1. Root \in Nodes
      BY SubjectsAre
    <3>2. CASE n = Root
      BY <1>13, <3>2
    <3>3. CASE n # Root
      <4>1. bound[Root] # "none"
        BY <1>8, <1>9, <3>3 DEF EnteredFirst
      <4>2. Root \notin Children(n)
        BY <1>12
      <4> QED
        BY <1>1, <3>1, <3>3, <4>1, <4>2
    <3> QED
      BY <3>2, <3>3
  <2> QED
    BY <2>1, <2>2 DEF EnteredFirst
<1>27. LastReached'
  <2> SUFFICES ASSUME t.findings # <<>>
               PROVE  /\ LastKey(t)[1] = 1 /\ LastKey(t)[2] = 0
                      /\ LastKey(t)[3] \in Nodes /\ bound'[LastKey(t)[3]] = "bound"
                      /\ \A i \in DOMAIN frames' : \/ LastKey(t)[3] <= frames'[i].node
                                                   \/ frames'[i].node \in Ancestors(LastKey(t)[3])
    BY <1>24 DEF LastReached, LastKey, Ancestors
  <2>1. CASE t.findings = rec.findings
    <3>1. LastKey(t) = LastKey(rec) /\ rec.findings # <<>>
      BY <2>1 DEF LastKey
    <3>2. ASSUME NEW i \in DOMAIN frames'
          PROVE  LastKey(t)[3] <= frames'[i].node \/ frames'[i].node \in Ancestors(LastKey(t)[3])
      <4>1. CASE i \in DOMAIN frames
        <5>1. frames'[i].node = frames[i].node
          BY <1>10, <1>15, <4>1
        <5> QED
          BY <1>8, <3>1, <4>1, <5>1 DEF LastReached
      <4>2. CASE i = k + 1
        <5>1. frames'[i].node = n
          BY <1>6, <1>15, <4>2
        <5> QED
          BY <1>20, <1>21, <3>1, <5>1
      <4> QED
        BY <1>15, <4>1, <4>2
    <3> QED
      BY <1>13, <1>21, <3>1, <3>2
  <2>2. CASE AtNode(t, n)
    <3>1. ASSUME NEW i \in DOMAIN frames'
          PROVE  n <= frames'[i].node \/ frames'[i].node \in Ancestors(n)
      <4>1. CASE i \in DOMAIN frames
        <5>1. frames'[i].node = frames[i].node
          BY <1>10, <1>15, <4>1
        <5> QED
          BY <1>18, <4>1, <5>1
      <4>2. CASE i = k + 1
        <5>1. frames'[i].node = n
          BY <1>6, <1>15, <4>2
        <5> QED
          BY <1>20, <5>1
      <4> QED
        BY <1>15, <4>1, <4>2
    <3> QED
      BY <1>9, <1>13, <2>2, <3>1 DEF AtNode
  <2> QED
    BY <1>23, <2>1, <2>2
<1> QED
  BY <1>9, <1>23, <1>24, <1>25, <1>26, <1>27, TraversalKeys

LEMMA ToldFiled ==
  ASSUME NEW r, RecType(r), Filed(r), NEW identity, NEW a \in Answers, NEW stop, NEW error,
         NEW w, w = Told(r, identity, a, stop), NEW t, t = InterruptedIf(w, error)
  PROVE  Filing(r, t)
<1>1. IdentitySubject \in Subjects
  BY SubjectsAre
<1>2. Filing(r, w) /\ RecType(w)
  <2>1. CASE Valid(identity)
    BY <2>1 DEF Told, Filing
  <2>2. CASE ~Valid(identity)
    <3>1. w = recordXSDResult(r, IdentitySubject, a, stop)
      BY <2>2 DEF Told
    <3> QED
      BY <1>1, <3>1, RecordFiled, RecordTyped
  <2> QED
    BY <2>1, <2>2
<1>3. SameFile(w, t)
  BY <1>2, InterruptedFiles
<1> QED
  BY <1>2, <1>3, FilingSame

LEMMA EndKeys ==
  ASSUME SchemaInv, KeysInv, NEW identity \in {"limited", "cut"}, NEW error \in BOOLEAN, NEW stop,
         EndBinding(identity, error, stop)
  PROVE  KeysInv'
<1>1. PICK a : a = "invalid"
  OBVIOUS
<1>2. PICK w : w = Told(rec, identity, a, stop)
  OBVIOUS
<1>3. PICK t : t = InterruptedIf(w, error)
  OBVIOUS
<1>4. stage = "binding" /\ Running /\ rec' = t /\ stage' \in {"closing", "phases"}
  BY <1>1, <1>2, <1>3 DEF EndBinding, Told
<1>5. RecType(rec) /\ Filed(rec) /\ rec.at[1] = 1
  BY <1>4, WhileBinding DEF KeysInv, Book
<1>6. Filing(rec, t)
  BY <1>1, <1>2, <1>3, <1>5, ToldFiled DEF Answers
<1> QED
  BY <1>4, <1>5, <1>6 DEF KeysInv, Filing

LEMMA ClosedKeys ==
  ASSUME SchemaInv, KeysInv, NEW s \in cursor, NEW stop, EvaluateClosed(s, stop)
  PROVE  KeysInv'
<1>1. PICK t : t = recordXSDResult(rec, s, result[s], stop)
  OBVIOUS
<1>2. stage = "closing" /\ Running /\ rec' = t /\ stage' = stage
  BY <1>1 DEF EvaluateClosed, Evaluate
<1>3. RecType(rec) /\ Filed(rec) /\ rec.at[1] = 1 /\ s \in Subjects /\ result[s] \in Answers
  BY <1>2 DEF SchemaInv, StageOK, KeysInv, Book
<1>4. Filing(rec, t)
  BY <1>1, <1>3, RecordFiled
<1> QED
  BY <1>2, <1>3, <1>4 DEF KeysInv, Filing

LEMMA FinalPositions ==
  ASSUME NEW s \in Subjects
  PROVE  /\ FinalPosition(s) \in Position /\ FinalPosition(s)[1] = 3
         /\ FinalPosition(s)[2] = PhaseOf(s) /\ FinalPosition(s)[3] = s[1]
         /\ PhaseOf(s) \in Nat /\ s[1] \in Nat
<1>1. s[1] \in Nat
  BY SubjectsAre DEF IdentitySubject
<1>2. Len(Checks) = 3 /\ Checks[1] = "scalar" /\ Checks[2] = "content" /\ Checks[3] = "representable"
  BY DEF Checks
<1>3. PhaseOf(s) \in Nat
  <2>1. CASE s = IdentitySubject
    BY <1>2, <2>1 DEF PhaseOf
  <2>2. CASE s # IdentitySubject
    <3>1. s[2] \in {"scalar", "content", "representable"}
      BY <2>2, SubjectsAre
    <3>2. \E i \in 1..3 : Checks[i] = s[2]
      <4>1. 1 \in 1..3 /\ 2 \in 1..3 /\ 3 \in 1..3
        OBVIOUS
      <4> QED
        BY <1>2, <3>1, <4>1
    <3>3. PhaseOf(s) = CHOOSE i \in 1..3 : Checks[i] = s[2]
      BY <1>2, <2>2 DEF PhaseOf
    <3>4. PhaseOf(s) \in 1..3
      BY <3>2, <3>3
    <3> QED
      BY <3>4
  <2> QED
    BY <2>1, <2>2
<1>4. PICK i, j : i = PhaseOf(s) /\ j = s[1]
  OBVIOUS
<1>5. FinalPosition(s) = <<3, i, j>>
  BY <1>4 DEF FinalPosition
<1> QED
  BY <1>1, <1>3, <1>4, <1>5 DEF Position

LEMMA FinalizeKeys ==
  ASSUME SchemaInv, KeysInv, NEW identity \in {"valid", "limited", "invalid", "cut"}, NEW error \in BOOLEAN,
         NEW stop, finalizeSourceSchema(identity, error, stop)
  PROVE  KeysInv'
<1>1. PICK p : p = <<2, 0, 0>>
  OBVIOUS
<1>2. PICK m : m = MoveTo(rec, p)
  OBVIOUS
<1>3. PICK w : w = Told(m, identity, identity, stop)
  OBVIOUS
<1>4. PICK t : t = InterruptedIf(w, error)
  OBVIOUS
<1>5. /\ Running /\ rec' = t /\ stage' = "phases" /\ cursor' = Due(w, Subjects)
      /\ stage = "closing" \/ (stage = "phases" /\ rec.at[1] = 1)
  BY <1>1, <1>2, <1>3, <1>4 DEF finalizeSourceSchema, Told
<1>6. RecType(rec) /\ Filed(rec) /\ rec.at[1] = 1
  BY <1>5 DEF SchemaInv, StageOK, KeysInv, Book
<1>7. p \in Position /\ p[1] = 2
  BY <1>1 DEF Position
<1>8. MayFollow(rec, p)
  <2> SUFFICES ASSUME rec.findings # <<>> PROVE Before(LastKey(rec), p)
    BY DEF MayFollow
  <2>1. LastKey(rec) \in Nat \X Nat \X Nat \X Nat /\ LastKey(rec)[1] <= rec.at[1]
    BY <1>6, LastKeyIs
  <2>2. LastKey(rec)[1] \in Nat
    BY <2>1
  <2> QED
    BY <1>6, <1>7, <2>1, <2>2 DEF Before
<1>9. Filed(m) /\ m.at = p /\ RecType(m)
  BY <1>2, <1>6, <1>7, <1>8, MovedFiled
<1>10. Filing(m, t)
  BY <1>3, <1>4, <1>9, ToldFiled DEF Answers
<1>11. Filed(t) /\ t.at[1] = 2
  BY <1>7, <1>9, <1>10 DEF Filing
<1>12. PassOrdered'
  <2> SUFFICES ASSUME NEW s \in cursor' PROVE Before(t.at, FinalPosition(s))
    BY <1>5 DEF PassOrdered, Before, FinalPosition, PhaseOf
  <2>1. s \in Subjects
    BY <1>5 DEF Due
  <2> QED
    BY <1>11, <2>1, FinalPositions DEF Before
<1> QED
  BY <1>5, <1>11, <1>12 DEF KeysInv

LEMMA FinalKeys ==
  ASSUME SchemaInv, KeysInv, NEW s \in cursor, NEW stop, EvaluateFinal(s, stop)
  PROVE  KeysInv'
<1>1. PICK p : p = FinalPosition(s)
  OBVIOUS
<1>2. PICK m : m = MoveTo(rec, p)
  OBVIOUS
<1>3. PICK t : t = recordXSDResult(m, s, result[s], stop)
  OBVIOUS
<1>4. /\ stage = "phases" /\ Running /\ rec.at[1] # 1 /\ rec' = t /\ cursor' = cursor \ {s} /\ stage' = stage
      /\ \A u \in cursor \ {s} : PhasePass(s, u)
  BY <1>1, <1>2, <1>3 DEF EvaluateFinal, Evaluate, FinalPosition
<1>5. RecType(rec) /\ Filed(rec) /\ PassOrdered /\ cursor \subseteq Subjects /\ result[s] \in Answers
  BY <1>4 DEF SchemaInv, KeysInv, Book
<1>6. s \in Subjects
  BY <1>5
<1>7. p \in Position /\ p[1] = 3 /\ p[2] = PhaseOf(s) /\ p[3] = s[1] /\ PhaseOf(s) \in Nat /\ s[1] \in Nat
  BY <1>1, <1>6, FinalPositions
<1>8. MayFollow(rec, p)
  <2> SUFFICES ASSUME rec.findings # <<>> PROVE Before(LastKey(rec), p)
    BY DEF MayFollow
  <2>1. LastKey(rec) \in Nat \X Nat \X Nat \X Nat /\ rec.at \in Nat \X Nat \X Nat
    BY <1>5, LastKeyIs DEF Filed, Position
  <2>2. /\ LastKey(rec)[1] \in Nat /\ LastKey(rec)[2] \in Nat /\ LastKey(rec)[3] \in Nat
        /\ rec.at[1] \in Nat /\ rec.at[2] \in Nat /\ rec.at[3] \in Nat
    BY <2>1
  <2>3. Before(LastKey(rec), rec.at) \/ Same(LastKey(rec), rec.at) \/ StepsBack(LastKey(rec), rec.at)
    BY <1>5 DEF Filed
  <2>4. ~StepsBack(LastKey(rec), rec.at)
    BY <1>4 DEF StepsBack
  <2>5. Before(rec.at, p)
    BY <1>1, <1>5 DEF PassOrdered
  <2> QED
    BY <1>7, <2>2, <2>3, <2>4, <2>5 DEF Before, Same
<1>9. Filed(m) /\ m.at = p /\ RecType(m)
  BY <1>2, <1>5, <1>7, <1>8, MovedFiled
<1>10. Filing(m, t)
  BY <1>3, <1>5, <1>6, <1>9, RecordFiled
<1>11. Filed(t) /\ t.at = p
  BY <1>9, <1>10 DEF Filing
<1>12. PassOrdered'
  <2> SUFFICES ASSUME NEW u \in cursor \ {s} PROVE Before(p, FinalPosition(u))
    BY <1>4, <1>11 DEF PassOrdered, Before, FinalPosition, PhaseOf
  <2>1. u \in Subjects /\ PhasePass(s, u)
    BY <1>4, <1>5
  <2>2. /\ FinalPosition(u)[1] = 3 /\ FinalPosition(u)[2] = PhaseOf(u) /\ FinalPosition(u)[3] = u[1]
        /\ PhaseOf(u) \in Nat /\ u[1] \in Nat
    BY <2>1, FinalPositions
  <2> QED
    BY <1>7, <2>1, <2>2 DEF Before, PhasePass
<1> QED
  BY <1>4, <1>7, <1>11, <1>12 DEF KeysInv

LEMMA InterruptKeys ==
  ASSUME SchemaInv, KeysInv, Interrupt
  PROVE  KeysInv'
<1>1. stage # "done" /\ stage' = stage /\ rec' = Interrupted(rec)
  BY DEF Interrupt
<1>2. SameFile(rec, rec') /\ rec'.interrupted
  BY <1>1, InterruptedFiles, InterruptedIs DEF SchemaInv, Book
<1>3. Filed(rec') /\ rec'.at = rec.at
  BY <1>2 DEF KeysInv, SameFile, Filed, LastKey
<1> QED
  BY <1>1, <1>2, <1>3 DEF KeysInv, Running

\* The findings that stand for the summaries.
SummaryFindings(summaries) ==
  [i \in DOMAIN summaries |-> [key |-> <<4, 0, 0, i - 1>>, subject |-> summaries[i].first,
                               outcome |-> "unsupported"]]

LEMMA SummaryFindingsAre ==
  ASSUME NEW q \in Seq(Summary), NEW g, g = SummaryFindings(q)
  PROVE  /\ g \in Seq(Finding) /\ Len(g) \in Nat
         /\ \A i \in 1..Len(g) : /\ g[i].key \in Nat \X Nat \X Nat \X Nat
                                 /\ g[i].key[1] = 4 /\ g[i].key[2] = 0 /\ g[i].key[3] = 0 /\ g[i].key[4] = i - 1
<1>1. Len(q) \in Nat /\ DOMAIN q = 1..Len(q)
  OBVIOUS
<1>2. ASSUME NEW i \in 1..Len(q)
      PROVE  /\ g[i] \in Finding /\ g[i].key \in Nat \X Nat \X Nat \X Nat
             /\ g[i].key[1] = 4 /\ g[i].key[2] = 0 /\ g[i].key[3] = 0 /\ g[i].key[4] = i - 1
  <2>1. PICK c, s, o : c = <<4, 0, 0, i - 1>> /\ s = q[i].first /\ o = "unsupported"
    OBVIOUS
  <2>2. g[i] = [key |-> c, subject |-> s, outcome |-> o]
    BY <1>1, <2>1 DEF SummaryFindings
  <2>3. i - 1 \in Nat
    OBVIOUS
  <2>4. c \in Nat \X Nat \X Nat \X Nat /\ c[1] = 4 /\ c[2] = 0 /\ c[3] = 0 /\ c[4] = i - 1
    BY <2>1, <2>3
  <2>5. q[i] \in Summary
    OBVIOUS
  <2>6. s \in Subjects /\ o \in Outcomes
    BY <2>1, <2>5 DEF Summary, Outcomes
  <2> QED
    BY <2>2, <2>4, <2>6 DEF Finding
<1>3. g \in [1..Len(q) -> Finding]
  <2>1. DOMAIN g = 1..Len(q) /\ g = [i \in 1..Len(q) |-> g[i]]
    BY <1>1 DEF SummaryFindings
  <2> QED
    BY <1>2, <2>1
<1>4. g \in Seq(Finding) /\ Len(g) = Len(q)
  BY <1>1, <1>3
<1> QED
  BY <1>1, <1>2, <1>4

\* The findings of r and then those of the summaries.
LEMMA FlushFiled ==
  ASSUME NEW r, Filed(r), r.at[1] <= 3, NEW g, g = SummaryFindings(r.summaries),
         NEW t, t.at = <<4, 0, 0>>, t.summaries = r.summaries, t.findings = r.findings \o g
  PROVE  Filed(t)
<1>1. PICK x, f, n, c : x = r.findings /\ f = t.findings /\ n = Len(x) /\ c = Len(g)
  OBVIOUS
<1>2. x \in Seq(Finding) /\ n \in Nat /\ r.summaries \in Seq(Summary) /\ r.at \in Position
  BY <1>1 DEF Filed
<1>3. /\ g \in Seq(Finding) /\ c \in Nat
      /\ \A i \in 1..c : /\ g[i].key \in Nat \X Nat \X Nat \X Nat
                         /\ g[i].key[1] = 4 /\ g[i].key[2] = 0 /\ g[i].key[3] = 0 /\ g[i].key[4] = i - 1
  BY <1>1, <1>2, SummaryFindingsAre
<1>4. /\ f \in Seq(Finding) /\ Len(f) = n + c
      /\ \A i \in 1..(n + c) : f[i] = IF i <= n THEN x[i] ELSE g[i - n]
  <2>1. /\ x \o g \in Seq(Finding) /\ Len(x \o g) = Len(x) + Len(g)
        /\ \A i \in 1..(Len(x) + Len(g)) : (x \o g)[i] = IF i <= Len(x) THEN x[i] ELSE g[i - Len(x)]
    BY <1>2, <1>3, ConcatProperties
  <2>2. f = x \o g
    BY <1>1
  <2> QED
    BY <1>1, <2>1, <2>2
<1>5. PICK p : p = <<4, 0, 0>>
  OBVIOUS
<1>6. t.at = p /\ p \in Position /\ p[1] = 4 /\ p[2] = 0 /\ p[3] = 0
  BY <1>5 DEF Position
<1>7. x # <<>> => /\ LastKey(r) = x[n].key /\ LastKey(r) \in Nat \X Nat \X Nat \X Nat
                  /\ LastKey(r)[1] \in Nat /\ LastKey(r)[1] < 4 /\ n # 0
  <2> SUFFICES ASSUME r.findings # <<>>
               PROVE  /\ LastKey(r) = x[n].key /\ LastKey(r) \in Nat \X Nat \X Nat \X Nat
                      /\ LastKey(r)[1] \in Nat /\ LastKey(r)[1] < 4 /\ n # 0
    BY <1>1
  <2>1. /\ Len(r.findings) \in Nat \ {0} /\ LastKey(r) \in Nat \X Nat \X Nat \X Nat
        /\ LastKey(r)[1] <= r.at[1]
    BY LastKeyIs
  <2>2. LastKey(r)[1] \in Nat /\ r.at[1] \in Nat
    BY <1>2, <2>1 DEF Position
  <2>3. LastKey(r) = x[n].key
    BY <1>1 DEF LastKey
  <2> QED
    BY <1>1, <2>1, <2>2, <2>3
<1>8. ASSUME NEW i \in 1..(Len(f) - 1)
      PROVE  Precedes(f[i].key, f[i + 1].key) \/ StepsBack(f[i].key, f[i + 1].key)
  <2>1. i \in Nat /\ i \in 1..(n + c) /\ i + 1 \in 1..(n + c)
    BY <1>2, <1>3, <1>4
  <2>2. CASE i < n
    <3>1. f[i] = x[i] /\ f[i + 1] = x[i + 1] /\ i \in 1..(Len(r.findings) - 1)
      BY <1>1, <1>2, <1>4, <2>1, <2>2
    <3> QED
      BY <1>1, <3>1 DEF Filed
  <2>3. CASE i = n
    <3>1. f[i] = x[n] /\ f[i + 1] = g[1] /\ 1 \in 1..c /\ x # <<>>
      BY <1>1, <1>2, <1>3, <1>4, <2>1, <2>3
    <3>2. /\ f[i].key = LastKey(r) /\ f[i].key \in Nat \X Nat \X Nat \X Nat
          /\ f[i + 1].key \in Nat \X Nat \X Nat \X Nat /\ f[i].key[1] < f[i + 1].key[1]
      BY <1>3, <1>7, <3>1
    <3>3. Before(f[i].key, f[i + 1].key)
      BY <3>2 DEF Before
    <3> QED
      BY <3>2, <3>3, PrecedesIs
  <2>4. CASE i > n
    <3>1. PICK j : j = i - n
      OBVIOUS
    <3>2. j \in 1..c /\ j + 1 \in 1..c /\ f[i] = g[j] /\ f[i + 1] = g[j + 1] /\ j \in Nat
      <4>1. j \in 1..c /\ j + 1 \in 1..c /\ j \in Nat /\ i + 1 - n = j + 1
        BY <1>2, <1>3, <2>1, <2>4, <3>1
      <4>2. f[i] = g[i - n] /\ f[i + 1] = g[i + 1 - n]
        BY <1>2, <1>3, <1>4, <2>1, <2>4
      <4> QED
        BY <3>1, <4>1, <4>2
    <3>3. PICK k, l : k = g[j].key /\ l = g[j + 1].key
      OBVIOUS
    <3>4. /\ k \in Nat \X Nat \X Nat \X Nat
          /\ k[1] = 4 /\ k[2] = 0 /\ k[3] = 0 /\ k[4] = j - 1
      BY <1>3, <3>2, <3>3
    <3>5. PICK h : h = j + 1
      OBVIOUS
    <3>6. h \in 1..c /\ l = g[h].key /\ h - 1 = j
      BY <3>2, <3>3, <3>5
    <3>7. /\ l \in Nat \X Nat \X Nat \X Nat
          /\ l[1] = 4 /\ l[2] = 0 /\ l[3] = 0 /\ l[4] = h - 1
      BY <1>3, <3>6
    <3>8. Same(k, l) /\ k[4] < l[4]
      BY <3>2, <3>4, <3>6, <3>7 DEF Same
    <3>9. Precedes(k, l)
      BY <3>4, <3>8, <3>7, PrecedesIs
    <3> QED
      BY <3>2, <3>3, <3>9
  <2> QED
    BY <1>2, <2>1, <2>2, <2>3, <2>4
<1>9. f # <<>> => Before(LastKey(t), p) \/ Same(LastKey(t), p)
  <2> SUFFICES ASSUME f # <<>> PROVE Before(LastKey(t), p) \/ Same(LastKey(t), p)
    OBVIOUS
  <2>1. LastKey(t) = f[n + c].key /\ n + c # 0 /\ n + c \in 1..(n + c)
    <3>1. LastKey(t) = f[Len(f)].key
      BY <1>1 DEF LastKey
    <3>2. Len(f) # 0
      BY <1>4
    <3> QED
      BY <1>2, <1>3, <1>4, <3>1, <3>2
  <2>2. CASE c = 0
    <3>1. f[n + c] = x[n] /\ x # <<>>
      <4>1. n + c = n /\ n # 0 /\ n <= n
        BY <1>2, <2>1, <2>2
      <4>2. f[n] = x[n]
        BY <1>4, <2>1, <4>1
      <4>3. x # <<>>
        BY <1>1, <4>1
      <4> QED
        BY <4>1, <4>2, <4>3
    <3> QED
      BY <1>6, <1>7, <2>1, <3>1 DEF Before
  <2>3. CASE c # 0
    <3>1. f[n + c] = g[c] /\ c \in 1..c
      <4>1. ~(n + c <= n) /\ n + c - n = c /\ c \in 1..c
        BY <1>2, <1>3, <2>3
      <4>2. PICK z : z = n + c
        OBVIOUS
      <4>3. z \in 1..(n + c) /\ ~(z <= n) /\ z - n = c
        BY <1>2, <1>3, <2>1, <2>3, <4>2
      <4>4. f[z] = g[z - n]
        BY <1>4, <4>3
      <4> QED
        BY <4>1, <4>2, <4>3, <4>4
    <3> QED
      BY <1>3, <1>6, <2>1, <3>1 DEF Same
  <2> QED
    BY <2>2, <2>3
<1> QED
  BY <1>1, <1>2, <1>4, <1>6, <1>8, <1>9 DEF Filed

LEMMA FlushKeys ==
  ASSUME SchemaInv, KeysInv, flushSourceDTDSummaries
  PROVE  KeysInv'
<1>1. PICK p : p = <<4, 0, 0>>
  OBVIOUS
<1>2. PICK m : m = MoveTo(rec, p)
  OBVIOUS
<1>3. PICK g : g = SummaryFindings(rec.summaries)
  OBVIOUS
<1>4. PICK f : f = m.findings \o g
  OBVIOUS
<1>5. RecType(rec) /\ Filed(rec)
  BY DEF SchemaInv, Book, KeysInv
<1>6. m = [rec EXCEPT !.at = p]
  BY <1>2 DEF MoveTo
<1>7. m.at = p /\ m.findings = rec.findings /\ m.summaries = rec.summaries /\ RecType(m)
  BY <1>5, <1>6 DEF RecType
<1>8. PICK b : b = (m.unfinished \/ rec.interrupted)
  OBVIOUS
<1>9. PICK x : x = rec.omitted
  OBVIOUS
<1>10. PICK t : t = [m EXCEPT !.findings = f, !.unfinished = b, !.truncated = x]
  OBVIOUS
<1>11. stage # "done" /\ rec' = t /\ stage' = "done"
  BY <1>1, <1>2, <1>3, <1>4, <1>8, <1>9, <1>10 DEF flushSourceDTDSummaries, SummaryFindings
<1>12. t.at = p /\ t.findings = f /\ t.summaries = rec.summaries
  BY <1>7, <1>10 DEF RecType
<1>13. rec.at[1] <= 3
  BY <1>11 DEF KeysInv
<1>14. Filed(t)
  BY <1>1, <1>3, <1>4, <1>5, <1>7, <1>12, <1>13, FlushFiled
<1> QED
  BY <1>11, <1>14 DEF KeysInv

LEMMA InitKeys == Init => KeysInv
<1> SUFFICES ASSUME Init PROVE KeysInv
  OBVIOUS
<1>1. PICK p, e : p = <<1, 0, 0>> /\ e = <<>>
  OBVIOUS
<1>2. rec.at = p /\ rec.findings = e /\ rec.summaries = e /\ stage = "binding" /\ frames = <<>>
  BY <1>1 DEF Init, Unrecorded
<1>3. p \in Position /\ p[1] = 1
  BY <1>1 DEF Position
<1>4. e \in Seq(Finding) /\ e \in Seq(Summary) /\ Len(e) = 0
  BY <1>1
<1>5. Filed(rec)
  <2>1. 1..(Len(rec.findings) - 1) = {}
    BY <1>2, <1>4
  <2> QED
    BY <1>1, <1>2, <1>3, <1>4, <2>1 DEF Filed
<1>6. DOMAIN frames = {}
  BY <1>2
<1>7. \A n \in Nodes : bound[n] = "none"
  BY DEF Init
<1>8. StackOrdered /\ EnteredFirst /\ LastReached
  BY <1>1, <1>2, <1>6, <1>7 DEF StackOrdered, EnteredFirst, LastReached
<1> QED
  BY <1>2, <1>3, <1>5, <1>8 DEF KeysInv

LEMMA StutterKeys ==
  ASSUME KeysInv, UNCHANGED vars
  PROVE  KeysInv'
<1>1. stage' = stage /\ frames' = frames /\ bound' = bound /\ cursor' = cursor /\ rec' = rec
  BY DEF vars
<1>2. Filed(rec')
  BY <1>1 DEF KeysInv
<1>3. (StackOrdered => StackOrdered') /\ (EnteredFirst => EnteredFirst')
  BY <1>1 DEF StackOrdered, EnteredFirst, Ancestors
<1>4. (LastReached => LastReached') /\ (PassOrdered => PassOrdered')
  BY <1>1 DEF LastReached, LastKey, Ancestors, PassOrdered, Before, FinalPosition, PhaseOf
<1> QED
  BY <1>1, <1>2, <1>3, <1>4 DEF KeysInv, Running

\* KeysInv is inductive on top of SchemaInv: every recording keeps the filed keys
\* in order.
LEMMA KeysInductive == Spec => []KeysInv
<1>1. Init => KeysInv
  BY InitKeys
<1>2. SchemaInv /\ KeysInv /\ [Next]_vars => KeysInv'
  <2> SUFFICES ASSUME SchemaInv, KeysInv, [Next]_vars PROVE KeysInv'
    OBVIOUS
  <2>1. CASE UNCHANGED vars
    BY <2>1, StutterKeys
  <2>2. ASSUME NEW n \in Entered, NEW scalar \in ScalarAnswers[n], NEW content \in ContentAnswers[n],
               NEW error \in BOOLEAN, NEW stop \in CheckStops, NEW kinds \in [Children(n) -> Kinds],
               Enter(n, [scalar |-> scalar, content |-> content], kinds, error, stop)
        PROVE  KeysInv'
    BY <2>2, EnterKeys
  <2>3. ASSUME NEW answer \in {"valid", "invalid", "limited"}, NEW error \in BOOLEAN, NEW stop \in CheckStops,
               CompleteNode(answer, error, stop)
        PROVE  KeysInv'
    BY <2>3, CompleteKeys
  <2>4. ASSUME NEW identity \in {"limited", "cut"}, NEW error \in BOOLEAN, NEW stop \in Stops,
               EndBinding(identity, error, stop)
        PROVE  KeysInv'
    BY <2>4, EndKeys
  <2>5. ASSUME NEW s \in cursor, NEW stop \in Stops, EvaluateClosed(s, stop) PROVE KeysInv'
    BY <2>5, ClosedKeys
  <2>6. ASSUME NEW identity \in {"valid", "limited", "invalid", "cut"}, NEW error \in BOOLEAN,
               NEW stop \in Stops, finalizeSourceSchema(identity, error, stop)
        PROVE  KeysInv'
    BY <2>6, FinalizeKeys
  <2>7. ASSUME NEW s \in cursor, NEW stop \in Stops, EvaluateFinal(s, stop) PROVE KeysInv'
    BY <2>7, FinalKeys
  <2>8. CASE Interrupt
    BY <2>8, InterruptKeys
  <2>9. CASE flushSourceDTDSummaries
    BY <2>9, FlushKeys
  <2> QED
    BY <2>1, <2>2, <2>3, <2>4, <2>5, <2>6, <2>7, <2>8, <2>9 DEF Next
<1> QED
  BY <1>1, <1>2, SchemaInductive, PTL DEF Spec

\* The keys of a buffered report increase strictly, except where a node's second
\* recording returns from its subtree to the node's own position (nextKey,
\* recordXSDProvedFailures, finishWithOwnership), for every document.
THEOREM KeysStepBackOnlyToAncestors == Spec => []KeysStepBackToAncestors
<1>1. KeysInv => KeysStepBackToAncestors
  BY DEF KeysInv, Filed, StepsBack, KeysStepBackToAncestors
<1> QED
  BY <1>1, KeysInductive, PTL

-----------------------------------------------------------------------------
(* What is reported                                                         *)

\* The outcomes that must be reported, and what reports them.
Problems == {"fail", "unsupported", "blocked"}
Problem(r, s) == \E o \in Problems : r.counted[s] = <<o>>
Found(r, s) == \E i \in DOMAIN r.findings : r.findings[i].subject = s
Open(r, c) == {i \in DOMAIN r.summaries : r.summaries[i].check = c}

\* A problem has a finding, or its rule a summary that was opened or omitted.
Accounted(r, res, s) == Found(r, s) \/ (res[s] = "dtd" /\ (r.omitted \/ Open(r, s[2]) # {}))

\* Nothing counted is unreported, except what an interrupted recording left.
TellsBut(r, res, x) == \A s \in Subjects \ {x} : Problem(r, s) => Accounted(r, res, s)
TellsAll(r, res) == \A s \in Subjects : Problem(r, s) => Accounted(r, res, s)
Tells(r, res) == IF r.interrupted THEN \E x \in Subjects : TellsBut(r, res, x) ELSE TellsAll(r, res)

\* Nothing is stored of a subject that is not decided.
DetailsOK(r) ==
  /\ r.details \in [Subjects -> {0, 1}]
  /\ ~r.interrupted => \A s \in Subjects : r.decided[s] = "none" => r.details[s] = 0

\* The evaluations a summary of the check c stands for.
Limited(r, res, c) == {s \in NodeSubjects : s[2] = c /\ res[s] = "dtd" /\ r.decided[s] = "unsupported"}
ExactOf(r, limited, c) ==
  IF limited = {} THEN Open(r, c) = {}
  ELSE \E i \in Open(r, c) : /\ Open(r, c) = {i} /\ r.summaries[i].count = Cardinality(limited)
                             /\ r.summaries[i].first \in limited
                             /\ \A s \in limited : r.summaries[i].first[1] <= s[1]
Exact(r, res) == ~r.omitted => \A c \in ToSet(Checks) : ExactOf(r, Limited(r, res, c), c)

\* A summary is opened by a node's subject, and what is left of a pass comes
\* after it.
OpenedBy(r) == \A i \in DOMAIN r.summaries : r.summaries[i].first \in NodeSubjects
                                             /\ r.summaries[i].first[2] = r.summaries[i].check
LeftAfter(r, left) ==
  \A i \in DOMAIN r.summaries : \A s \in left : s[2] = r.summaries[i].check => r.summaries[i].first[1] <= s[1]

\* Before the passes no summary is opened.
Unopened(r) == r.summaries = <<>> /\ ~r.omitted

ReportInv ==
  /\ rec.omitted \in BOOLEAN /\ DetailsOK(rec) /\ OpenedBy(rec)
  /\ stage # "done" => Tells(rec, result)
  /\ stage = "done" => rec.truncated = rec.omitted /\ NothingUnreported
  /\ Exact(rec, result)
  /\ result[IdentitySubject] # "dtd"
  /\ stage = "binding" => Unopened(rec) /\ OnlyFailures(rec)
  /\ Running /\ stage = "closing" => \A s \in NodeSubjects : rec.decided[s] = "none" => s \in cursor
  /\ Running /\ stage = "phases" /\ rec.at[1] = 1 => Unopened(rec)
  /\ Running /\ stage # "binding" => LeftAfter(rec, cursor)

\* The two records report the same.
SameReport(r, t) ==
  t.details = r.details /\ t.findings = r.findings /\ t.summaries = r.summaries /\ t.omitted = r.omitted

\* The findings of t are those of r, with one of s added or not.
Added(r, t, s, o) == t.findings = Append(r.findings, NewFinding(r, s, o))
MayAdd(r, t, s, o) == t.findings = r.findings \/ Added(r, t, s, o)

\* Moving on and being interrupted leave what is reported alone.
LEMMA InterruptedReport ==
  ASSUME NEW r, RecType(r), NEW error, NEW p
  PROVE  SameReport(r, Interrupted(r)) /\ SameReport(r, InterruptedIf(r, error)) /\ SameReport(r, MoveTo(r, p))
<1>1. PICK yes, b : yes = TRUE /\ b = (r.interrupted \/ error)
  OBVIOUS
<1>2. /\ Interrupted(r) = [r EXCEPT !.interrupted = yes] /\ InterruptedIf(r, error) = [r EXCEPT !.interrupted = b]
      /\ MoveTo(r, p) = [r EXCEPT !.at = p]
  BY <1>1 DEF Interrupted, InterruptedIf, MoveTo
<1>3. /\ SameReport(r, [r EXCEPT !.interrupted = yes]) /\ SameReport(r, [r EXCEPT !.interrupted = b])
      /\ SameReport(r, [r EXCEPT !.at = p])
  BY DEF RecType, SameReport
<1> QED
  BY <1>2, <1>3

\* Counting an outcome reports nothing.
LEMMA CountReport ==
  ASSUME NEW r, RecType(r), NEW s \in Subjects, NEW a \in Answers
  PROVE  SameReport(r, CountOutcome(r, s, a))
<1>1. PICK q, b, d : /\ q = [r.counted EXCEPT ![s] = Append(@, Outcome(s, a))]
                     /\ b = (r.unfinished \/ ~Complete(a))
                     /\ d = (r.unfinished \/ (r.complete[s] /\ ~Complete(a)))
  OBVIOUS
<1>2. CountOutcome(r, s, a) = IF r.decided[s] = "none" THEN [r EXCEPT !.counted = q, !.unfinished = b]
                              ELSE [r EXCEPT !.unfinished = d]
  BY <1>1 DEF CountOutcome
<1>3. SameReport(r, [r EXCEPT !.counted = q, !.unfinished = b]) /\ SameReport(r, [r EXCEPT !.unfinished = d])
  BY DEF RecType, SameReport
<1> QED
  BY <1>2, <1>3

\* A report adds the finding of s, or nothing when it is not stored.
LEMMA ReportReport ==
  ASSUME NEW r, RecType(r), NEW s \in Subjects, NEW a \in Answers, NEW p, p = Report(r, s, a)
  PROVE  /\ p.details = r.details /\ p.summaries = r.summaries /\ p.omitted = r.omitted
         /\ IF Stores(r, s, a) THEN Added(r, p, s, Outcome(s, a)) ELSE p.findings = r.findings
<1>1. PICK k, o : k = CountOutcome(r, s, a) /\ o = Outcome(s, a)
  OBVIOUS
<1>2. RecType(k) /\ SameReport(r, k) /\ SameFile(r, k)
  BY <1>1, CountReport, CountFiles
<1>3. p = IF Stores(r, s, a) THEN Store(k, s, o) ELSE k
  BY <1>1 DEF Report
<1>4. CASE Stores(r, s, a)
  <2>1. PICK f : f = Append(k.findings, NewFinding(k, s, o))
    OBVIOUS
  <2>2. p = [k EXCEPT !.findings = f]
    BY <1>3, <1>4, <2>1 DEF Store, NewFinding
  <2>3. p.details = k.details /\ p.summaries = k.summaries /\ p.omitted = k.omitted /\ p.findings = f
    BY <1>2, <2>2 DEF RecType
  <2>4. f = Append(r.findings, NewFinding(r, s, o))
    BY <1>2, <2>1, KeyOfSame DEF SameFile, NewFinding
  <2> QED
    BY <1>1, <1>2, <1>4, <2>3, <2>4 DEF SameReport, Added
<1>5. CASE ~Stores(r, s, a)
  BY <1>2, <1>3, <1>5 DEF SameReport
<1> QED
  BY <1>4, <1>5

\* Retaining a failure or caching an outcome stores at most the issues of s.
LEMMA RetainReport ==
  ASSUME NEW r, RecType(r), NEW s \in Subjects, NEW a \in Answers, NEW t, t = Retain(r, s, a) \/ t = Cache(r, s, a)
  PROVE  /\ t.summaries = r.summaries /\ t.omitted = r.omitted
         /\ IF Stores(r, s, a) THEN Added(r, t, s, Outcome(s, a)) ELSE t.findings = r.findings
         /\ t.details = IF Outcome(s, a) = "fail" THEN [r.details EXCEPT ![s] = Issues(a)] ELSE r.details
<1>1. PICK p, o, x : p = Report(r, s, a) /\ o = Outcome(s, a) /\ x = Retain(r, s, a)
  OBVIOUS
<1>2. /\ p.details = r.details /\ p.summaries = r.summaries /\ p.omitted = r.omitted /\ RecType(p)
      /\ IF Stores(r, s, a) THEN Added(r, p, s, o) ELSE p.findings = r.findings
  BY <1>1, ReportReport, ReportFiles
<1>3. /\ x.summaries = p.summaries /\ x.omitted = p.omitted /\ x.findings = p.findings /\ RecType(x)
      /\ x.details = IF o = "fail" THEN [p.details EXCEPT ![s] = Issues(a)] ELSE p.details
  <2>1. RecType(x)
    BY <1>1, RetainFiles
  <2>2. CASE o = "fail"
    <3>1. PICK d : d = [p.details EXCEPT ![s] = Issues(a)]
      OBVIOUS
    <3>2. PICK q : q = [p.complete EXCEPT ![s] = Complete(a) /\ (~(r.decided[s] # "none") \/ @)]
      OBVIOUS
    <3>3. x = [p EXCEPT !.details = d, !.complete = q]
      BY <1>1, <2>2, <3>1, <3>2 DEF Retain, retainFailure
    <3>4. x.summaries = p.summaries /\ x.omitted = p.omitted /\ x.findings = p.findings /\ x.details = d
      BY <1>2, <3>3 DEF RecType
    <3> QED
      BY <2>1, <2>2, <3>1, <3>4
  <2>3. CASE o # "fail"
    BY <1>1, <2>1, <2>3 DEF Retain
  <2> QED
    BY <2>2, <2>3
<1>4. SameReport(x, t)
  <2>1. PICK q : q = [x.decided EXCEPT ![s] = o]
    OBVIOUS
  <2>2. t = x \/ t = [x EXCEPT !.decided = q]
    BY <1>1, <2>1 DEF Cache
  <2>3. SameReport(x, [x EXCEPT !.decided = q]) /\ SameReport(x, x)
    BY <1>3 DEF RecType, SameReport
  <2> QED
    BY <2>2, <2>3
<1> QED
  BY <1>1, <1>2, <1>3, <1>4 DEF SameReport, Added

-----------------------------------------------------------------------------
(* What one recording reports                                               *)

\* Nothing; a failure's further details; what an interrupted recording left;
\* the finding of a decided subject; or a summary in its place.
Still(r, t) == t.decided = r.decided /\ t.counted = r.counted /\ SameReport(r, t)
Repeated(r, t, s, a) ==
  /\ r.decided[s] = "fail" /\ t.decided = r.decided /\ t.counted = r.counted
  /\ t.summaries = r.summaries /\ t.omitted = r.omitted /\ MayAdd(r, t, s, Outcome(s, a))
  /\ t.details = r.details \/ t.details = [r.details EXCEPT ![s] = Issues(a)]
CutOff(r, t, s, a) ==
  /\ r.decided[s] = "none" /\ t.interrupted
  /\ t.decided = r.decided /\ t.counted = [r.counted EXCEPT ![s] = Append(@, Outcome(s, a))]
  /\ t.details = r.details /\ t.summaries = r.summaries /\ MayAdd(r, t, s, Outcome(s, a))
  /\ t.omitted = r.omitted \/ (DefersDTD(r, s, a) /\ t.omitted = TRUE)
Decides(r, t, s, a) ==
  /\ r.decided[s] = "none" /\ ~t.interrupted
  /\ t.decided = [r.decided EXCEPT ![s] = Outcome(s, a)]
  /\ t.counted = [r.counted EXCEPT ![s] = Append(@, Outcome(s, a))]
Reported(r, t, s, a) ==
  /\ ~DefersDTD(r, s, a) /\ t.summaries = r.summaries /\ t.omitted = r.omitted
  /\ IF Stores(r, s, a) THEN Added(r, t, s, Outcome(s, a)) ELSE t.findings = r.findings
  /\ t.details = IF Outcome(s, a) = "fail" THEN [r.details EXCEPT ![s] = Issues(a)] ELSE r.details
Bumped(q, k) == [q EXCEPT ![k].count = @ + 1]
Opening(s) == [check |-> s[2], first |-> s, count |-> 1]
Opens(r, t, s) ==
  \/ \E k \in Open(r, s[2]) : t.summaries = Bumped(r.summaries, k) /\ t.omitted = r.omitted
  \/ t.summaries = r.summaries /\ t.omitted = TRUE
  \/ Open(r, s[2]) = {} /\ t.summaries = Append(r.summaries, Opening(s)) /\ t.omitted = r.omitted
Deferred(r, t, s, a) ==
  /\ DefersDTD(r, s, a) /\ t.details = r.details /\ t.findings = r.findings /\ Opens(r, t, s)

\* A deferred outcome opens, bumps or omits one summary.
LEMMA DeferReport ==
  ASSUME NEW r, RecType(r), NEW s, NEW refused, NEW t, t = deferSourceDTDSummary(r, s, refused)
  PROVE  /\ t.details = r.details /\ t.findings = r.findings /\ Opens(r, t, s)
         /\ SameCore(r, t)
<1>1. PICK k : k = CHOOSE i \in Open(r, s[2]) : TRUE
  OBVIOUS
<1>2. PICK u, v, yes : u = Bumped(r.summaries, k) /\ v = Append(r.summaries, Opening(s)) /\ yes = TRUE
  OBVIOUS
<1>3. t = IF Open(r, s[2]) # {} THEN [r EXCEPT !.summaries = u]
          ELSE IF refused THEN [r EXCEPT !.omitted = yes] ELSE [r EXCEPT !.summaries = v]
  BY <1>1, <1>2 DEF deferSourceDTDSummary, Open, Bumped, Opening
<1>4. CASE Open(r, s[2]) # {}
  <2>1. k \in Open(r, s[2])
    BY <1>1, <1>4
  <2>2. t = [r EXCEPT !.summaries = u]
    BY <1>3, <1>4
  <2>3. t.details = r.details /\ t.findings = r.findings /\ t.summaries = u /\ t.omitted = r.omitted
    BY <2>2 DEF RecType
  <2> QED
    BY <1>2, <2>1, <2>3, SummaryKeeps DEF Opens
<1>5. CASE Open(r, s[2]) = {} /\ refused
  <2>1. t = [r EXCEPT !.omitted = yes]
    BY <1>3, <1>5
  <2>2. t.details = r.details /\ t.findings = r.findings /\ t.summaries = r.summaries /\ t.omitted = yes
    BY <2>1 DEF RecType
  <2> QED
    BY <1>2, <2>2, SummaryKeeps DEF Opens
<1>6. CASE Open(r, s[2]) = {} /\ ~refused
  <2>1. t = [r EXCEPT !.summaries = v]
    BY <1>3, <1>6
  <2>2. t.details = r.details /\ t.findings = r.findings /\ t.summaries = v /\ t.omitted = r.omitted
    BY <2>1 DEF RecType
  <2> QED
    BY <1>2, <1>6, <2>2, SummaryKeeps DEF Opens
<1> QED
  BY <1>4, <1>5, <1>6

\* A recording does one of four things: nothing, a repeated report, a step cut
\* off by a stop, or a decision that is reported or deferred.
LEMMA RecordReport ==
  ASSUME NEW r, RecType(r), ~r.interrupted, r.omitted \in BOOLEAN, r.details \in [Subjects -> {0, 1}],
         NEW s \in Subjects, NEW a \in Answers, NEW stop, NEW t, t = recordXSDResult(r, s, a, stop)
  PROVE  \/ Still(r, t) \/ Repeated(r, t, s, a) \/ CutOff(r, t, s, a)
         \/ Decides(r, t, s, a) /\ (Reported(r, t, s, a) \/ Deferred(r, t, s, a))
<1> DEFINE done == r.decided[s] # "none"
<1>1. PICK refused, p, o : refused = (stop = "summary") /\ p = Report(r, s, a) /\ o = Outcome(s, a)
  OBVIOUS
<1>2. PICK q : q = Interrupted(p)
  OBVIOUS
<1>3. PICK x : x = (q.omitted \/ DefersDTD(r, s, a))
  OBVIOUS
<1>4. PICK k, c : k = CountOutcome(r, s, a) /\ c = Cache(r, s, a)
  OBVIOUS
<1>5. t = IF stop = "scan" /\ Unresolved(o) THEN Interrupted(r)
          ELSE IF done /\ (r.decided[s] # "fail" \/ o # "fail") THEN r
          ELSE IF stop = "details" /\ Stores(r, s, a) THEN Interrupted(k)
          ELSE IF stop = "retain" THEN [q EXCEPT !.omitted = x]
          ELSE IF done THEN Retain(r, s, a)
          ELSE IF DefersDTD(r, s, a) THEN deferSourceDTDSummary(c, s, refused)
          ELSE c
  BY <1>1, <1>2, <1>3, <1>4 DEF recordXSDResult
<1>6. CASE t = Interrupted(r)
  BY <1>6, InterruptedIs, InterruptedReport DEF Still
<1>7. CASE t = r
  BY <1>7 DEF Still, SameReport
<1>8. /\ RecType(k) /\ k.decided = r.decided /\ SameReport(r, k)
      /\ k.counted = IF done THEN r.counted ELSE [r.counted EXCEPT ![s] = Append(@, o)]
  BY <1>1, <1>4, CountIs, CountReport
<1>9. ASSUME ~(done /\ (r.decided[s] # "fail" \/ o # "fail")), t = Interrupted(k)
      PROVE  Repeated(r, t, s, a) \/ CutOff(r, t, s, a)
  <2>1. t.interrupted /\ t.decided = k.decided /\ t.counted = k.counted /\ SameReport(k, t)
    BY <1>8, <1>9, InterruptedIs, InterruptedReport
  <2> QED
    BY <1>1, <1>8, <1>9, <2>1 DEF Repeated, CutOff, MayAdd, SameReport
<1>10. ASSUME ~(done /\ (r.decided[s] # "fail" \/ o # "fail")), t = [q EXCEPT !.omitted = x]
       PROVE  Repeated(r, t, s, a) \/ CutOff(r, t, s, a)
  <2>1. RecType(p) /\ SameCore(k, p)
    BY <1>1, <1>4, ReportIs
  <2>2. /\ p.details = r.details /\ p.summaries = r.summaries /\ p.omitted = r.omitted
        /\ MayAdd(r, p, s, o)
    BY <1>1, ReportReport DEF MayAdd
  <2>3. RecType(q) /\ q.interrupted /\ q.decided = p.decided /\ q.counted = p.counted /\ SameReport(p, q)
    BY <1>2, <2>1, InterruptedIs, InterruptedReport
  <2>4. /\ t.interrupted = q.interrupted /\ t.decided = q.decided /\ t.counted = q.counted
        /\ t.details = q.details /\ t.findings = q.findings /\ t.summaries = q.summaries /\ t.omitted = x
    BY <1>10, <2>3 DEF RecType
  <2>5. x = (r.omitted \/ DefersDTD(r, s, a))
    BY <1>3, <2>2, <2>3 DEF SameReport
  <2>6. done => ~DefersDTD(r, s, a)
    BY DEF DefersDTD
  <2>7. DefersDTD(r, s, a) \in BOOLEAN
    BY DEF DefersDTD
  <2>8. x = r.omitted \/ (DefersDTD(r, s, a) /\ x = TRUE)
    BY <2>5, <2>7
  <2>9. done => x = r.omitted
    BY <2>6, <2>8
  <2>10. MayAdd(r, t, s, o) /\ t.details = r.details /\ t.summaries = r.summaries
    BY <2>2, <2>3, <2>4 DEF MayAdd, Added, SameReport
  <2>11. t.decided = r.decided /\ t.counted = k.counted /\ t.interrupted
    BY <1>8, <2>1, <2>3, <2>4 DEF SameCore
  <2> QED
    BY <1>1, <1>8, <1>10, <2>4, <2>8, <2>9, <2>10, <2>11 DEF Repeated, CutOff
<1>11. ASSUME ~(done /\ (r.decided[s] # "fail" \/ o # "fail")), done, t = Retain(r, s, a)
       PROVE  Repeated(r, t, s, a)
  <2>1. t.decided = r.decided /\ t.counted = k.counted
    BY <1>4, <1>11, RetainIs
  <2>2. /\ t.summaries = r.summaries /\ t.omitted = r.omitted /\ MayAdd(r, t, s, o)
        /\ t.details = IF o = "fail" THEN [r.details EXCEPT ![s] = Issues(a)] ELSE r.details
    BY <1>1, <1>11, RetainReport DEF MayAdd
  <2> QED
    BY <1>1, <1>8, <1>11, <2>1, <2>2 DEF Repeated
<1>12. /\ RecType(c) /\ c.decided = [r.decided EXCEPT ![s] = o] /\ c.counted = k.counted
       /\ c.interrupted = r.interrupted /\ c.summaries = r.summaries /\ c.omitted = r.omitted
       /\ IF Stores(r, s, a) THEN Added(r, c, s, o) ELSE c.findings = r.findings
       /\ c.details = IF o = "fail" THEN [r.details EXCEPT ![s] = Issues(a)] ELSE r.details
  <2>1. /\ RecType(c) /\ c.decided = [r.decided EXCEPT ![s] = o] /\ c.counted = k.counted
        /\ c.interrupted = r.interrupted
    BY <1>1, <1>4, CacheIs
  <2>2. /\ c.summaries = r.summaries /\ c.omitted = r.omitted
        /\ IF Stores(r, s, a) THEN Added(r, c, s, o) ELSE c.findings = r.findings
        /\ c.details = IF o = "fail" THEN [r.details EXCEPT ![s] = Issues(a)] ELSE r.details
    BY <1>1, <1>4, RetainReport
  <2> QED
    BY <2>1, <2>2
<1>13. ASSUME ~done, ~DefersDTD(r, s, a), t = c
       PROVE  Decides(r, t, s, a) /\ Reported(r, t, s, a)
  BY <1>1, <1>8, <1>12, <1>13 DEF Decides, Reported
<1>14. ASSUME ~done, DefersDTD(r, s, a), t = deferSourceDTDSummary(c, s, refused)
       PROVE  Decides(r, t, s, a) /\ Deferred(r, t, s, a)
  <2>1. t.details = c.details /\ t.findings = c.findings /\ Opens(c, t, s) /\ SameCore(c, t)
    BY <1>12, <1>14, DeferReport
  <2>2. o = "unsupported" /\ a = "dtd"
    BY <1>1, <1>14 DEF DefersDTD
  <2>3. r.details[s] \in {0, 1} /\ Issues(a) = 0
    BY <2>2 DEF Issues
  <2>4. ~Stores(r, s, a)
    BY <1>14, <2>3 DEF Stores
  <2>5. c.details = r.details /\ c.findings = r.findings
    BY <1>12, <2>2, <2>4
  <2>6. Opens(r, t, s)
    BY <1>12, <2>1 DEF Opens, Open
  <2>7. t.decided = c.decided /\ t.counted = c.counted /\ t.interrupted = r.interrupted
    BY <1>12, <2>1 DEF SameCore
  <2>8. Decides(r, t, s, a)
    BY <1>1, <1>8, <1>12, <1>14, <2>7 DEF Decides
  <2> QED
    BY <1>14, <2>1, <2>5, <2>6, <2>8 DEF Deferred
<1> QED
  BY <1>1, <1>5, <1>6, <1>7, <1>9, <1>10, <1>11, <1>13, <1>14

\* The findings and the summaries are sequences.
Shelf(r) == (\E T : r.findings \in Seq(T)) /\ r.summaries \in Seq(Summary)

\* What is reported stays reported.
Grows(r, t) ==
  /\ \A u : Found(r, u) => Found(t, u)
  /\ \A c : Open(r, c) # {} => Open(t, c) # {}
  /\ r.omitted => t.omitted

\* A finding is never taken back.
LEMMA FoundMore ==
  ASSUME NEW r, Shelf(r), NEW t, NEW s, NEW o, MayAdd(r, t, s, o)
  PROVE  /\ \A u : Found(r, u) => Found(t, u)
         /\ Added(r, t, s, o) => Found(t, s)
<1>1. PICK f, g, e, z : f = r.findings /\ g = t.findings /\ e = NewFinding(r, s, o) /\ z = Len(f) + 1
  OBVIOUS
<1>2. Len(f) \in Nat /\ DOMAIN f = 1..Len(f) /\ \E T : f \in Seq(T)
  <2>1. PICK T : f \in Seq(T)
    BY <1>1 DEF Shelf
  <2> QED
    BY <2>1
<1>3. e.subject = s
  BY <1>1 DEF NewFinding
<1>4. CASE g = f
  BY <1>1, <1>2, <1>4 DEF Found, Added
<1>5. CASE Added(r, t, s, o)
  <2>1. g = Append(f, e)
    BY <1>1, <1>5 DEF Added
  <2>2. \A i \in DOMAIN f : i \in DOMAIN g /\ g[i] = f[i]
    BY <1>2, <2>1
  <2>3. z \in DOMAIN g /\ g[z] = e
    BY <1>1, <1>2, <2>1
  <2>4. Found(t, s)
    BY <1>1, <1>3, <2>3 DEF Found
  <2>5. \A u : Found(r, u) => Found(t, u)
    BY <1>1, <2>2 DEF Found
  <2> QED
    BY <2>4, <2>5
<1> QED
  BY <1>1, <1>4, <1>5 DEF MayAdd, Found, Added

\* The summaries after one of them counted an evaluation.
LEMMA BumpedIs ==
  ASSUME NEW q \in Seq(Summary), NEW k \in DOMAIN q, NEW u, u = Bumped(q, k)
  PROVE  /\ u \in Seq(Summary) /\ DOMAIN u = DOMAIN q
         /\ \A i \in DOMAIN q : /\ u[i].check = q[i].check /\ u[i].first = q[i].first
                                /\ u[i].count = IF i = k THEN q[i].count + 1 ELSE q[i].count
<1>1. PICK e : e = [q[k] EXCEPT !.count = @ + 1]
  OBVIOUS
<1>2. u = [q EXCEPT ![k] = e]
  BY <1>1 DEF Bumped
<1>3. q[k] \in Summary
  OBVIOUS
<1>4. e \in Summary /\ e.check = q[k].check /\ e.first = q[k].first /\ e.count = q[k].count + 1
  BY <1>1, <1>3 DEF Summary
<1>5. Len(q) \in Nat /\ DOMAIN q = 1..Len(q) /\ q \in [1..Len(q) -> Summary]
  OBVIOUS
<1>6. u \in [1..Len(q) -> Summary]
  BY <1>2, <1>4, <1>5
<1>7. u \in Seq(Summary) /\ DOMAIN u = DOMAIN q
  BY <1>5, <1>6
<1> QED
  BY <1>2, <1>4, <1>5, <1>7

\* The summaries after one more was opened.
LEMMA OpenedIs ==
  ASSUME NEW q \in Seq(Summary), NEW s \in Subjects, NEW u, u = Append(q, Opening(s)), NEW z, z = Len(q) + 1
  PROVE  /\ \A i : i \in DOMAIN u <=> i \in DOMAIN q \/ i = z
         /\ z \notin DOMAIN q
         /\ \A i \in DOMAIN q : u[i] = q[i]
         /\ u[z].check = s[2] /\ u[z].first = s /\ u[z].count = 1
<1>1. PICK e : e = Opening(s)
  OBVIOUS
<1>2. u = Append(q, e) /\ e.check = s[2] /\ e.first = s /\ e.count = 1
  BY <1>1 DEF Opening
<1>3. Len(q) \in Nat /\ DOMAIN q = 1..Len(q)
  OBVIOUS
<1>4. DOMAIN u = 1..(Len(q) + 1) /\ u[z] = e
  BY <1>2, <1>3
<1>5. \A i \in DOMAIN q : u[i] = q[i]
  BY <1>2, <1>3
<1> QED
  BY <1>2, <1>3, <1>4, <1>5

\* A summary is never closed, and the check of s has one, unless it is omitted.
LEMMA OpensGrows ==
  ASSUME NEW r, Shelf(r), NEW s \in Subjects, NEW t, Opens(r, t, s), r.omitted \in BOOLEAN
  PROVE  /\ \A c : Open(r, c) # {} => Open(t, c) # {}
         /\ r.omitted => t.omitted
         /\ t.omitted \/ Open(t, s[2]) # {}
<1>1. CASE t.summaries = r.summaries /\ t.omitted = TRUE
  BY <1>1 DEF Open
<1>2. ASSUME NEW k \in Open(r, s[2]), t.summaries = Bumped(r.summaries, k), t.omitted = r.omitted
      PROVE  /\ \A c : Open(r, c) # {} => Open(t, c) # {}
             /\ Open(t, s[2]) # {}
  <2>1. PICK q, u : q = r.summaries /\ u = t.summaries
    OBVIOUS
  <2>2. q \in Seq(Summary) /\ k \in DOMAIN q /\ u = Bumped(q, k)
    BY <1>2, <2>1 DEF Open, Shelf
  <2>3. DOMAIN u = DOMAIN q /\ \A i \in DOMAIN q : u[i].check = q[i].check
    BY <2>2, BumpedIs
  <2>4. \A c : Open(t, c) = Open(r, c)
    BY <2>1, <2>3 DEF Open
  <2> QED
    BY <1>2, <2>4
<1>3. ASSUME t.summaries = Append(r.summaries, Opening(s)), t.omitted = r.omitted
      PROVE  /\ \A c : Open(r, c) # {} => Open(t, c) # {}
             /\ Open(t, s[2]) # {}
  <2>1. PICK q, u, z : q = r.summaries /\ u = t.summaries /\ z = Len(q) + 1
    OBVIOUS
  <2>2. q \in Seq(Summary) /\ u = Append(q, Opening(s))
    BY <1>3, <2>1 DEF Shelf
  <2>3. /\ \A i : i \in DOMAIN u <=> i \in DOMAIN q \/ i = z
        /\ \A i \in DOMAIN q : u[i] = q[i]
        /\ u[z].check = s[2]
    BY <2>1, <2>2, OpenedIs
  <2> QED
    BY <2>1, <2>3 DEF Open
<1> QED
  BY <1>1, <1>2, <1>3 DEF Opens

\* Only s is counted anew, and it is accounted for unless the session stopped.
LEMMA TellsMore ==
  ASSUME NEW r, NEW t, NEW res, NEW s \in Subjects, TellsAll(r, res), Grows(r, t),
         \A u \in Subjects \ {s} : t.counted[u] = r.counted[u],
         ~t.interrupted => (Problem(t, s) => Accounted(t, res, s))
  PROVE  Tells(t, res)
<1>1. ASSUME NEW u \in Subjects, Accounted(r, res, u) PROVE Accounted(t, res, u)
  BY <1>1 DEF Accounted, Grows
<1>2. TellsBut(t, res, s)
  <2> SUFFICES ASSUME NEW u \in Subjects \ {s}, Problem(t, u) PROVE Accounted(t, res, u)
    BY DEF TellsBut
  <2>1. Problem(r, u)
    BY DEF Problem
  <2> QED
    BY <1>1, <2>1 DEF TellsAll
<1>3. CASE t.interrupted
  BY <1>2, <1>3 DEF Tells
<1>4. CASE ~t.interrupted
  BY <1>2, <1>4 DEF Tells, TellsAll, TellsBut
<1> QED
  BY <1>3, <1>4

\* One recording.
LEMMA RecordTells ==
  ASSUME NEW r, Book(r), ~r.interrupted, r.omitted \in BOOLEAN, DetailsOK(r), Shelf(r),
         NEW res, TellsAll(r, res), NEW s \in Subjects, NEW a \in Answers, a = "dtd" => res[s] = "dtd",
         NEW stop, NEW t, t = recordXSDResult(r, s, a, stop)
  PROVE  Tells(t, res)
<1>1. PICK o : o = Outcome(s, a)
  OBVIOUS
<1>2. /\ r.details \in [Subjects -> {0, 1}] /\ RecType(r)
      /\ r.counted \in [Subjects -> Seq(Outcomes)] /\ r.decided \in [Subjects -> Outcomes \cup {"none"}]
  BY DEF DetailsOK, Book, RecType
<1>3. \/ Still(r, t) \/ Repeated(r, t, s, a) \/ CutOff(r, t, s, a)
      \/ Decides(r, t, s, a) /\ (Reported(r, t, s, a) \/ Deferred(r, t, s, a))
  BY <1>2, RecordReport
<1>4. CASE Still(r, t)
  <2>1. Grows(r, t) /\ t.counted = r.counted
    BY <1>4 DEF Still, SameReport, Grows, Found, Open
  <2>2. \A u \in Subjects : Problem(t, u) => Accounted(t, res, u)
    BY <2>1 DEF TellsAll, Problem, Accounted, Grows
  <2> QED
    BY <2>1, <2>2, TellsMore
<1>5. CASE Repeated(r, t, s, a)
  <2>1. /\ t.counted = r.counted /\ MayAdd(r, t, s, o)
        /\ t.summaries = r.summaries /\ t.omitted = r.omitted
    BY <1>1, <1>5 DEF Repeated
  <2>2. Grows(r, t)
    BY <2>1, FoundMore DEF Grows, Open
  <2>3. \A u \in Subjects : Problem(t, u) => Accounted(t, res, u)
    BY <2>1, <2>2 DEF TellsAll, Problem, Accounted, Grows
  <2> QED
    BY <2>1, <2>2, <2>3, TellsMore
<1>6. CASE CutOff(r, t, s, a)
  <2>1. /\ t.counted = [r.counted EXCEPT ![s] = Append(@, o)] /\ MayAdd(r, t, s, o) /\ t.interrupted
        /\ t.summaries = r.summaries /\ (t.omitted = r.omitted \/ t.omitted = TRUE)
    BY <1>1, <1>6 DEF CutOff
  <2>2. Grows(r, t)
    BY <2>1, FoundMore DEF Grows, Open
  <2>3. \A u \in Subjects \ {s} : t.counted[u] = r.counted[u]
    BY <1>2, <2>1
  <2> QED
    BY <2>1, <2>2, <2>3, TellsMore
<1>7. CASE Decides(r, t, s, a)
  <2>1. /\ t.counted = [r.counted EXCEPT ![s] = Append(@, o)] /\ ~t.interrupted /\ r.decided[s] = "none"
    BY <1>1, <1>7 DEF Decides
  <2>2. \A u \in Subjects \ {s} : t.counted[u] = r.counted[u]
    BY <1>2, <2>1
  <2>3. t.counted[s] = <<o>>
    <3>1. r.counted[s] = <<>>
      BY <2>1 DEF Book, CountedOK
    <3>2. t.counted[s] = Append(r.counted[s], o)
      BY <1>2, <2>1
    <3> QED
      BY <3>1, <3>2
  <2>4. CASE Reported(r, t, s, a)
    <3>1. /\ ~DefersDTD(r, s, a) /\ t.summaries = r.summaries /\ t.omitted = r.omitted
          /\ MayAdd(r, t, s, o) /\ (Stores(r, s, a) => Added(r, t, s, o))
      BY <1>1, <2>4 DEF Reported, MayAdd
    <3>2. Grows(r, t) /\ (Stores(r, s, a) => Found(t, s))
      BY <3>1, FoundMore DEF Grows, Open
    <3>3. o \in Problems => Stores(r, s, a)
      <4>1. r.details[s] = 0
        BY <2>1 DEF DetailsOK
      <4>2. Issues(a) \in {0, 1}
        BY DEF Issues
      <4> QED
        BY <1>1, <2>1, <3>1, <4>1, <4>2 DEF Stores, Problems
    <3>4. Problem(t, s) => o \in Problems
      BY <2>3 DEF Problem
    <3>5. Problem(t, s) => Accounted(t, res, s)
      BY <3>2, <3>3, <3>4 DEF Accounted
    <3> QED
      BY <2>2, <3>2, <3>5, TellsMore
  <2>5. CASE Deferred(r, t, s, a)
    <3>1. a = "dtd" /\ t.findings = r.findings /\ Opens(r, t, s)
      BY <2>5 DEF Deferred, DefersDTD
    <3>2. /\ \A c : Open(r, c) # {} => Open(t, c) # {}
          /\ r.omitted => t.omitted
          /\ t.omitted \/ Open(t, s[2]) # {}
      BY <3>1, OpensGrows
    <3>3. Grows(r, t)
      BY <3>1, <3>2 DEF Grows, Found
    <3>4. Accounted(t, res, s)
      BY <3>1, <3>2 DEF Accounted
    <3> QED
      BY <2>2, <3>3, <3>4, TellsMore
  <2> QED
    BY <1>3, <1>7, <2>1, <2>4, <2>5, <1>4, <1>5, <1>6
<1> QED
  BY <1>3, <1>4, <1>5, <1>6, <1>7

\* A recording stores issues only of a subject it decides.
LEMMA RecordDetails ==
  ASSUME NEW r, Book(r), ~r.interrupted, r.omitted \in BOOLEAN, DetailsOK(r),
         NEW s \in Subjects, NEW a \in Answers, NEW stop, NEW t, t = recordXSDResult(r, s, a, stop)
  PROVE  DetailsOK(t) /\ t.omitted \in BOOLEAN
<1>1. PICK o, i : o = Outcome(s, a) /\ i = Issues(a)
  OBVIOUS
<1>2. /\ r.details \in [Subjects -> {0, 1}] /\ RecType(r) /\ i \in {0, 1} /\ o \in Outcomes
      /\ r.decided \in [Subjects -> Outcomes \cup {"none"}]
      /\ \A u \in Subjects : r.decided[u] = "none" => r.details[u] = 0
  BY <1>1, OutcomeKinds DEF DetailsOK, Book, RecType, Issues
<1>3. \/ Still(r, t) \/ Repeated(r, t, s, a) \/ CutOff(r, t, s, a)
      \/ Decides(r, t, s, a) /\ (Reported(r, t, s, a) \/ Deferred(r, t, s, a))
  BY <1>2, RecordReport
<1>4. CASE Still(r, t)
  BY <1>2, <1>4 DEF Still, SameReport, DetailsOK
<1>5. CASE Repeated(r, t, s, a)
  <2>1. /\ r.decided[s] = "fail" /\ t.decided = r.decided /\ t.omitted = r.omitted
        /\ t.details = r.details \/ t.details = [r.details EXCEPT ![s] = i]
    BY <1>1, <1>5 DEF Repeated
  <2> QED
    BY <1>2, <2>1 DEF DetailsOK
<1>6. CASE CutOff(r, t, s, a)
  BY <1>2, <1>6 DEF CutOff, DetailsOK
<1>7. CASE Decides(r, t, s, a) /\ Reported(r, t, s, a)
  <2>1. /\ t.decided = [r.decided EXCEPT ![s] = o] /\ t.omitted = r.omitted
        /\ t.details = r.details \/ t.details = [r.details EXCEPT ![s] = i]
    BY <1>1, <1>7 DEF Decides, Reported
  <2>2. o # "none"
    BY <1>2 DEF Outcomes
  <2> QED
    BY <1>2, <2>1, <2>2 DEF DetailsOK
<1>8. CASE Decides(r, t, s, a) /\ Deferred(r, t, s, a)
  <2>1. /\ t.decided = [r.decided EXCEPT ![s] = o] /\ t.details = r.details /\ t.omitted \in BOOLEAN
    BY <1>1, <1>8 DEF Decides, Deferred, Opens
  <2>2. o # "none"
    BY <1>2 DEF Outcomes
  <2> QED
    BY <1>2, <2>1, <2>2 DEF DetailsOK
<1> QED
  BY <1>3, <1>4, <1>5, <1>6, <1>7, <1>8

\* A recording opens a summary only at a DTD-limited evaluation.
LEMMA RecordSummaries ==
  ASSUME NEW r, Book(r), ~r.interrupted, r.omitted \in BOOLEAN, DetailsOK(r),
         NEW s \in Subjects, NEW a \in Answers, NEW stop, NEW t, t = recordXSDResult(r, s, a, stop)
  PROVE  \/ /\ t.summaries = r.summaries
            /\ t.omitted = r.omitted \/ (a = "dtd" /\ t.omitted)
            /\ t.decided = r.decided \/ (Decides(r, t, s, a) /\ ~DefersDTD(r, s, a))
         \/ Decides(r, t, s, a) /\ a = "dtd" /\ DefersDTD(r, s, a) /\ Opens(r, t, s)
<1>1. RecType(r) /\ r.details \in [Subjects -> {0, 1}]
  BY DEF Book, DetailsOK
<1>2. \/ Still(r, t) \/ Repeated(r, t, s, a) \/ CutOff(r, t, s, a)
      \/ Decides(r, t, s, a) /\ (Reported(r, t, s, a) \/ Deferred(r, t, s, a))
  BY <1>1, RecordReport
<1>3. CASE Still(r, t)
  BY <1>3 DEF Still, SameReport
<1>4. CASE Repeated(r, t, s, a)
  BY <1>4 DEF Repeated
<1>5. CASE CutOff(r, t, s, a)
  BY <1>5 DEF CutOff, DefersDTD
<1>6. CASE Decides(r, t, s, a) /\ Reported(r, t, s, a)
  BY <1>6 DEF Reported
<1>7. CASE Decides(r, t, s, a) /\ Deferred(r, t, s, a)
  BY <1>7 DEF Deferred, DefersDTD
<1> QED
  BY <1>2, <1>3, <1>4, <1>5, <1>6, <1>7

\* A pass visits the nodes in document order, so the subject that opens a summary
\* comes before what is left.
LEMMA OpensKeeps ==
  ASSUME NEW r, Shelf(r), OpenedBy(r), NEW s \in NodeSubjects, NEW t, Opens(r, t, s),
         NEW left, LeftAfter(r, left \cup {s}), \A u \in left : u[2] = s[2] => s[1] <= u[1]
  PROVE  OpenedBy(t) /\ LeftAfter(t, left)
<1>1. PICK q, v : q = r.summaries /\ v = t.summaries
  OBVIOUS
<1>2. /\ q \in Seq(Summary) /\ s \in Subjects
      /\ \A i \in DOMAIN q : /\ q[i].first \in NodeSubjects /\ q[i].first[2] = q[i].check
                             /\ \A u \in left : u[2] = q[i].check => q[i].first[1] <= u[1]
  BY <1>1, SubjectsAre DEF Shelf, OpenedBy, LeftAfter
<1>3. CASE v = q
  BY <1>1, <1>2, <1>3 DEF OpenedBy, LeftAfter
<1>4. ASSUME NEW k \in Open(r, s[2]), v = Bumped(q, k) PROVE OpenedBy(t) /\ LeftAfter(t, left)
  <2>1. k \in DOMAIN q
    BY <1>1 DEF Open
  <2>2. DOMAIN v = DOMAIN q /\ \A i \in DOMAIN q : v[i].check = q[i].check /\ v[i].first = q[i].first
    BY <1>2, <1>4, <2>1, BumpedIs
  <2> QED
    BY <1>1, <1>2, <2>2 DEF OpenedBy, LeftAfter
<1>5. CASE v = Append(q, Opening(s))
  <2>1. PICK z : z = Len(q) + 1
    OBVIOUS
  <2>2. /\ \A i : i \in DOMAIN v <=> i \in DOMAIN q \/ i = z
        /\ \A i \in DOMAIN q : v[i] = q[i]
        /\ v[z].check = s[2] /\ v[z].first = s
    BY <1>2, <1>5, <2>1, OpenedIs
  <2>3. ASSUME NEW i \in DOMAIN v
        PROVE  /\ v[i].first \in NodeSubjects /\ v[i].first[2] = v[i].check
               /\ \A u \in left : u[2] = v[i].check => v[i].first[1] <= u[1]
    <3>1. CASE i \in DOMAIN q
      BY <1>2, <2>2, <3>1
    <3>2. CASE i = z
      BY <2>2, <3>2
    <3> QED
      BY <2>2, <2>3, <3>1, <3>2
  <2> QED
    BY <1>1, <2>3 DEF OpenedBy, LeftAfter
<1> QED
  BY <1>1, <1>3, <1>4, <1>5 DEF Opens

\* The document is finite.
LEMMA NodeSubjectsFinite == IsFiniteSet(NodeSubjects)
<1>1. PICK C : C = {"scalar", "content", "representable"}
  OBVIOUS
<1>2. IsFiniteSet(Nodes) /\ IsFiniteSet(C)
  <2>1. IsFiniteSet({"representable"})
    BY FS_Singleton
  <2>2. IsFiniteSet({"representable"} \cup {"content"})
    BY <2>1, FS_AddElement
  <2>3. IsFiniteSet(({"representable"} \cup {"content"}) \cup {"scalar"})
    BY <2>2, FS_AddElement
  <2>4. C = ({"representable"} \cup {"content"}) \cup {"scalar"}
    BY <1>1
  <2> QED
    BY <2>3, <2>4, DocumentAssumption
<1>3. IsFiniteSet(Nodes \X C)
  BY <1>2, FS_Product
<1>4. ASSUME NEW x \in NodeSubjects PROVE x \in Nodes \X C
  <2>1. PICK n \in Nodes, c \in C : x = <<n, c>>
    BY <1>1, SubjectsAre
  <2> QED
    BY <2>1
<1> QED
  BY <1>3, <1>4, FS_Subset

\* So a summary counts a finite set.
LEMMA LimitedFinite ==
  ASSUME NEW r, NEW res, NEW c
  PROVE  IsFiniteSet(Limited(r, res, c))
<1>1. Limited(r, res, c) \subseteq NodeSubjects
  BY DEF Limited
<1> QED
  BY <1>1, NodeSubjectsFinite, FS_Subset

\* The evaluation that opens a summary or is counted by it.
LEMMA LimitedMore ==
  ASSUME NEW r, Book(r), NEW t, NEW res, NEW s \in Subjects, NEW a, Decides(r, t, s, a), NEW c,
         a = res[s] \/ Outcome(s, a) = "fail"
  PROVE  /\ s \notin Limited(r, res, c)
         /\ ~DefersDTD(r, s, a) => Limited(t, res, c) = Limited(r, res, c)
         /\ c # s[2] => Limited(t, res, c) = Limited(r, res, c)
         /\ DefersDTD(r, s, a) /\ s \in NodeSubjects /\ a = res[s] =>
              Limited(t, res, s[2]) = Limited(r, res, s[2]) \cup {s}
<1>1. PICK o : o = Outcome(s, a)
  OBVIOUS
<1>2. /\ r.decided[s] = "none" /\ t.decided = [r.decided EXCEPT ![s] = o]
      /\ r.decided \in [Subjects -> Outcomes \cup {"none"}]
  BY <1>1 DEF Decides, Book, RecType
<1>3. t.decided[s] = o /\ \A u \in Subjects \ {s} : t.decided[u] = r.decided[u]
  BY <1>2
<1>4. NodeSubjects \subseteq Subjects
  BY SubjectsAre
<1>5. \A d : s \notin Limited(r, res, d)
  BY <1>2 DEF Limited
<1>6. ASSUME NEW d, NEW u, u # s PROVE u \in Limited(t, res, d) <=> u \in Limited(r, res, d)
  BY <1>3, <1>4, <1>6 DEF Limited
<1>7. ASSUME NEW d, s \notin Limited(t, res, d) PROVE Limited(t, res, d) = Limited(r, res, d)
  BY <1>5, <1>6, <1>7
<1>8. ASSUME ~DefersDTD(r, s, a) PROVE s \notin Limited(t, res, c)
  BY <1>1, <1>2, <1>3, <1>8 DEF Limited, DefersDTD
<1>9. c # s[2] => s \notin Limited(t, res, c)
  BY DEF Limited
<1>10. ASSUME DefersDTD(r, s, a), s \in NodeSubjects, a = res[s]
       PROVE  Limited(t, res, s[2]) = Limited(r, res, s[2]) \cup {s}
  <2>1. s \in Limited(t, res, s[2])
    BY <1>1, <1>3, <1>10 DEF Limited, DefersDTD
  <2> QED
    BY <1>5, <1>6, <2>1
<1> QED
  BY <1>5, <1>7, <1>8, <1>9, <1>10

\* Exactness reads the summaries only.
LEMMA ExactSame ==
  ASSUME NEW r, NEW t, NEW c, NEW limited, ExactOf(r, limited, c), t.summaries = r.summaries
  PROVE  ExactOf(t, limited, c)
BY DEF ExactOf, Open

\* A summary that counts one evaluation more.
LEMMA ExactBumped ==
  ASSUME NEW r, Shelf(r), NEW t, NEW k, NEW c, k \in Open(r, c), t.summaries = Bumped(r.summaries, k),
         NEW d, NEW limited, IsFiniteSet(limited), ExactOf(r, limited, d),
         NEW s, s \notin limited, r.summaries[k].first[1] <= s[1],
         NEW more, more = IF d = c THEN limited \cup {s} ELSE limited
  PROVE  ExactOf(t, more, d)
<1>1. PICK q, v : q = r.summaries /\ v = t.summaries
  OBVIOUS
<1>2. q \in Seq(Summary) /\ k \in DOMAIN q /\ q[k].check = c
  BY <1>1 DEF Shelf, Open
<1>3. /\ DOMAIN v = DOMAIN q
      /\ \A i \in DOMAIN q : /\ v[i].check = q[i].check /\ v[i].first = q[i].first
                             /\ v[i].count = IF i = k THEN q[i].count + 1 ELSE q[i].count
  BY <1>1, <1>2, BumpedIs
<1>4. Open(t, d) = Open(r, d)
  BY <1>1, <1>3 DEF Open
<1>5. CASE d = c
  <2>1. limited # {}
    BY <1>5 DEF ExactOf
  <2>2. PICK i \in Open(r, d) : /\ Open(r, d) = {i} /\ q[i].count = Cardinality(limited)
                                /\ q[i].first \in limited
                                /\ \A u \in limited : q[i].first[1] <= u[1]
    BY <1>1, <2>1 DEF ExactOf
  <2>3. i = k
    BY <1>5, <2>2
  <2>4. Cardinality(limited \cup {s}) = Cardinality(limited) + 1
    BY FS_AddElement
  <2>5. /\ v[i].count = Cardinality(more) /\ v[i].first \in more /\ Open(t, d) = {i} /\ i \in Open(t, d)
        /\ \A u \in more : v[i].first[1] <= u[1]
    BY <1>1, <1>2, <1>3, <1>4, <1>5, <2>2, <2>3, <2>4
  <2>6. more # {}
    BY <1>5
  <2> QED
    BY <1>1, <2>5, <2>6 DEF ExactOf
<1>6. CASE d # c
  <2>1. more = limited /\ k \notin Open(r, d)
    BY <1>1, <1>2, <1>6 DEF Open
  <2>2. CASE limited = {}
    BY <1>4, <2>1, <2>2 DEF ExactOf
  <2>3. CASE limited # {}
    <3>1. PICK i \in Open(r, d) : /\ Open(r, d) = {i} /\ q[i].count = Cardinality(limited)
                                  /\ q[i].first \in limited
                                  /\ \A u \in limited : q[i].first[1] <= u[1]
      BY <1>1, <2>3 DEF ExactOf
    <3>2. i \in DOMAIN q /\ i # k
      BY <1>1, <2>1, <3>1 DEF Open
    <3>3. /\ v[i].count = Cardinality(more) /\ v[i].first \in more /\ Open(t, d) = {i} /\ i \in Open(t, d)
          /\ \A u \in more : v[i].first[1] <= u[1]
      BY <1>3, <1>4, <2>1, <3>1, <3>2
    <3> QED
      BY <1>1, <2>1, <2>3, <3>3 DEF ExactOf
  <2> QED
    BY <2>2, <2>3
<1> QED
  BY <1>5, <1>6

\* A summary that is opened.
LEMMA ExactOpened ==
  ASSUME NEW r, Shelf(r), NEW t, NEW s \in NodeSubjects, Open(r, s[2]) = {},
         t.summaries = Append(r.summaries, Opening(s)),
         NEW d, NEW limited, ExactOf(r, limited, d),
         NEW more, more = IF d = s[2] THEN limited \cup {s} ELSE limited
  PROVE  ExactOf(t, more, d)
<1>1. PICK q, v, z : q = r.summaries /\ v = t.summaries /\ z = Len(q) + 1
  OBVIOUS
<1>2. q \in Seq(Summary) /\ s \in Subjects
  BY <1>1, SubjectsAre DEF Shelf
<1>3. /\ \A i : i \in DOMAIN v <=> i \in DOMAIN q \/ i = z
      /\ z \notin DOMAIN q
      /\ \A i \in DOMAIN q : v[i] = q[i]
      /\ v[z].check = s[2] /\ v[z].first = s /\ v[z].count = 1
  BY <1>1, <1>2, OpenedIs
<1>4. CASE d = s[2]
  <2>1. limited = {} /\ more = {s}
    BY <1>4 DEF ExactOf
  <2>2. Open(t, d) = {z}
    BY <1>1, <1>3, <1>4 DEF Open
  <2>3. Cardinality({s}) = 1
    BY FS_Singleton
  <2>4. s[1] <= s[1]
    <3>1. s[1] \in Nat
      BY <1>2, FinalPositions
    <3> QED
      BY <3>1
  <2> QED
    BY <1>1, <1>3, <2>1, <2>2, <2>3, <2>4 DEF ExactOf
<1>5. CASE d # s[2]
  <2>1. more = limited /\ Open(t, d) = Open(r, d)
    BY <1>1, <1>3, <1>5 DEF Open
  <2>2. \A i \in Open(r, d) : v[i] = q[i]
    BY <1>1, <1>3 DEF Open
  <2>3. CASE limited = {}
    BY <2>1, <2>3 DEF ExactOf
  <2>4. CASE limited # {}
    <3>1. PICK i \in Open(r, d) : /\ Open(r, d) = {i} /\ q[i].count = Cardinality(limited)
                                  /\ q[i].first \in limited
                                  /\ \A u \in limited : q[i].first[1] <= u[1]
      BY <1>1, <2>4 DEF ExactOf
    <3>2. v[i] = q[i]
      BY <2>2
    <3> QED
      BY <1>1, <2>1, <2>4, <3>1, <3>2 DEF ExactOf
  <2> QED
    BY <2>3, <2>4
<1> QED
  BY <1>4, <1>5

\* A recording keeps the summaries exact.
LEMMA RecordExact ==
  ASSUME NEW r, Book(r), ~r.interrupted, r.omitted \in BOOLEAN, DetailsOK(r), Shelf(r), OpenedBy(r),
         NEW res, Exact(r, res), NEW s \in Subjects, NEW a \in Answers,
         a = res[s] \/ Outcome(s, a) = "fail", a = "dtd" => a = res[s] /\ s \in NodeSubjects,
         LeftAfter(r, {s}),
         NEW stop, NEW t, t = recordXSDResult(r, s, a, stop)
  PROVE  Exact(t, res)
<1> SUFFICES ASSUME ~t.omitted, NEW c \in ToSet(Checks) PROVE ExactOf(t, Limited(t, res, c), c)
  BY DEF Exact
<1>1. \/ /\ t.summaries = r.summaries
         /\ t.omitted = r.omitted \/ (a = "dtd" /\ t.omitted)
         /\ t.decided = r.decided \/ (Decides(r, t, s, a) /\ ~DefersDTD(r, s, a))
      \/ Decides(r, t, s, a) /\ a = "dtd" /\ DefersDTD(r, s, a) /\ Opens(r, t, s)
  BY RecordSummaries
<1>2. PICK x, y : x = Limited(r, res, c) /\ y = Limited(t, res, c)
  OBVIOUS
<1>3. CASE /\ t.summaries = r.summaries
           /\ t.omitted = r.omitted \/ (a = "dtd" /\ t.omitted)
           /\ t.decided = r.decided \/ (Decides(r, t, s, a) /\ ~DefersDTD(r, s, a))
  <2>1. y = x
    <3>1. CASE t.decided = r.decided
      BY <1>2, <3>1 DEF Limited
    <3>2. CASE Decides(r, t, s, a) /\ ~DefersDTD(r, s, a)
      BY <1>2, <3>2, LimitedMore
    <3> QED
      BY <1>3, <3>1, <3>2
  <2>2. ExactOf(r, x, c)
    BY <1>2, <1>3 DEF Exact
  <2> QED
    BY <1>2, <1>3, <2>1, <2>2, ExactSame
<1>4. CASE Decides(r, t, s, a) /\ a = "dtd" /\ DefersDTD(r, s, a) /\ Opens(r, t, s)
  <2>1. t.omitted = r.omitted /\ ExactOf(r, x, c)
    BY <1>2, <1>4 DEF Opens, Exact
  <2>2. y = (IF c = s[2] THEN x \cup {s} ELSE x) /\ s \notin x /\ IsFiniteSet(x) /\ s \in NodeSubjects
    <3>1. s \in NodeSubjects /\ a = res[s]
      BY <1>4
    <3>2. /\ s \notin x /\ (c # s[2] => y = x)
          /\ Limited(t, res, s[2]) = Limited(r, res, s[2]) \cup {s}
      BY <1>2, <1>4, <3>1, LimitedMore
    <3>3. c = s[2] => y = x \cup {s}
      BY <1>2, <3>2
    <3>4. IsFiniteSet(x)
      BY <1>2, LimitedFinite
    <3> QED
      BY <3>1, <3>2, <3>3, <3>4
  <2>3. ASSUME NEW k \in Open(r, s[2]), t.summaries = Bumped(r.summaries, k)
        PROVE  ExactOf(t, y, c)
    <3>1. PICK e : e = s[2]
      OBVIOUS
    <3>2. r.summaries[k].first[1] <= s[1]
      BY DEF Open, LeftAfter
    <3> QED
      BY <2>1, <2>2, <2>3, <3>1, <3>2, ExactBumped
  <2>4. ASSUME Open(r, s[2]) = {}, t.summaries = Append(r.summaries, Opening(s))
        PROVE  ExactOf(t, y, c)
    BY <2>1, <2>2, <2>4, ExactOpened
  <2>5. ExactOf(t, y, c)
    BY <1>4, <2>3, <2>4 DEF Opens
  <2> QED
    BY <1>2, <2>5
<1> QED
  BY <1>1, <1>3, <1>4

-----------------------------------------------------------------------------
(* The traversal reports by findings alone                                  *)

FoundBut(r, x) == \A s \in Subjects \ {x} : Problem(r, s) => Found(r, s)
FoundAll(r) == \A s \in Subjects : Problem(r, s) => Found(r, s)

Plain(r) ==
  /\ Book(r) /\ Shelf(r) /\ DetailsOK(r) /\ Unopened(r) /\ OnlyFailures(r)
  /\ IF r.interrupted THEN \E x \in Subjects : FoundBut(r, x) ELSE FoundAll(r)

\* Without a summary, a problem is accounted for by its own finding.
LEMMA UnopenedTells ==
  ASSUME NEW r, Unopened(r), NEW res
  PROVE  /\ TellsAll(r, res) <=> FoundAll(r)
         /\ \A x : TellsBut(r, res, x) <=> FoundBut(r, x)
         /\ \A c : Open(r, c) = {}
<1>1. \A c : Open(r, c) = {}
  BY DEF Open, Unopened
<1>2. \A s : Accounted(r, res, s) <=> Found(r, s)
  BY <1>1 DEF Accounted, Unopened
<1> QED
  BY <1>1, <1>2 DEF TellsAll, FoundAll, TellsBut, FoundBut

\* A record of the traversal satisfies what the passes need.
LEMMA PlainTells ==
  ASSUME NEW r, Plain(r), NEW res
  PROVE  /\ Tells(r, res) /\ Exact(r, res) /\ OpenedBy(r) /\ r.omitted \in BOOLEAN /\ DetailsOK(r)
         /\ \A left : LeftAfter(r, left)
<1>1. Unopened(r) /\ OnlyFailures(r) /\ DetailsOK(r)
  BY DEF Plain
<1>2. Tells(r, res)
  BY <1>1, UnopenedTells DEF Plain, Tells
<1>3. Exact(r, res)
  <2> SUFFICES ASSUME NEW c \in ToSet(Checks) PROVE ExactOf(r, Limited(r, res, c), c)
    BY DEF Exact
  <2>1. Limited(r, res, c) = {}
    <3>1. \A u \in NodeSubjects : r.decided[u] # "unsupported"
      BY <1>1, SubjectsAre DEF OnlyFailures
    <3> QED
      BY <3>1 DEF Limited
  <2> QED
    BY <1>1, <2>1, UnopenedTells DEF ExactOf
<1>4. r.omitted = FALSE /\ DOMAIN r.summaries = {}
  BY <1>1 DEF Unopened, Plain
<1>5. OpenedBy(r) /\ \A left : LeftAfter(r, left)
  BY <1>4 DEF OpenedBy, LeftAfter
<1> QED
  BY <1>1, <1>2, <1>3, <1>4, <1>5

\* Recording a failure.
LEMMA PlainRecorded ==
  ASSUME NEW r, Plain(r), NEW s \in Subjects, NEW a \in Answers, ~Valid(a), NEW stop,
         NEW t, t = recordXSDResult(r, s, a, stop)
  PROVE  Plain(t)
<1>1. CASE r.interrupted
  <2>1. t = r
    BY <1>1 DEF recordXSDResult
  <2> QED
    BY <2>1
<1>2. CASE ~r.interrupted
  <2>1. /\ Book(r) /\ Shelf(r) /\ DetailsOK(r) /\ Unopened(r) /\ OnlyFailures(r) /\ FoundAll(r) /\ RecType(r)
    BY <1>2 DEF Plain, Book
  <2>2. r.omitted \in BOOLEAN
    BY <2>1, PlainTells DEF Unopened
  <2>3. a # "dtd" /\ Outcome(s, a) = "fail"
    BY OutcomeKinds DEF Valid
  <2>4. Book(t)
    BY <1>2, <2>1, BookKept
  <2>5. DetailsOK(t) /\ t.omitted \in BOOLEAN
    BY <1>2, <2>1, <2>2, RecordDetails
  <2>6. /\ t.summaries = r.summaries /\ t.omitted = r.omitted
        /\ t.decided = r.decided \/ Decides(r, t, s, a)
    <3>1. \/ /\ t.summaries = r.summaries
             /\ t.omitted = r.omitted \/ (a = "dtd" /\ t.omitted)
             /\ t.decided = r.decided \/ (Decides(r, t, s, a) /\ ~DefersDTD(r, s, a))
          \/ Decides(r, t, s, a) /\ a = "dtd" /\ DefersDTD(r, s, a) /\ Opens(r, t, s)
      BY <1>2, <2>1, <2>2, RecordSummaries
    <3> QED
      BY <2>3, <3>1
  <2>7. Unopened(t)
    BY <2>1, <2>6 DEF Unopened
  <2>8. Shelf(t)
    <3>1. PICK e, o, f : e = NewFinding(r, s, o) /\ o = Outcome(s, a) /\ f = r.findings
      OBVIOUS
    <3>2. t.findings = f \/ t.findings = Append(f, e)
      BY <2>1, <3>1, RecordFiles DEF Shelf, Files
    <3>3. t.summaries \in Seq(Summary)
      BY <2>1, <2>6 DEF Shelf
    <3>4. PICK T : f \in Seq(T)
      BY <2>1, <3>1 DEF Shelf
    <3>5. PICK V : V = T \cup {e}
      OBVIOUS
    <3>6. f \in Seq(V)
      BY <3>4, <3>5
    <3>7. Append(f, e) \in Seq(V)
      BY <3>5, <3>6
    <3> QED
      BY <3>2, <3>3, <3>6, <3>7 DEF Shelf
  <2>9. OnlyFailures(t)
    <3>1. CASE t.decided = r.decided
      BY <2>1, <3>1 DEF OnlyFailures
    <3>2. CASE Decides(r, t, s, a)
      <4>1. t.decided = [r.decided EXCEPT ![s] = "fail"] /\ r.decided \in [Subjects -> Outcomes \cup {"none"}]
        BY <2>1, <2>3, <3>2 DEF Decides, RecType
      <4> QED
        BY <2>1, <4>1 DEF OnlyFailures
    <3> QED
      BY <2>6, <3>1, <3>2
  <2>10. PICK res : res = [u \in Subjects |-> "limited"]
    OBVIOUS
  <2>11. TellsAll(r, res)
    BY <2>1, UnopenedTells
  <2>12. Tells(t, res)
    BY <1>2, <2>1, <2>2, <2>3, <2>11, RecordTells
  <2>13. IF t.interrupted THEN \E x \in Subjects : FoundBut(t, x) ELSE FoundAll(t)
    BY <2>7, <2>12, UnopenedTells DEF Tells
  <2> QED
    BY <2>4, <2>5, <2>7, <2>8, <2>9, <2>13 DEF Plain
<1> QED
  BY <1>1, <1>2

\* A step that reports and decides nothing keeps the record plain.
LEMMA PlainSame ==
  ASSUME NEW r, Plain(r), NEW t, Book(t), SameReport(r, t), t.decided = r.decided, t.counted = r.counted,
         r.interrupted => t.interrupted
  PROVE  Plain(t)
<1>1. Shelf(t) /\ Unopened(t) /\ OnlyFailures(t) /\ DetailsOK(t)
  BY DEF Plain, SameReport, Shelf, Unopened, OnlyFailures, DetailsOK
<1>2. \A u : Found(t, u) <=> Found(r, u)
  BY DEF SameReport, Found
<1>3. \A u : Problem(t, u) <=> Problem(r, u)
  BY DEF Problem
<1>4. (FoundAll(r) => FoundAll(t)) /\ \A x : FoundBut(r, x) => FoundBut(t, x)
  BY <1>2, <1>3 DEF FoundAll, FoundBut
<1>5. FoundAll(t) => FoundBut(t, IdentitySubject)
  BY DEF FoundAll, FoundBut
<1> QED
  BY <1>1, <1>4, <1>5, SubjectsAre DEF Plain

\* One subject of recordXSDProvedFailures.
LEMMA PlainOne ==
  ASSUME NEW x, Plain(x), NEW ans \in [Subjects -> Answers], NEW s \in Subjects,
         NEW stop, NEW w, w = IF Valid(ans[s]) THEN x ELSE recordXSDResult(x, s, ans[s], stop)
  PROVE  Plain(w)
<1>1. ans[s] \in Answers
  OBVIOUS
<1> QED
  BY <1>1, PlainRecorded

\* The failures of a node.
LEMMA ProvedPlain ==
  ASSUME NEW r, Plain(r), NEW n \in Nodes, NEW ans \in [Subjects -> Answers], NEW stop,
         NEW error \in BOOLEAN, NEW t, t = InterruptedIf(recordXSDProvedFailures(r, n, ans, stop), error)
  PROVE  Plain(t)
<1> DEFINE s1 == <<n, "scalar">>
           s2 == <<n, "content">>
           s3 == <<n, "representable">>
           Where(c) == IF stop.check = c THEN stop.where ELSE "never"
<1>1. PICK w1, w2, w3 : w1 = Where("scalar") /\ w2 = Where("content") /\ w3 = Where("representable")
  OBVIOUS
<1>2. PICK p : p = <<1, 0, n>>
  OBVIOUS
<1>3. PICK m : m = MoveTo(r, p)
  OBVIOUS
<1>4. PICK t1 : t1 = IF Valid(ans[s1]) THEN m ELSE recordXSDResult(m, s1, ans[s1], w1)
  OBVIOUS
<1>5. PICK t2 : t2 = IF Valid(ans[s2]) THEN t1 ELSE recordXSDResult(t1, s2, ans[s2], w2)
  OBVIOUS
<1>6. PICK t3 : t3 = IF Valid(ans[s3]) THEN t2 ELSE recordXSDResult(t2, s3, ans[s3], w3)
  OBVIOUS
<1>7. t = InterruptedIf(t3, error)
  BY <1>1, <1>2, <1>3, <1>4, <1>5, <1>6 DEF recordXSDProvedFailures
<1>8. s1 \in Subjects /\ s2 \in Subjects /\ s3 \in Subjects
  BY NodeSubject
<1>9. Plain(m)
  <2>1. Book(r) /\ RecType(r)
    BY DEF Plain, Book
  <2>2. Book(m) /\ m.decided = r.decided /\ m.counted = r.counted /\ m.interrupted = r.interrupted
    BY <1>3, <2>1, MovedIs
  <2>3. SameReport(r, m)
    BY <1>3, <2>1, InterruptedReport
  <2> QED
    BY <2>2, <2>3, PlainSame
<1> HIDE DEF s1, s2, s3
<1>10. Plain(t1)
  BY <1>4, <1>8, <1>9, PlainOne
<1>11. Plain(t2)
  BY <1>5, <1>8, <1>10, PlainOne
<1>12. Plain(t3)
  BY <1>6, <1>8, <1>11, PlainOne
<1>13. Book(t3) /\ RecType(t3)
  BY <1>12 DEF Plain, Book
<1>14. /\ Book(t) /\ t.decided = t3.decided /\ t.counted = t3.counted /\ (t3.interrupted => t.interrupted)
  BY <1>7, <1>13, StoppedIs
<1>15. SameReport(t3, t)
  BY <1>7, <1>13, InterruptedReport
<1> QED
  BY <1>12, <1>14, <1>15, PlainSame

\* The record is plain throughout the traversal.
LEMMA BindingPlain ==
  ASSUME SchemaInv, KeysInv, ReportInv, stage = "binding"
  PROVE  Plain(rec)
<1>1. Book(rec) /\ Unopened(rec) /\ OnlyFailures(rec) /\ DetailsOK(rec) /\ Tells(rec, result)
  BY DEF SchemaInv, ReportInv
<1>2. Shelf(rec)
  BY DEF KeysInv, Filed, Shelf
<1> QED
  BY <1>1, <1>2, UnopenedTells DEF Plain, Tells

\* A traversal step that leaves a plain record preserves the invariant.
LEMMA TraversalReport ==
  ASSUME stage' = "binding", NEW t, rec' = t, Plain(t), NEW ans, result' = ans, ans[IdentitySubject] # "dtd"
  PROVE  ReportInv'
<1>1. /\ Tells(t, ans) /\ Exact(t, ans) /\ OpenedBy(t) /\ t.omitted \in BOOLEAN /\ DetailsOK(t)
      /\ Unopened(t) /\ OnlyFailures(t)
  BY PlainTells DEF Plain
<1> QED
  BY <1>1 DEF ReportInv

\* Preservation, one lemma per action.
LEMMA EnterReport ==
  ASSUME SchemaInv, KeysInv, ReportInv, NEW n \in Entered, NEW scalar \in ScalarAnswers[n],
         NEW content \in ContentAnswers[n], NEW error \in BOOLEAN, NEW stop, NEW kinds,
         Enter(n, [scalar |-> scalar, content |-> content], kinds, error, stop)
  PROVE  ReportInv'
<1>1. stage = "binding" /\ Running /\ stage' = "binding"
  BY DEF Enter
<1>2. PICK ans : ans = [s \in Subjects |-> IF s[1] = n /\ s[2] \in ToSet(LocalChecks)
                           THEN [scalar |-> scalar, content |-> content][s[2]] ELSE result[s]]
  OBVIOUS
<1>3. PICK t : t = InterruptedIf(recordXSDProvedFailures(rec, n, ans, stop), error)
  OBVIOUS
<1>4. result' = ans /\ rec' = t
  BY <1>2, <1>3 DEF Enter
<1>5. BindingOK /\ frames \in Seq(Frame) /\ result \in [Subjects -> Answers]
  BY <1>1, WhileBinding
<1>6. n \in Nodes /\ bound[n] = "none"
  BY <1>5, EnteredIs
<1>7. scalar \in Answers /\ content \in Answers
  BY <1>6, DocumentAssumption
<1>8. ans \in [Subjects -> Answers] /\ \A u \in Subjects \ Own(n) : ans[u] = result[u]
  BY <1>2, <1>5, <1>6, <1>7, EnteredAnswers
<1>9. ans[IdentitySubject] # "dtd"
  <2>1. IdentitySubject \in Subjects /\ IdentitySubject \notin Own(n)
    BY <1>6, SubjectsAre, NodeSubject DEF Own
  <2> QED
    BY <1>5, <1>8, <2>1 DEF BindingOK
<1>10. Plain(rec)
  BY <1>1, BindingPlain
<1>11. Plain(t)
  BY <1>3, <1>6, <1>8, <1>10, ProvedPlain
<1> QED
  BY <1>1, <1>4, <1>9, <1>11, TraversalReport

\* An interrupted traversal is still plain.
LEMMA PlainInterrupted ==
  ASSUME NEW r, Plain(r)
  PROVE  Plain(Interrupted(r))
<1>1. PICK t : t = Interrupted(r)
  OBVIOUS
<1>2. Book(r) /\ RecType(r)
  BY DEF Plain, Book
<1>3. /\ Book(t) /\ t.interrupted /\ t.decided = r.decided /\ t.counted = r.counted
  BY <1>1, <1>2, InterruptedBook, InterruptedIs
<1>4. SameReport(r, t)
  BY <1>1, <1>2, InterruptedReport
<1>5. Plain(t)
  BY <1>3, <1>4, PlainSame
<1> QED
  BY <1>1, <1>5

LEMMA CompleteReport ==
  ASSUME SchemaInv, KeysInv, ReportInv, NEW answer \in {"valid", "invalid", "limited"}, NEW error \in BOOLEAN,
         NEW stop, CompleteNode(answer, error, stop)
  PROVE  ReportInv'
<1>1. PICK k, n : k = Len(frames) /\ n = frames[k].node
  OBVIOUS
<1>2. PICK ans : ans = Completed(n, answer, error)
  OBVIOUS
<1>3. PICK t : t = IF answer = "limited" THEN Interrupted(rec)
                   ELSE InterruptedIf(recordXSDProvedFailures(rec, n, ans, stop), error)
  OBVIOUS
<1>4. stage = "binding" /\ Running /\ stage' = "binding" /\ frames # <<>> /\ result' = ans /\ rec' = t
  BY <1>1, <1>2, <1>3 DEF CompleteNode, Completed, Aborted, Last
<1>5. BindingOK /\ FramesOK /\ frames \in Seq(Frame) /\ result \in [Subjects -> Answers]
  BY <1>4, WhileBinding
<1>6. k \in DOMAIN frames /\ frames[k] \in Frame
  BY <1>1, <1>4, <1>5
<1>7. n \in Nodes /\ result[<<n, "representable">>] = "limited"
  BY <1>1, <1>5, <1>6 DEF Frame, FramesOK
<1>8. result[IdentitySubject] = "limited" /\ answer \in Answers
  BY <1>5 DEF BindingOK, Answers
<1>9. ans \in [Subjects -> Answers] /\ \A u \in Subjects \ Own(n) : ans[u] = result[u]
  BY <1>2, <1>5, <1>7, <1>8, CompletedAnswers
<1>10. ans[IdentitySubject] # "dtd"
  <2>1. IdentitySubject \in Subjects /\ IdentitySubject \notin Own(n)
    BY <1>7, SubjectsAre, NodeSubject DEF Own
  <2> QED
    BY <1>8, <1>9, <2>1
<1>11. Plain(rec)
  BY <1>4, BindingPlain
<1>12. Plain(t)
  BY <1>3, <1>7, <1>9, <1>11, ProvedPlain, PlainInterrupted
<1> QED
  BY <1>4, <1>10, <1>12, TraversalReport

LEMMA EndReport ==
  ASSUME SchemaInv, KeysInv, ReportInv, NEW identity \in {"limited", "cut"}, NEW error \in BOOLEAN, NEW stop,
         EndBinding(identity, error, stop)
  PROVE  ReportInv'
<1>1. PICK a : a = "invalid"
  OBVIOUS
<1>2. PICK w : w = Told(rec, identity, a, stop)
  OBVIOUS
<1>3. PICK t : t = InterruptedIf(w, error)
  OBVIOUS
<1>4. PICK ans : ans = [s \in Subjects |-> EndAnswer(identity, s)]
  OBVIOUS
<1>5. /\ stage = "binding" /\ Running /\ rec' = t /\ result' = ans
      /\ stage' = IF closes THEN "closing" ELSE "phases"
      /\ cursor' = IF closes THEN Due(w, NodeSubjects) ELSE {}
  BY <1>1, <1>2, <1>3, <1>4 DEF EndBinding, Told, EndAnswer
<1>6. IdentitySubject \in Subjects
  BY SubjectsAre
<1>7. ans[IdentitySubject] # "dtd"
  BY <1>4, <1>6 DEF EndAnswer
<1>8. Plain(rec)
  BY <1>5, BindingPlain
<1>9. Plain(w)
  <2>1. a \in Answers /\ ~Valid(a)
    BY <1>1 DEF Answers, Valid
  <2> QED
    BY <1>2, <1>6, <1>8, <2>1, PlainRecorded DEF Told
<1>10. Book(w) /\ RecType(w)
  BY <1>9 DEF Plain, Book
<1>11. /\ Book(t) /\ t.decided = w.decided /\ t.counted = w.counted /\ (w.interrupted => t.interrupted)
  BY <1>3, <1>10, StoppedIs
<1>12. SameReport(w, t)
  BY <1>3, <1>10, InterruptedReport
<1>13. Plain(t)
  BY <1>9, <1>11, <1>12, PlainSame
<1>14. /\ Tells(t, ans) /\ Exact(t, ans) /\ OpenedBy(t) /\ t.omitted \in BOOLEAN /\ DetailsOK(t)
       /\ Unopened(t) /\ \A left : LeftAfter(t, left)
  BY <1>13, PlainTells DEF Plain
<1>15. closes => \A s \in NodeSubjects : t.decided[s] = "none" => s \in cursor'
  BY <1>5, <1>11 DEF Due
<1>16. stage' \in {"closing", "phases"} /\ (stage' = "closing" => closes)
  BY <1>5 DEF SchemaInv
<1> QED
  BY <1>5, <1>7, <1>14, <1>15, <1>16 DEF ReportInv

-----------------------------------------------------------------------------
(* The passes                                                               *)

Reporting(r, res) ==
  /\ Book(r) /\ Shelf(r) /\ r.omitted \in BOOLEAN /\ DetailsOK(r) /\ OpenedBy(r) /\ Tells(r, res)
  /\ Exact(r, res)

\* A step that reports and decides nothing keeps what the passes rely on.
LEMMA SameReporting ==
  ASSUME NEW r, NEW res, Reporting(r, res), NEW t, Book(t), SameReport(r, t), t.decided = r.decided,
         t.counted = r.counted, r.interrupted => t.interrupted
  PROVE  Reporting(t, res) /\ \A left : LeftAfter(r, left) => LeftAfter(t, left)
<1>1. Shelf(t) /\ t.omitted \in BOOLEAN /\ DetailsOK(t) /\ OpenedBy(t)
  BY DEF Reporting, SameReport, Shelf, DetailsOK, OpenedBy
<1>2. \A left : LeftAfter(r, left) => LeftAfter(t, left)
  BY DEF SameReport, LeftAfter
<1>3. Exact(t, res)
  BY DEF Reporting, SameReport, Exact, Limited, ExactOf, Open
<1>4. \A u : (Accounted(t, res, u) <=> Accounted(r, res, u)) /\ (Problem(t, u) <=> Problem(r, u))
  BY DEF SameReport, Accounted, Found, Open, Problem
<1>5. /\ TellsAll(r, res) => TellsAll(t, res) /\ TellsBut(t, res, IdentitySubject)
      /\ \A x : TellsBut(r, res, x) => TellsBut(t, res, x)
  BY <1>4 DEF TellsAll, TellsBut
<1>6. Tells(t, res)
  BY <1>5, SubjectsAre DEF Reporting, Tells
<1> QED
  BY <1>1, <1>2, <1>3, <1>6 DEF Reporting

\* The report depends on the answers only where a DTD limits them.
LEMMA OtherAnswers ==
  ASSUME NEW r, NEW res, Reporting(r, res), NEW ans, \A u \in Subjects : ans[u] = "dtd" <=> res[u] = "dtd"
  PROVE  Reporting(r, ans)
<1>1. \A u \in Subjects : Accounted(r, ans, u) <=> Accounted(r, res, u)
  BY DEF Accounted
<1>2. /\ TellsAll(r, res) => TellsAll(r, ans)
      /\ \A x : TellsBut(r, res, x) => TellsBut(r, ans, x)
  BY <1>1 DEF TellsAll, TellsBut
<1>3. Tells(r, ans)
  BY <1>2 DEF Reporting, Tells
<1>4. NodeSubjects \subseteq Subjects
  BY SubjectsAre
<1>5. \A c : Limited(r, ans, c) = Limited(r, res, c)
  BY <1>4 DEF Limited
<1>6. Exact(r, ans)
  BY <1>5 DEF Reporting, Exact
<1> QED
  BY <1>3, <1>6 DEF Reporting

\* A recording keeps findings and summaries sequences.
LEMMA RecordShelf ==
  ASSUME NEW r, Book(r), Shelf(r), NEW s \in Subjects, NEW a \in Answers, NEW stop,
         NEW t, t = recordXSDResult(r, s, a, stop)
  PROVE  Shelf(t)
<1>1. PICK e, o, f : e = NewFinding(r, s, o) /\ o = Outcome(s, a) /\ f = r.findings
  OBVIOUS
<1>2. (t.findings = f \/ t.findings = Append(f, e)) /\ t.summaries \in Seq(Summary)
  BY <1>1, RecordFiles DEF Shelf, Files, Book
<1>3. PICK T : f \in Seq(T)
  BY <1>1 DEF Shelf
<1>4. PICK V : V = T \cup {e}
  OBVIOUS
<1>5. f \in Seq(V)
  BY <1>3, <1>4
<1>6. Append(f, e) \in Seq(V)
  BY <1>4, <1>5
<1> QED
  BY <1>2, <1>5, <1>6 DEF Shelf

\* One evaluation of a pass that has left to come.
LEMMA RecordReporting ==
  ASSUME NEW r, NEW res, Reporting(r, res), ~r.interrupted, NEW s \in Subjects, NEW a \in Answers, a = res[s],
         a = "dtd" => s \in NodeSubjects,
         NEW left, LeftAfter(r, left \cup {s}), \A u \in left : u[2] = s[2] => s[1] <= u[1],
         NEW stop, NEW t, t = recordXSDResult(r, s, a, stop)
  PROVE  Reporting(t, res) /\ LeftAfter(t, left)
<1>1. /\ Book(r) /\ Shelf(r) /\ r.omitted \in BOOLEAN /\ DetailsOK(r) /\ OpenedBy(r) /\ TellsAll(r, res)
      /\ Exact(r, res)
  BY DEF Reporting, Tells
<1>2. Book(t) /\ Shelf(t) /\ DetailsOK(t) /\ t.omitted \in BOOLEAN
  BY <1>1, BookKept, RecordShelf, RecordDetails
<1>3. Tells(t, res)
  BY <1>1, RecordTells
<1>4. LeftAfter(r, {s}) /\ LeftAfter(r, left)
  BY DEF LeftAfter
<1>5. Exact(t, res)
  BY <1>1, <1>4, RecordExact
<1>6. \/ t.summaries = r.summaries
      \/ a = "dtd" /\ Opens(r, t, s)
  BY <1>1, RecordSummaries
<1>7. OpenedBy(t) /\ LeftAfter(t, left)
  <2>1. CASE t.summaries = r.summaries
    BY <1>1, <1>4, <2>1 DEF OpenedBy, LeftAfter
  <2>2. CASE a = "dtd" /\ Opens(r, t, s)
    BY <1>1, <2>2, OpensKeeps
  <2> QED
    BY <1>6, <2>1, <2>2
<1> QED
  BY <1>2, <1>3, <1>5, <1>7 DEF Reporting

\* The invariant gives what the passes rely on.
LEMMA IsReporting ==
  ASSUME SchemaInv, KeysInv, ReportInv, stage # "done"
  PROVE  Reporting(rec, result)
<1>1. Shelf(rec)
  BY DEF KeysInv, Filed, Shelf
<1> QED
  BY <1>1 DEF SchemaInv, ReportInv, Reporting

\* One evaluation of the closing pass.
LEMMA ClosedReport ==
  ASSUME SchemaInv, KeysInv, ReportInv, NEW s \in cursor, NEW stop, EvaluateClosed(s, stop)
  PROVE  ReportInv'
<1>1. PICK t, a, left : t = recordXSDResult(rec, s, a, stop) /\ a = result[s] /\ left = cursor \ {s}
  OBVIOUS
<1>2. /\ stage = "closing" /\ Running /\ rec' = t /\ stage' = stage /\ result' = result /\ cursor' = left
      /\ \A u \in left : NodePass(s, u)
  BY <1>1 DEF EvaluateClosed, Evaluate
<1>3. /\ Book(rec) /\ Sound(rec, result) /\ cursor \subseteq NodeSubjects /\ s \in Subjects /\ a \in Answers
      /\ cursor \subseteq Subjects
  BY <1>1, <1>2 DEF SchemaInv, StageOK
<1>4. Reporting(rec, result) /\ LeftAfter(rec, cursor) /\ result[IdentitySubject] # "dtd"
      /\ \A u \in NodeSubjects : rec.decided[u] = "none" => u \in cursor
  BY <1>2, IsReporting DEF ReportInv
<1>5. a = "dtd" => s \in NodeSubjects
  BY <1>3
<1>6. left \cup {s} = cursor
  BY <1>1
<1>7. \A u \in left : u[2] = s[2] => s[1] <= u[1]
  <2>1. \A u \in left : u[1] \in Nat /\ s[1] \in Nat
    BY <1>1, <1>3, FinalPositions
  <2> QED
    BY <1>2, <2>1 DEF NodePass
<1>8. LeftAfter(rec, left \cup {s}) /\ ~rec.interrupted
  BY <1>2, <1>4, <1>6 DEF Running
<1>9. Reporting(t, result) /\ LeftAfter(t, left)
  BY <1>1, <1>3, <1>4, <1>5, <1>7, <1>8, RecordReporting
<1>10. Evaluated(rec, t, result, s)
  <2>1. Evaluable(rec, s)
    BY <1>3, SubjectsAre DEF Evaluable
  <2> QED
    BY <1>1, <1>3, <1>8, <2>1, EvaluateRecorded
<1>11. ASSUME ~t.interrupted, NEW u \in NodeSubjects, t.decided[u] = "none" PROVE u \in left
  <2>1. u # s /\ t.decided[u] = rec.decided[u]
    BY <1>10, <1>11, SubjectsAre DEF Evaluated
  <2> QED
    BY <1>1, <1>4, <1>11, <2>1
<1> QED
  BY <1>2, <1>4, <1>9, <1>11 DEF ReportInv, Reporting, Running

\* One evaluation of the final pass.
LEMMA FinalReport ==
  ASSUME SchemaInv, KeysInv, ReportInv, NEW s \in cursor, NEW stop, EvaluateFinal(s, stop)
  PROVE  ReportInv'
<1>1. PICK p, a, left : p = FinalPosition(s) /\ a = result[s] /\ left = cursor \ {s}
  OBVIOUS
<1>2. PICK m : m = MoveTo(rec, p)
  OBVIOUS
<1>3. PICK t : t = recordXSDResult(m, s, a, stop)
  OBVIOUS
<1>4. /\ stage = "phases" /\ Running /\ rec' = t /\ stage' = stage /\ result' = result /\ cursor' = left
      /\ \A u \in left : PhasePass(s, u)
  BY <1>1, <1>2, <1>3 DEF EvaluateFinal, Evaluate, FinalPosition
<1>5. Book(rec) /\ RecType(rec) /\ cursor \subseteq Subjects /\ s \in Subjects /\ a \in Answers
  BY <1>1 DEF SchemaInv, Book
<1>6. Reporting(rec, result) /\ LeftAfter(rec, cursor) /\ result[IdentitySubject] # "dtd"
  BY <1>4, IsReporting DEF ReportInv
<1>7. a = "dtd" => s \in NodeSubjects
  BY <1>1, <1>5, <1>6, SubjectsAre
<1>8. Book(m) /\ m.at = p /\ m.decided = rec.decided /\ m.counted = rec.counted /\ m.interrupted = rec.interrupted
  BY <1>2, <1>5, MovedIs
<1>9. SameReport(rec, m)
  BY <1>2, <1>5, InterruptedReport
<1>10. Reporting(m, result) /\ LeftAfter(m, cursor)
  BY <1>6, <1>8, <1>9, SameReporting
<1>11. ASSUME NEW u \in left, u[2] = s[2] PROVE s[1] <= u[1]
  <2>1. u \in Subjects /\ u # s /\ u[1] \in Nat /\ s[1] \in Nat /\ PhaseOf(u) \in Nat
    BY <1>1, <1>5, FinalPositions
  <2>2. u \in NodeSubjects /\ s \in NodeSubjects
    <3>1. \A v \in NodeSubjects : v[2] # "identity"
      BY SubjectsAre
    <3>2. IdentitySubject[2] = "identity"
      BY DEF IdentitySubject
    <3> QED
      BY <1>5, <1>11, <2>1, <3>1, <3>2, SubjectsAre
  <2>3. PhaseOf(u) = PhaseOf(s)
    BY <1>11, <2>2, SubjectsAre DEF PhaseOf
  <2> QED
    BY <1>4, <2>1, <2>3 DEF PhasePass
<1>12. LeftAfter(m, left \cup {s}) /\ ~m.interrupted
  <2>1. left \cup {s} = cursor
    BY <1>1
  <2> QED
    BY <1>4, <1>8, <1>10, <2>1 DEF Running
<1>13. Reporting(t, result) /\ LeftAfter(t, left)
  BY <1>1, <1>3, <1>5, <1>7, <1>10, <1>11, <1>12, RecordReporting
<1>14. t.at[1] = 3
  <2>1. t.at = p
    BY <1>3, <1>5, <1>8, <1>12, RecordKinds DEF Book
  <2> QED
    BY <1>1, <1>5, <2>1, FinalPositions
<1> QED
  BY <1>4, <1>6, <1>13, <1>14 DEF ReportInv, Reporting, Running

\* Finalisation with the identity answer.
LEMMA FinalizeReport ==
  ASSUME SchemaInv, KeysInv, ReportInv, NEW identity \in {"valid", "limited", "invalid", "cut"},
         NEW error \in BOOLEAN, NEW stop, finalizeSourceSchema(identity, error, stop)
  PROVE  ReportInv'
<1>1. PICK p : p = <<2, 0, 0>>
  OBVIOUS
<1>2. PICK m : m = MoveTo(rec, p)
  OBVIOUS
<1>3. PICK w : w = Told(m, identity, identity, stop)
  OBVIOUS
<1>4. PICK t : t = InterruptedIf(w, error)
  OBVIOUS
<1>5. PICK ans, i : ans = [result EXCEPT ![IdentitySubject] = identity] /\ i = IdentitySubject
  OBVIOUS
<1>6. /\ Running /\ rec' = t /\ stage' = "phases" /\ cursor' = Due(w, Subjects) /\ result' = ans
      /\ (stage = "closing" /\ cursor = {}) \/ (stage = "phases" /\ rec.at[1] = 1)
  BY <1>1, <1>2, <1>3, <1>4, <1>5 DEF finalizeSourceSchema, Told
<1>7. Book(rec) /\ RecType(rec) /\ result \in [Subjects -> Answers] /\ i \in Subjects /\ i \notin NodeSubjects
  BY <1>5, SubjectsAre DEF SchemaInv, Book
<1>8. Reporting(rec, result) /\ result[i] # "dtd"
  BY <1>5, <1>6, IsReporting DEF ReportInv
<1>9. identity \in Answers /\ identity # "dtd" /\ ans[i] = identity
  BY <1>5, <1>7 DEF Answers
<1>10. Reporting(rec, ans)
  <2>1. \A u \in Subjects : ans[u] = "dtd" <=> result[u] = "dtd"
    BY <1>5, <1>7, <1>8, <1>9
  <2> QED
    BY <1>8, <2>1, OtherAnswers
<1>11. Book(m) /\ m.at = p /\ m.decided = rec.decided /\ m.counted = rec.counted /\ m.interrupted = rec.interrupted
  BY <1>2, <1>7, MovedIs
<1>12. SameReport(rec, m)
  BY <1>2, <1>7, InterruptedReport
<1>13. Reporting(m, ans)
  BY <1>10, <1>11, <1>12, SameReporting
<1>14. ~m.interrupted
  BY <1>6, <1>11 DEF Running
<1>15. /\ Reporting(w, ans) /\ w.at = p /\ w.summaries = rec.summaries
       /\ \A u \in Subjects \ {i} : w.decided[u] = rec.decided[u]
  <2>1. CASE Valid(identity)
    BY <1>3, <1>11, <1>12, <1>13, <2>1 DEF Told, SameReport
  <2>2. CASE ~Valid(identity)
    <3>1. w = recordXSDResult(m, i, identity, stop)
      BY <1>3, <1>5, <2>2 DEF Told
    <3>2. PICK left : left = {}
      OBVIOUS
    <3>3. LeftAfter(m, left \cup {i}) /\ \A u \in left : u[2] = i[2] => i[1] <= u[1]
      <4>1. i[2] = "identity" /\ \A v \in NodeSubjects : v[2] # "identity"
        BY <1>5, SubjectsAre DEF IdentitySubject
      <4>2. left \cup {i} = {i}
        BY <3>2
      <4>3. OpenedBy(m)
        BY <1>13 DEF Reporting
      <4> QED
        BY <3>2, <4>1, <4>2, <4>3 DEF OpenedBy, LeftAfter
    <3>4. Reporting(w, ans)
      BY <1>7, <1>9, <1>13, <1>14, <3>1, <3>3, RecordReporting
    <3>5. w.at = p
      BY <1>7, <1>9, <1>11, <1>14, <3>1, RecordKinds DEF Book
    <3>6. w.summaries = m.summaries /\ (w.decided = m.decided \/ Decides(m, w, i, identity))
      <4>1. m.omitted \in BOOLEAN /\ DetailsOK(m)
        BY <1>13 DEF Reporting
      <4>2. \/ /\ w.summaries = m.summaries
               /\ w.omitted = m.omitted \/ (identity = "dtd" /\ w.omitted)
               /\ w.decided = m.decided \/ (Decides(m, w, i, identity) /\ ~DefersDTD(m, i, identity))
            \/ Decides(m, w, i, identity) /\ identity = "dtd" /\ DefersDTD(m, i, identity) /\ Opens(m, w, i)
        BY <1>7, <1>9, <1>11, <1>14, <3>1, <4>1, RecordSummaries
      <4> QED
        BY <1>9, <4>2
    <3>7. \A u \in Subjects \ {i} : w.decided[u] = m.decided[u]
      <4>1. PICK o : o = Outcome(i, identity)
        OBVIOUS
      <4>2. w.decided = m.decided \/ w.decided = [m.decided EXCEPT ![i] = o]
        BY <3>6, <4>1 DEF Decides
      <4>3. m.decided \in [Subjects -> Outcomes \cup {"none"}]
        BY <1>11 DEF Book, RecType
      <4> QED
        BY <4>2, <4>3
    <3> QED
      BY <1>11, <1>12, <3>4, <3>5, <3>6, <3>7 DEF SameReport
  <2> QED
    BY <2>1, <2>2
<1>16. LeftAfter(w, cursor')
  <2>1. CASE stage = "phases" /\ rec.at[1] = 1
    <3>1. rec.summaries = <<>>
      BY <1>6, <2>1 DEF ReportInv, Unopened
    <3> QED
      BY <1>15, <3>1 DEF LeftAfter
  <2>2. CASE stage = "closing" /\ cursor = {}
    <3>1. \A u \in NodeSubjects : rec.decided[u] # "none"
      BY <1>6, <2>2 DEF ReportInv
    <3>2. cursor' \subseteq {i}
      BY <1>5, <1>6, <1>15, <3>1, SubjectsAre DEF Due
    <3>3. i[2] = "identity" /\ \A v \in NodeSubjects : v[2] # "identity"
      BY <1>5, SubjectsAre DEF IdentitySubject
    <3>4. OpenedBy(w)
      BY <1>15 DEF Reporting
    <3> QED
      BY <3>2, <3>3, <3>4 DEF OpenedBy, LeftAfter
  <2> QED
    BY <1>6, <2>1, <2>2
<1>17. Book(w) /\ RecType(w)
  BY <1>15 DEF Reporting, Book
<1>18. Book(t) /\ t.at = w.at /\ t.decided = w.decided /\ t.counted = w.counted /\ (w.interrupted => t.interrupted)
  BY <1>4, <1>17, StoppedIs
<1>19. SameReport(w, t)
  BY <1>4, <1>17, InterruptedReport
<1>20. Reporting(t, ans) /\ LeftAfter(t, cursor')
  BY <1>15, <1>16, <1>18, <1>19, SameReporting
<1>21. t.at[1] = 2
  BY <1>1, <1>15, <1>18
<1> QED
  BY <1>5, <1>6, <1>9, <1>20, <1>21 DEF ReportInv, Reporting, Running

\* An interruption between two evaluations.
LEMMA InterruptReport ==
  ASSUME SchemaInv, KeysInv, ReportInv, Interrupt
  PROVE  ReportInv'
<1>1. PICK t : t = Interrupted(rec)
  OBVIOUS
<1>2. stage # "done" /\ stage' = stage /\ rec' = t /\ result' = result
  BY <1>1 DEF Interrupt
<1>3. Reporting(rec, result) /\ Book(rec) /\ RecType(rec)
  BY <1>2, IsReporting DEF SchemaInv, Book
<1>4. Book(t) /\ t.interrupted /\ t.decided = rec.decided /\ t.counted = rec.counted
  BY <1>1, <1>3, InterruptedBook, InterruptedIs
<1>5. SameReport(rec, t)
  BY <1>1, <1>3, InterruptedReport
<1>6. Reporting(t, result)
  BY <1>3, <1>4, <1>5, SameReporting
<1>7. stage = "binding" => Unopened(t) /\ OnlyFailures(t)
  BY <1>4, <1>5 DEF ReportInv, SameReport, Unopened, OnlyFailures
<1>8. result[IdentitySubject] # "dtd"
  BY DEF ReportInv
<1> QED
  BY <1>2, <1>4, <1>6, <1>7, <1>8 DEF ReportInv, Reporting, Running

\* What the finished report says of a subject.
ReportedIn(r, res, s) ==
  \/ \E i \in DOMAIN r.findings : r.findings[i].subject = s
  \/ \E i \in DOMAIN r.findings : /\ r.findings[i].key[1] = 4
                                  /\ r.findings[i].subject[2] = s[2]
                                  /\ res[s] = "dtd"

\* The flush gives every summary its finding.
LEMMA FlushFinds ==
  ASSUME NEW r, Filed(r), OpenedBy(r), NEW g, g = SummaryFindings(r.summaries), NEW t, t.findings = r.findings \o g,
         NEW res, ~r.omitted, NEW s \in Subjects, Accounted(r, res, s)
  PROVE  ReportedIn(t, res, s)
<1>1. PICK x, f, n, c, q : x = r.findings /\ f = t.findings /\ n = Len(x) /\ c = Len(g) /\ q = r.summaries
  OBVIOUS
<1>2. x \in Seq(Finding) /\ n \in Nat /\ q \in Seq(Summary) /\ DOMAIN x = 1..n /\ DOMAIN q = 1..Len(q)
  BY <1>1 DEF Filed
<1>3. /\ g \in Seq(Finding) /\ c \in Nat
      /\ \A i \in 1..c : g[i].key[1] = 4
  BY <1>1, <1>2, SummaryFindingsAre
<1>4. /\ Len(f) = n + c /\ DOMAIN f = 1..(n + c)
      /\ \A i \in 1..(n + c) : f[i] = IF i <= n THEN x[i] ELSE g[i - n]
  <2>1. /\ x \o g \in Seq(Finding) /\ Len(x \o g) = Len(x) + Len(g)
        /\ \A i \in 1..(Len(x) + Len(g)) : (x \o g)[i] = IF i <= Len(x) THEN x[i] ELSE g[i - Len(x)]
    BY <1>2, <1>3, ConcatProperties
  <2>2. f = x \o g
    BY <1>1
  <2>3. DOMAIN f = 1..Len(f)
    BY <2>1, <2>2
  <2> QED
    BY <1>1, <2>1, <2>2, <2>3
<1>5. CASE Found(r, s)
  <2>1. PICK i \in DOMAIN x : x[i].subject = s
    BY <1>1, <1>5 DEF Found
  <2>2. i \in 1..(n + c) /\ i <= n
    BY <1>2, <1>3, <2>1
  <2>3. i \in DOMAIN f /\ f[i] = x[i]
    BY <1>4, <2>2
  <2> QED
    BY <1>1, <2>1, <2>3 DEF ReportedIn
<1>6. CASE res[s] = "dtd" /\ Open(r, s[2]) # {}
  <2>1. PICK k \in DOMAIN q : q[k].check = s[2]
    BY <1>1, <1>6 DEF Open
  <2>2. q[k].first[2] = s[2]
    BY <1>1, <2>1 DEF OpenedBy
  <2>3. DOMAIN g = DOMAIN q /\ g[k].subject = q[k].first
    BY <1>1, <2>1 DEF SummaryFindings
  <2>4. k \in 1..c /\ k \in Nat
    BY <1>1, <1>2, <1>3, <2>1, <2>3
  <2>5. PICK z : z = n + k
    OBVIOUS
  <2>6. z \in 1..(n + c) /\ ~(z <= n) /\ z - n = k
    BY <1>2, <1>3, <2>4, <2>5
  <2>7. z \in DOMAIN f /\ f[z] = g[k]
    BY <1>4, <2>6
  <2> QED
    BY <1>1, <1>3, <1>6, <2>2, <2>3, <2>4, <2>7 DEF ReportedIn
<1> QED
  BY <1>5, <1>6 DEF Accounted

\* An interrupted recording leaves at most one subject.
LEMMA AtMostOne ==
  ASSUME NEW U, NEW x, U \subseteq {x}
  PROVE  Cardinality(U) <= 1
<1>1. CASE U = {}
  BY <1>1, FS_EmptySet
<1>2. CASE U = {x}
  <2>1. Cardinality({x}) = 1
    BY FS_Singleton
  <2> QED
    BY <1>2, <2>1
<1> QED
  BY <1>1, <1>2

\* The flush reports every summary, or marks the report truncated.
LEMMA FlushReport ==
  ASSUME SchemaInv, KeysInv, ReportInv, flushSourceDTDSummaries
  PROVE  ReportInv'
<1>1. PICK p : p = <<4, 0, 0>>
  OBVIOUS
<1>2. PICK m : m = MoveTo(rec, p)
  OBVIOUS
<1>3. PICK g : g = SummaryFindings(rec.summaries)
  OBVIOUS
<1>4. PICK f : f = m.findings \o g
  OBVIOUS
<1>5. RecType(rec) /\ Book(rec) /\ Filed(rec)
  BY DEF SchemaInv, Book, KeysInv
<1>6. m = [rec EXCEPT !.at = p]
  BY <1>2 DEF MoveTo
<1>7. /\ RecType(m) /\ SameReport(rec, m) /\ m.decided = rec.decided /\ m.counted = rec.counted
      /\ m.interrupted = rec.interrupted
  BY <1>2, <1>5, InterruptedReport, MovedIs DEF Book
<1>8. PICK b, x : b = (m.unfinished \/ rec.interrupted) /\ x = rec.omitted
  OBVIOUS
<1>9. PICK t : t = [m EXCEPT !.findings = f, !.unfinished = b, !.truncated = x]
  OBVIOUS
<1>10. stage # "done" /\ rec' = t /\ stage' = "done" /\ result' = result
  BY <1>1, <1>2, <1>3, <1>4, <1>8, <1>9 DEF flushSourceDTDSummaries, SummaryFindings
<1>11. /\ t.findings = f /\ t.summaries = m.summaries /\ t.omitted = m.omitted /\ t.details = m.details
       /\ t.decided = m.decided /\ t.counted = m.counted /\ t.interrupted = m.interrupted /\ t.truncated = x
  BY <1>7, <1>9 DEF RecType
<1>12. /\ t.findings = rec.findings \o g /\ t.summaries = rec.summaries /\ t.omitted = rec.omitted
       /\ t.details = rec.details /\ t.decided = rec.decided /\ t.counted = rec.counted
       /\ t.interrupted = rec.interrupted /\ t.truncated = rec.omitted
  BY <1>4, <1>7, <1>8, <1>11 DEF SameReport
<1>13. Reporting(rec, result) /\ result[IdentitySubject] # "dtd"
  BY <1>10, IsReporting DEF ReportInv
<1>14. t.omitted \in BOOLEAN /\ DetailsOK(t) /\ OpenedBy(t) /\ Exact(t, result)
  <2>1. t.omitted \in BOOLEAN /\ DetailsOK(t) /\ OpenedBy(t)
    BY <1>12, <1>13 DEF Reporting, DetailsOK, OpenedBy
  <2>2. \A c : Limited(t, result, c) = Limited(rec, result, c)
    BY <1>12 DEF Limited
  <2>3. Exact(t, result)
    BY <1>12, <1>13, <2>2, ExactSame DEF Reporting, Exact
  <2> QED
    BY <2>1, <2>3
<1>15. PICK U : U = {s \in Subjects : /\ \E o \in Problems : o \in ToSet(t.counted[s])
                                      /\ ~ReportedIn(t, result, s)}
  OBVIOUS
<1>16. ASSUME ~rec.omitted, NEW s \in U PROVE Problem(rec, s) /\ ~Accounted(rec, result, s)
  <2>1. s \in Subjects /\ ~ReportedIn(t, result, s)
    BY <1>15
  <2>2. ~Accounted(rec, result, s)
    BY <1>3, <1>5, <1>12, <1>13, <1>16, <2>1, FlushFinds DEF Reporting
  <2>3. PICK o \in Problems : o \in ToSet(rec.counted[s])
    BY <1>12, <1>15
  <2>4. rec.counted[s] = <<o>>
    <3>1. rec.counted[s] = <<>> \/ \E v \in Outcomes : rec.counted[s] = <<v>>
      BY <1>5, <2>1, CountedKinds
    <3>2. CASE rec.counted[s] = <<>>
      BY <2>3, <3>2, CountedSet
    <3>3. ASSUME NEW v \in Outcomes, rec.counted[s] = <<v>> PROVE rec.counted[s] = <<o>>
      <4>1. ToSet(rec.counted[s]) = {v}
        BY <3>3, CountedSet
      <4>2. o = v
        BY <2>3, <4>1
      <4> QED
        BY <3>3, <4>2
    <3> QED
      BY <3>1, <3>2, <3>3
  <2> QED
    BY <2>2, <2>3, <2>4 DEF Problem
<1>17. ASSUME ~t.truncated PROVE Cardinality(U) <= IF t.interrupted THEN 1 ELSE 0
  <2>1. ~rec.omitted /\ U \subseteq Subjects
    BY <1>12, <1>15, <1>17
  <2>2. CASE t.interrupted
    <3>1. PICK y \in Subjects : TellsBut(rec, result, y)
      BY <1>12, <1>13, <2>2 DEF Reporting, Tells
    <3>2. U \subseteq {y}
      BY <1>16, <2>1, <3>1 DEF TellsBut
    <3> QED
      BY <2>2, <3>2, AtMostOne
  <2>3. CASE ~t.interrupted
    <3>1. TellsAll(rec, result)
      BY <1>12, <1>13, <2>3 DEF Reporting, Tells
    <3>2. U = {}
      BY <1>16, <2>1, <3>1 DEF TellsAll
    <3> QED
      BY <2>3, <3>2, FS_EmptySet
  <2> QED
    BY <2>2, <2>3
<1>18. NothingUnreported'
  BY <1>10, <1>15, <1>17 DEF NothingUnreported, CountedAs, ReportedIn, Problems
<1>19. ~t.interrupted => cursor' = {}
  BY <1>12 DEF flushSourceDTDSummaries, Running
<1>20. Running' => LeftAfter(t, cursor')
  BY <1>10, <1>19 DEF Running, LeftAfter
<1> QED
  BY <1>10, <1>12, <1>13, <1>14, <1>18, <1>20 DEF ReportInv

\* Nothing is recorded initially.
LEMMA InitReport == Init => ReportInv
<1> SUFFICES ASSUME Init PROVE ReportInv
  OBVIOUS
<1>1. PICK z, d, k, e, no : /\ z = [s \in Subjects |-> 0] /\ d = [s \in Subjects |-> "none"]
                            /\ k = [s \in Subjects |-> <<>>] /\ e = <<>> /\ no = FALSE
  OBVIOUS
<1>2. /\ rec.details = z /\ rec.decided = d /\ rec.counted = k /\ rec.findings = e /\ rec.summaries = e
      /\ rec.omitted = no /\ rec.interrupted = no /\ stage = "binding"
  BY <1>1 DEF Init, Unrecorded
<1>3. Unopened(rec) /\ OnlyFailures(rec) /\ DetailsOK(rec) /\ rec.omitted \in BOOLEAN
  BY <1>1, <1>2 DEF Unopened, OnlyFailures, DetailsOK
<1>4. \A s \in Subjects : ~Problem(rec, s)
  BY <1>1, <1>2 DEF Problem
<1>5. FoundAll(rec) /\ Shelf(rec)
  BY <1>1, <1>2, <1>4 DEF FoundAll, Shelf
<1>6. Book(rec)
  BY InitHolds DEF SchemaInv
<1>7. Plain(rec)
  BY <1>1, <1>2, <1>3, <1>5, <1>6 DEF Plain
<1>8. Tells(rec, result) /\ Exact(rec, result) /\ OpenedBy(rec)
  BY <1>7, PlainTells
<1>9. result[IdentitySubject] # "dtd"
  BY SubjectsAre DEF Init
<1> QED
  BY <1>2, <1>3, <1>8, <1>9 DEF ReportInv

\* Stuttering.
LEMMA StutterReport ==
  ASSUME ReportInv, UNCHANGED vars
  PROVE  ReportInv'
<1>1. stage' = stage /\ cursor' = cursor /\ rec' = rec /\ result' = result
  BY DEF vars
<1>2. NothingUnreported => NothingUnreported'
  BY <1>1 DEF NothingUnreported, CountedAs
<1> QED
  BY <1>1, <1>2 DEF ReportInv, Running

\* What was counted is reported: every problem has a finding, or a summary that
\* covers exactly the limited evaluations of its rule and stands at the first
\* of them; an interruption loses at most the finding it interrupted
\* (recordXSDResult, deferSourceDTDSummary, flushSourceDTDSummaries), for every
\* document and every answer of the schema run.
THEOREM ProblemsAreReportedExactly == Spec => []ReportedExactly
<1>1. Init => KeysInv /\ ReportInv
  BY InitKeys, InitReport
<1>2. SchemaInv /\ KeysInv /\ ReportInv /\ [Next]_vars => ReportInv'
  <2> SUFFICES ASSUME SchemaInv, KeysInv, ReportInv, [Next]_vars PROVE ReportInv'
    OBVIOUS
  <2>1. CASE UNCHANGED vars
    BY <2>1, StutterReport
  <2>2. ASSUME NEW n \in Entered, NEW scalar \in ScalarAnswers[n], NEW content \in ContentAnswers[n],
               NEW error \in BOOLEAN, NEW stop \in CheckStops, NEW kinds \in [Children(n) -> Kinds],
               Enter(n, [scalar |-> scalar, content |-> content], kinds, error, stop)
        PROVE  ReportInv'
    BY <2>2, EnterReport
  <2>3. ASSUME NEW answer \in {"valid", "invalid", "limited"}, NEW error \in BOOLEAN, NEW stop \in CheckStops,
               CompleteNode(answer, error, stop)
        PROVE  ReportInv'
    BY <2>3, CompleteReport
  <2>4. ASSUME NEW identity \in {"limited", "cut"}, NEW error \in BOOLEAN, NEW stop \in Stops,
               EndBinding(identity, error, stop)
        PROVE  ReportInv'
    BY <2>4, EndReport
  <2>5. ASSUME NEW s \in cursor, NEW stop \in Stops, EvaluateClosed(s, stop) PROVE ReportInv'
    BY <2>5, ClosedReport
  <2>6. ASSUME NEW identity \in {"valid", "limited", "invalid", "cut"}, NEW error \in BOOLEAN,
               NEW stop \in Stops, finalizeSourceSchema(identity, error, stop)
        PROVE  ReportInv'
    BY <2>6, FinalizeReport
  <2>7. ASSUME NEW s \in cursor, NEW stop \in Stops, EvaluateFinal(s, stop) PROVE ReportInv'
    BY <2>7, FinalReport
  <2>8. CASE Interrupt
    BY <2>8, InterruptReport
  <2>9. CASE flushSourceDTDSummaries
    BY <2>9, FlushReport
  <2> QED
    BY <2>1, <2>2, <2>3, <2>4, <2>5, <2>6, <2>7, <2>8, <2>9 DEF Next
<1>3. ReportInv => ReportedExactly
  <2> SUFFICES ASSUME ReportInv PROVE ReportedExactly
    OBVIOUS
  <2>1. NothingUnreported
    BY DEF ReportInv, NothingUnreported
  <2>2. SummaryExact
    BY DEF ReportInv, Exact, ExactOf, Limited, Open, SummaryExact
  <2> QED
    BY <2>1, <2>2 DEF ReportedExactly
<1> QED
  BY <1>1, <1>2, <1>3, SchemaInductive, KeysInductive, PTL DEF Spec

=============================================================================
