----------------------- MODULE RuleEvaluationProofs ------------------------
(***************************************************************************)
(* Proofs about the evaluation of rules (RuleEvaluation), for every        *)
(* schedule whose prerequisites come first, every document and every set   *)
(* of answers of its selectors and predicates.                             *)
(*                                                                         *)
(* The argument. A decision taken early rests on prerequisites that are    *)
(* decided already, and a decision never changes; so what a requirement    *)
(* answers, once it is settled, stays (SettledStays, NowStays). A decision *)
(* taken in Finish rests on phases that are over. The grounds of a         *)
(* decision therefore hold until the end, where they are what one pass in  *)
(* the order of the schedule decides by (DecideAgrees).                    *)
(***************************************************************************)
EXTENDS RuleEvaluation, WellFoundedInduction, TLAPS

\* A nonempty set of numbers has a least element.
LEMMA LeastElement ==
  ASSUME NEW T, T \subseteq Nat, T # {}
  PROVE  \E x \in T : \A y \in T : x <= y
<1> DEFINE R == OpToRel(<, Nat)
<1>1. IsWellFoundedOn(R, Nat)
  BY NatLessThanWellFounded
<1>2. \A x, y \in Nat : x < y => <<x, y>> \in R
  BY DEF OpToRel
<1> HIDE DEF R
<1>3. PICK x \in T : \A y \in T : <<y, x>> \notin R
  BY <1>1, WFMin
<1>4. ASSUME NEW y \in T PROVE x <= y
  <2>1. x \in Nat /\ y \in Nat
    BY <1>3
  <2>2. ~(y < x)
    BY <1>2, <1>3, <2>1
  <2> QED
    BY <2>1, <2>2
<1> QED
  BY <1>4

\* A nonempty set of bounded numbers has a greatest element.
LEMMA GreatestElement ==
  ASSUME NEW b \in Nat, NEW T, T \subseteq 0 .. b, T # {}
  PROVE  \E x \in T : \A y \in T : x >= y
<1> DEFINE U == {b - x : x \in T}
<1>1. \A x \in T : b - x \in Nat
  <2> TAKE x \in T
  <2>1. x \in 0 .. b
    OBVIOUS
  <2> QED
    BY <2>1
<1>2. PICK u \in U : \A v \in U : u <= v
  <2>1. U \subseteq Nat /\ U # {}
    BY <1>1
  <2> HIDE DEF U
  <2> QED
    BY <2>1, LeastElement
<1>3. PICK x \in T : u = b - x
  BY <1>2
<1>4. ASSUME NEW y \in T PROVE x >= y
  <2>1. b - y \in U
    OBVIOUS
  <2>2. b - x <= b - y
    BY <1>2, <1>3, <2>1
  <2>3. x \in 0 .. b /\ y \in 0 .. b
    OBVIOUS
  <2> HIDE DEF U
  <2> QED
    BY <2>2, <2>3
<1> QED
  BY <1>4

\* The extrema that a scan takes are candidates.
LEMMA Extrema ==
  ASSUME NEW b \in Nat, NEW T, T \subseteq 0 .. b, T # {}
  PROVE  Min(T) \in T /\ Max(T) \in T /\ (\A y \in T : Max(T) >= y)
<1>1. T \subseteq Nat
  OBVIOUS
<1>2. Min(T) \in T
  <2>1. \E x \in T : \A y \in T : x <= y
    BY <1>1, LeastElement
  <2> QED
    BY <2>1 DEF Min
<1>3. Max(T) \in T /\ \A y \in T : Max(T) >= y
  <2>1. \E x \in T : \A y \in T : x >= y
    BY GreatestElement
  <2> QED
    BY <2>1 DEF Max
<1> QED
  BY <1>2, <1>3

\* The sizes of a schedule and of a document are numbers.
LEMMA Bounds ==
  MaxNodes \in Nat /\ NodeIDs \subseteq 0 .. MaxNodes /\ NodeIDs \subseteq Nat /\ Len(Rules) \in Nat
<1>1. MaxNodes \in Nat
  BY ScheduleAssumption
<1>2. NodeIDs \subseteq 0 .. MaxNodes /\ NodeIDs \subseteq Nat
  BY <1>1 DEF NodeIDs
<1>3. Len(Rules) \in Nat
  BY ScheduleAssumption
<1> QED
  BY <1>1, <1>2, <1>3

\* The same for sets of nodes.
LEMMA NodeExtrema ==
  ASSUME NEW T, T \subseteq NodeIDs, T # {}
  PROVE  Min(T) \in T /\ Max(T) \in T
<1>1. T \subseteq 0 .. MaxNodes /\ MaxNodes \in Nat
  BY Bounds
<1> QED
  BY <1>1, Extrema

-----------------------------------------------------------------------------
(* Scans.                                                                  *)

\* The outcomes of decisions that need no cause; the decisions that prerequisites
\* block; and what the cache may hold, where a rule that its own evidence blocks
\* may name no cause.
Plain == {"pass", "fail", "not-applicable", "unknown", "unsupported"}
Causes == (Nat \X Nat) \ {NoCause}
Blocks == [outcome : {"blocked"}, cause : Causes]
Invalid == [outcome : {"blocked"}, cause : Nat \X Nat]
Decisions == {Undecided} \cup {Decision(o) : o \in Plain} \cup Invalid

\* What a prerequisite answers.
Answers == {Decision("pass"), Decision("unknown"), Decision("unsupported")} \cup Blocks

\* Rule p holds at the nodes C: it is decided with success and applies somewhere.
Holds(D, p, C) ==
  /\ \A n \in C : D[<<p, n>>].outcome \in {"pass", "not-applicable"}
  /\ \E n \in C : D[<<p, n>>].outcome = "pass"

\* Rule p at one of the nodes C failed or was blocked, and c is what it blocks with.
Fails(D, p, C, c) ==
  \E n \in C : D[<<p, n>>].outcome \in {"fail", "blocked"} /\ c = blockCause(D, <<p, n>>)

\* Rule p is undecided at one of the nodes C; where it failed or was blocked.
Waits(D, p, C) == \E n \in C : D[<<p, n>>].outcome = "none"
Failing(D, p, C) == {n \in C : D[<<p, n>>].outcome \in {"fail", "blocked"}}

\* A decision blocked by c.
BlockedBy(c) == [outcome |-> "blocked", cause |-> c]

\* The fields of a blocked decision.
LEMMA BlockedFields ==
  ASSUME NEW c
  PROVE  BlockedBy(c).outcome = "blocked" /\ BlockedBy(c).cause = c /\ (c \in Causes => BlockedBy(c) \in Blocks)
BY DEF BlockedBy, Blocks

\* The outcomes of the cached decisions; only a blocked one has a cause.
LEMMA DecisionKinds ==
  ASSUME NEW d \in Decisions
  PROVE  /\ d.outcome \in {"none", "blocked"} \cup Plain
         /\ d.outcome = "blocked" => d.cause \in Nat \X Nat
         /\ d.outcome = "none" <=> d = Undecided
<1>1. CASE d = Undecided
  BY <1>1 DEF Undecided
<1>2. CASE d \in Invalid
  BY <1>2 DEF Invalid, Undecided
<1>3. CASE \E o \in Plain : d = Decision(o)
  <2>1. PICK o \in Plain : d = Decision(o)
    BY <1>3
  <2>2. d.outcome = o
    BY <2>1 DEF Decision
  <2>3. o \notin {"none", "blocked"}
    BY DEF Plain
  <2>4. d # Undecided
    BY <2>2, <2>3 DEF Undecided
  <2> QED
    BY <2>2, <2>3, <2>4
<1> QED
  BY <1>1, <1>2, <1>3 DEF Decisions

\* What selectors and predicates answer.
LEMMA EvidenceKinds ==
  ASSUME NEW e \in evidenceDecision
  PROVE  e \in Decisions /\ e.outcome \in {"not-applicable", "unknown", "unsupported", "blocked"}
<1>1. CASE e \in [outcome : {"blocked"}, cause : Nat \X Nat]
  BY <1>1 DEF Decisions, Invalid
<1>2. CASE \E o \in {"not-applicable", "unknown", "unsupported"} : e = Decision(o)
  <2>1. PICK o \in {"not-applicable", "unknown", "unsupported"} : e = Decision(o)
    BY <1>2
  <2>2. o \in Plain /\ e.outcome = o
    BY <2>1 DEF Plain, Decision
  <2> QED
    BY <2>1, <2>2 DEF Decisions
<1> QED
  BY <1>1, <1>2 DEF evidenceDecision

LEMMA AnswersOfDocument ==
  /\ Applies.outcome = "applies"
  /\ \A f \in Selections \ {Applies} : f \in Decisions /\ f.outcome \in {"not-applicable", "unknown", "unsupported", "blocked"}
  /\ \A f \in PlanAnswers : f \in Decisions /\ f.outcome \in {"pass", "fail", "not-applicable", "unknown", "unsupported", "blocked"}
<1>1. Applies.outcome = "applies"
  BY DEF Applies, Decision
<1>2. ASSUME NEW f \in Selections \ {Applies}
      PROVE  f \in Decisions /\ f.outcome \in {"not-applicable", "unknown", "unsupported", "blocked"}
  <2>1. f \in evidenceDecision
    BY ScheduleAssumption
  <2> QED
    BY <2>1, EvidenceKinds
<1>3. ASSUME NEW f \in PlanAnswers
      PROVE  f \in Decisions /\ f.outcome \in {"pass", "fail", "not-applicable", "unknown", "unsupported", "blocked"}
  <2>1. CASE f \in evidenceDecision
    BY <2>1, EvidenceKinds
  <2>2. CASE f \in {Decision("pass"), Decision("fail")}
    <3>1. PICK o \in {"pass", "fail"} : f = Decision(o)
      BY <2>2
    <3>2. o \in Plain /\ f.outcome = o
      BY <3>1 DEF Plain, Decision
    <3> QED
      BY <3>1, <3>2 DEF Decisions
  <2> QED
    BY <2>1, <2>2, ScheduleAssumption
<1> QED
  BY <1>1, <1>2, <1>3

\* A subject is a cause, and so is what a failed or blocked subject blocks with.
LEMMA SubjectsAreCauses ==
  Subjects \subseteq Causes
<1>1. Keys \subseteq Nat \ {0}
  BY Bounds DEF Keys
<1>2. NodeIDs \subseteq Nat
  BY Bounds
<1>3. ASSUME NEW s \in Subjects PROVE s \in Causes
  <2>1. PICK k \in Keys, n \in NodeIDs : s = <<k, n>>
    BY DEF Subjects
  <2>2. k \in Nat /\ k # 0 /\ n \in Nat
    BY <1>1, <1>2
  <2>3. s \in Nat \X Nat /\ s # NoCause
    BY <2>1, <2>2 DEF NoCause
  <2> QED
    BY <2>3 DEF Causes
<1> QED
  BY <1>3

LEMMA BlockCauses ==
  ASSUME NEW D, NEW t \in Subjects, D[t] \in Decisions, D[t].outcome \in {"fail", "blocked"}
  PROVE  blockCause(D, t) \in Causes
<1>1. CASE D[t].outcome = "fail" \/ D[t].cause = NoCause
  BY <1>1, SubjectsAreCauses DEF blockCause
<1>2. CASE ~(D[t].outcome = "fail" \/ D[t].cause = NoCause)
  <2>1. D[t].cause \in Nat \X Nat /\ D[t].cause # NoCause
    BY <1>2, DecisionKinds
  <2> QED
    BY <1>2, <2>1 DEF blockCause, Causes
<1> QED
  BY <1>1, <1>2

\* A final scan.
Scan(D, p, relation, C, whole) == scanPrerequisite(D, p, relation, C, TRUE, whole)

\* An early scan waits for an undecided candidate, or is the final scan.
LEMMA ScanIs ==
  ASSUME NEW D, NEW p, NEW relation, NEW C, NEW final \in BOOLEAN, NEW whole \in BOOLEAN
  PROVE  /\ ~final /\ Waits(D, p, C) => scanPrerequisite(D, p, relation, C, final, whole) = Waiting
         /\ (final \/ ~Waits(D, p, C)) =>
              scanPrerequisite(D, p, relation, C, final, whole) = Scan(D, p, relation, C, whole)
BY DEF Scan, scanPrerequisite, Waits

\* A scan that meets a failed candidate is blocked by a failure it met.
LEMMA ScanFails ==
  ASSUME NEW D \in [Subjects -> Decisions], NEW p \in Keys, NEW relation, NEW C, C \subseteq NodeIDs, NEW whole \in BOOLEAN,
         Failing(D, p, C) # {}
  PROVE  /\ Scan(D, p, relation, C, whole) \in Blocks
         /\ Fails(D, p, C, Scan(D, p, relation, C, whole).cause)
<1> DEFINE m == Min(Failing(D, p, C))
           a == Scan(D, p, relation, C, whole)
<1>1. m \in Failing(D, p, C)
  <2>1. Failing(D, p, C) \subseteq NodeIDs
    BY DEF Failing
  <2> QED
    BY <2>1, NodeExtrema
<1>2. a = BlockedBy(blockCause(D, <<p, m>>))
  BY DEF Scan, scanPrerequisite, Failing, BlockedBy
<1>3. m \in C /\ <<p, m>> \in Subjects /\ D[<<p, m>>].outcome \in {"fail", "blocked"} /\ D[<<p, m>>] \in Decisions
  BY <1>1 DEF Failing, Subjects
<1> HIDE DEF m, a
<1>4. blockCause(D, <<p, m>>) \in Causes
  BY <1>3, BlockCauses
<1>5. a \in Blocks /\ a.cause = blockCause(D, <<p, m>>)
  BY <1>2, <1>4, BlockedFields
<1>6. Fails(D, p, C, a.cause)
  BY <1>3, <1>5 DEF Fails
<1> QED
  BY <1>5, <1>6 DEF a

\* What a scan answers when nothing failed.
Gaps(D, p, C) == {n \in C : D[<<p, n>>].outcome \in {"none", "unsupported"}}
Rest(D, p, relation, C, whole) ==
  IF relation = "document" /\ ~whole THEN Decision("unknown")
  ELSE IF Gaps(D, p, C) # {}
    THEN Decision(IF D[<<p, Max(Gaps(D, p, C))>>].outcome = "none" THEN "unknown" ELSE "unsupported")
  ELSE IF \E n \in C : D[<<p, n>>].outcome = "unknown" THEN Decision("unknown")
  ELSE IF \A n \in C : D[<<p, n>>].outcome = "not-applicable" THEN Decision("unknown")
  ELSE Decision("pass")

\* A scan that meets no failed candidate.
LEMMA ScanRest ==
  ASSUME NEW D, NEW p, NEW relation, NEW C, NEW whole \in BOOLEAN, Failing(D, p, C) = {}
  PROVE  Scan(D, p, relation, C, whole) = Rest(D, p, relation, C, whole)
BY DEF Scan, scanPrerequisite, Failing, Rest, Gaps

\* A scan passes only if the prerequisite holds, over the whole document.
LEMMA ScanPasses ==
  ASSUME NEW D \in [Subjects -> Decisions], NEW p \in Keys, NEW relation, NEW C, C \subseteq NodeIDs, NEW whole \in BOOLEAN
  PROVE  /\ Rest(D, p, relation, C, whole) \in {Decision("pass"), Decision("unknown"), Decision("unsupported")}
         /\ Failing(D, p, C) = {} /\ Rest(D, p, relation, C, whole).outcome = "pass" =>
              Holds(D, p, C) /\ (relation = "document" => whole)
<1>1. Rest(D, p, relation, C, whole) \in {Decision("pass"), Decision("unknown"), Decision("unsupported")}
  BY DEF Rest
<1>2. ASSUME Failing(D, p, C) = {}, Rest(D, p, relation, C, whole).outcome = "pass"
      PROVE  Holds(D, p, C) /\ (relation = "document" => whole)
  <2>1. /\ ~(relation = "document" /\ ~whole)
        /\ Gaps(D, p, C) = {}
        /\ ~\E n \in C : D[<<p, n>>].outcome = "unknown"
        /\ ~\A n \in C : D[<<p, n>>].outcome = "not-applicable"
    BY <1>2 DEF Decision, Rest
  <2>2. \A n \in C : D[<<p, n>>].outcome \in {"none", "blocked"} \cup Plain
    <3> TAKE n \in C
    <3>1. D[<<p, n>>] \in Decisions
      BY DEF Subjects
    <3> QED
      BY <3>1, DecisionKinds
  <2>3. \A n \in C : D[<<p, n>>].outcome \in {"pass", "not-applicable"}
    BY <1>2, <2>1, <2>2 DEF Failing, Gaps, Plain
  <2> QED
    BY <2>1, <2>3 DEF Holds
<1> QED
  BY <1>1, <1>2

\* Without a failure the answer depends on the outcomes of the candidates only.
LEMMA RestReads ==
  ASSUME NEW D, NEW E, NEW p, NEW relation, NEW C, C \subseteq NodeIDs, NEW whole \in BOOLEAN, NEW whole2 \in BOOLEAN,
         \A n \in C : D[<<p, n>>].outcome = E[<<p, n>>].outcome,
         relation = "document" => whole = whole2
  PROVE  Rest(D, p, relation, C, whole) = Rest(E, p, relation, C, whole2)
<1>1. Gaps(D, p, C) = Gaps(E, p, C)
  BY DEF Gaps
<1>2. Gaps(D, p, C) # {} => Max(Gaps(D, p, C)) \in C
  <2>1. Gaps(D, p, C) \subseteq C
    BY DEF Gaps
  <2> QED
    BY <2>1, NodeExtrema
<1>3. Gaps(D, p, C) # {} => D[<<p, Max(Gaps(D, p, C))>>].outcome = E[<<p, Max(Gaps(D, p, C))>>].outcome
  BY <1>2
<1>4. (\E n \in C : D[<<p, n>>].outcome = "unknown") <=> (\E n \in C : E[<<p, n>>].outcome = "unknown")
  OBVIOUS
<1>5. (\A n \in C : D[<<p, n>>].outcome = "not-applicable") <=> (\A n \in C : E[<<p, n>>].outcome = "not-applicable")
  OBVIOUS
<1> QED
  BY <1>1, <1>3, <1>4, <1>5 DEF Rest

\* Scanning reads the decisions of its rule at its candidates only.
LEMMA ScanReads ==
  ASSUME NEW D, NEW E, NEW p, NEW relation, NEW C, C \subseteq NodeIDs, NEW whole \in BOOLEAN, NEW whole2 \in BOOLEAN,
         \A n \in C : D[<<p, n>>] = E[<<p, n>>],
         relation = "document" => whole = whole2
  PROVE  Scan(D, p, relation, C, whole) = Scan(E, p, relation, C, whole2)
<1>1. Failing(D, p, C) = Failing(E, p, C)
  BY DEF Failing
<1>3. CASE Failing(D, p, C) # {}
  <2> DEFINE m == Min(Failing(D, p, C))
  <2>1. m \in Failing(D, p, C)
    <3>1. Failing(D, p, C) \subseteq NodeIDs
      BY DEF Failing
    <3> QED
      BY <1>3, <3>1, NodeExtrema
  <2>2. Scan(D, p, relation, C, whole) = BlockedBy(blockCause(D, <<p, m>>))
    BY <1>3 DEF Scan, scanPrerequisite, Failing, BlockedBy
  <2>3. Scan(E, p, relation, C, whole2) = BlockedBy(blockCause(E, <<p, m>>))
    BY <1>1, <1>3 DEF Scan, scanPrerequisite, Failing, BlockedBy
  <2>4. D[<<p, m>>] = E[<<p, m>>]
    BY <2>1 DEF Failing
  <2> HIDE DEF m
  <2>5. blockCause(D, <<p, m>>) = blockCause(E, <<p, m>>)
    BY <2>4 DEF blockCause
  <2> QED
    BY <2>2, <2>3, <2>5
<1>4. CASE Failing(D, p, C) = {}
  <2>1. Scan(D, p, relation, C, whole) = Rest(D, p, relation, C, whole)
    BY <1>4, ScanRest
  <2>2. Scan(E, p, relation, C, whole2) = Rest(E, p, relation, C, whole2)
    BY <1>1, <1>4, ScanRest
  <2>3. \A n \in C : D[<<p, n>>].outcome = E[<<p, n>>].outcome
    OBVIOUS
  <2>4. Rest(D, p, relation, C, whole) = Rest(E, p, relation, C, whole2)
    BY <2>3, RestReads
  <2> QED
    BY <2>1, <2>2, <2>4
<1> QED
  BY <1>3, <1>4

\* The outcome of a scan depends on outcomes only.
LEMMA ScanOutcome ==
  ASSUME NEW D \in [Subjects -> Decisions], NEW E \in [Subjects -> Decisions], NEW p \in Keys, NEW relation,
         NEW C, C \subseteq NodeIDs, NEW whole \in BOOLEAN,
         \A n \in C : D[<<p, n>>].outcome = E[<<p, n>>].outcome
  PROVE  Scan(D, p, relation, C, whole).outcome = Scan(E, p, relation, C, whole).outcome
<1>1. Failing(D, p, C) = Failing(E, p, C)
  BY DEF Failing
<1>3. CASE Failing(D, p, C) # {}
  <2>1. Scan(D, p, relation, C, whole) \in Blocks
    BY <1>3, ScanFails
  <2>2. Scan(E, p, relation, C, whole) \in Blocks
    BY <1>1, <1>3, ScanFails
  <2> QED
    BY <2>1, <2>2 DEF Blocks
<1>4. CASE Failing(D, p, C) = {}
  <2>1. Scan(D, p, relation, C, whole) = Rest(D, p, relation, C, whole)
    BY <1>4, ScanRest
  <2>2. Scan(E, p, relation, C, whole) = Rest(E, p, relation, C, whole)
    BY <1>1, <1>4, ScanRest
  <2>3. Rest(D, p, relation, C, whole) = Rest(E, p, relation, C, whole)
    BY RestReads
  <2> QED
    BY <2>1, <2>2, <2>3
<1> QED
  BY <1>3, <1>4

\* What a final scan answers.
LEMMA ScanAnswers ==
  ASSUME NEW D \in [Subjects -> Decisions], NEW p \in Keys, NEW relation, NEW C, C \subseteq NodeIDs, NEW whole \in BOOLEAN
  PROVE  LET a == Scan(D, p, relation, C, whole) IN
         /\ a \in Answers
         /\ a.outcome = "pass" => Holds(D, p, C) /\ (relation = "document" => whole)
         /\ a.outcome = "blocked" <=> Failing(D, p, C) # {}
         /\ a.outcome = "blocked" => Fails(D, p, C, a.cause)
<1> DEFINE a == Scan(D, p, relation, C, whole)
<1>1. CASE Failing(D, p, C) # {}
  <2>1. a \in Blocks /\ Fails(D, p, C, a.cause)
    BY <1>1, ScanFails
  <2> HIDE DEF a
  <2>2. a.outcome = "blocked" /\ a \in Answers
    BY <2>1 DEF Blocks, Answers
  <2> QED
    BY <1>1, <2>1, <2>2 DEF a
<1>2. CASE Failing(D, p, C) = {}
  <2>1. a = Rest(D, p, relation, C, whole)
    BY <1>2, ScanRest
  <2>2. a \in {Decision("pass"), Decision("unknown"), Decision("unsupported")}
    BY <2>1, ScanPasses
  <2>3. a.outcome = "pass" => Holds(D, p, C) /\ (relation = "document" => whole)
    BY <1>2, <2>1, ScanPasses
  <2> HIDE DEF a
  <2>4. a \in Answers /\ a.outcome # "blocked"
    BY <2>2 DEF Answers, Decision
  <2> QED
    BY <1>2, <2>3, <2>4 DEF a
<1> QED
  BY <1>1, <1>2

-----------------------------------------------------------------------------
(* Combining the answers of prerequisites.                                 *)

\* The answers by outcome; an answer neither waits nor breaks the contract.
LEMMA AnswerKinds ==
  ASSUME NEW a \in Answers
  PROVE  /\ a.outcome \in {"pass", "unknown", "unsupported", "blocked"}
         /\ a.outcome = "blocked" => a \in Blocks
         /\ a.outcome # "blocked" => a = Decision(a.outcome)
         /\ a # Waiting /\ a # Contract
<1>1. CASE a \in Blocks
  BY <1>1 DEF Blocks, Waiting, Contract
<1>2. CASE a \in {Decision("pass"), Decision("unknown"), Decision("unsupported")}
  BY <1>2 DEF Decision, Waiting, Contract
<1> QED
  BY <1>1, <1>2 DEF Answers

\* Among causes one is least in their order.
LEMMA LeastCause ==
  ASSUME NEW T, T \subseteq Causes, T # {}
  PROVE  \E c \in T : \A e \in T : ~causeLess(e, c)
<1>1. T \subseteq Nat \X Nat /\ NoCause \notin T
  BY DEF Causes
<1> DEFINE F == {c[1] : c \in T}
<1>2. PICK k \in F : \A x \in F : k <= x
  <2>1. F \subseteq Nat /\ F # {}
    BY <1>1
  <2> HIDE DEF F
  <2> QED
    BY <2>1, LeastElement
<1> DEFINE G == {c[2] : c \in {e \in T : e[1] = k}}
<1>3. PICK m \in G : \A x \in G : m <= x
  <2>1. G \subseteq Nat /\ G # {}
    BY <1>1, <1>2
  <2> HIDE DEF G
  <2> QED
    BY <2>1, LeastElement
<1>4. PICK c \in T : c[1] = k /\ c[2] = m
  BY <1>3
<1>5. ASSUME NEW e \in T PROVE ~causeLess(e, c)
  <2>1. e \in Nat \X Nat /\ c \in Nat \X Nat /\ c # NoCause /\ e # NoCause
    BY <1>1
  <2>2. k <= e[1]
    BY <1>2
  <2>3. e[1] = k => m <= e[2]
    BY <1>3
  <2> HIDE DEF F, G
  <2>4. e[1] \in Nat /\ e[2] \in Nat /\ k \in Nat /\ m \in Nat
    BY <1>4, <2>1
  <2>5. ~(e[1] < k) /\ ~(e[1] = k /\ e[2] < m)
    BY <2>2, <2>3, <2>4
  <2> QED
    BY <1>4, <2>1, <2>5 DEF causeLess
<1> QED
  BY <1>5

\* How dependencies combines the answers of the prerequisites.
RankOf(all) == Max({rank(d.outcome) : d \in all} \cup {0})
Ties(all) == {d \in all : rank(d.outcome) = RankOf(all)}
Combine(all) ==
  IF Contract \in all THEN Contract
  ELSE IF RankOf(all) # 3 /\ Waiting \in all THEN Waiting
  ELSE IF RankOf(all) = 0 THEN Decision("pass")
  ELSE CHOOSE d \in Ties(all) : \A e \in Ties(all) : ~causeLess(e.cause, d.cause)

\* Some answer has outcome o.
Has(all, o) == \E a \in all : a.outcome = o

\* The ranks of the outcomes.
LEMMA Ranks ==
  /\ rank("blocked") = 3 /\ rank("unsupported") = 2 /\ rank("unknown") = 1
  /\ rank("pass") = 0 /\ rank("waiting") = 0 /\ rank("contract") = 0
BY DEF rank

\* The worst rank is that of the worst outcome among the answers.
LEMMA RankIs ==
  ASSUME NEW all, all \subseteq Answers \cup {Waiting, Contract}
  PROVE  RankOf(all) = IF Has(all, "blocked") THEN 3 ELSE IF Has(all, "unsupported") THEN 2
                       ELSE IF Has(all, "unknown") THEN 1 ELSE 0
<1> DEFINE R == {rank(d.outcome) : d \in all} \cup {0}
<1>1. \A d \in all : d.outcome \in {"pass", "unknown", "unsupported", "blocked", "waiting", "contract"}
  BY AnswerKinds DEF Waiting, Contract
<1>2. \A d \in all : rank(d.outcome) \in 0 .. 3
  BY <1>1, Ranks
<1>3. Max(R) \in R /\ \A y \in R : Max(R) >= y
  <2>1. R \subseteq 0 .. 3 /\ R # {} /\ 3 \in Nat
    BY <1>2
  <2> HIDE DEF R
  <2> QED
    BY <2>1, Extrema
<1>4. R \subseteq {0, 1, 2, 3}
  BY <1>1, Ranks
<1>5. 3 \in R <=> Has(all, "blocked")
  BY <1>1, Ranks DEF Has
<1>6. 2 \in R <=> Has(all, "unsupported")
  BY <1>1, Ranks DEF Has
<1>7. 1 \in R <=> Has(all, "unknown")
  BY <1>1, Ranks DEF Has
<1>8. 0 \in R /\ RankOf(all) = Max(R)
  BY DEF RankOf
<1> HIDE DEF R
<1>9. PICK m : m = Max(R) /\ m \in R /\ m \in {0, 1, 2, 3} /\ \A y \in R : m >= y
  BY <1>3, <1>4
<1>10. m = IF 3 \in R THEN 3 ELSE IF 2 \in R THEN 2 ELSE IF 1 \in R THEN 1 ELSE 0
  BY <1>9
<1> QED
  BY <1>5, <1>6, <1>7, <1>8, <1>9, <1>10

\* What dependencies returns: a contract error, a block, or, once nothing
\* waits, the worst outcome.
LEMMA Combination ==
  ASSUME NEW all, all \subseteq Answers \cup {Waiting, Contract}
  PROVE  /\ Contract \in all => Combine(all) = Contract
         /\ Contract \notin all /\ Has(all, "blocked") => Combine(all) \in all /\ Combine(all).outcome = "blocked"
         /\ Contract \notin all /\ ~Has(all, "blocked") /\ Waiting \in all => Combine(all) = Waiting
         /\ Contract \notin all /\ ~Has(all, "blocked") /\ Waiting \notin all =>
              Combine(all) = Decision(IF Has(all, "unsupported") THEN "unsupported"
                                      ELSE IF Has(all, "unknown") THEN "unknown" ELSE "pass")
<1>1. \A d \in all : d.outcome \in {"pass", "unknown", "unsupported", "blocked", "waiting", "contract"}
  BY AnswerKinds DEF Waiting, Contract
<1>2. CASE Contract \in all
  BY <1>2 DEF Combine
<1>3. CASE Contract \notin all /\ Has(all, "blocked")
  <2>1. RankOf(all) = 3
    BY <1>3, RankIs
  <2>2. \A d \in Ties(all) : d \in all /\ d.outcome = "blocked"
    BY <1>1, <2>1, Ranks DEF Ties
  <2> DEFINE T == {d.cause : d \in Ties(all)}
  <2>3. T # {}
    BY <1>3, <2>1, Ranks DEF Ties, Has
  <2>4. T \subseteq Causes
    <3>1. \A d \in Ties(all) : d \in Answers
      BY <2>2 DEF Waiting, Contract
    <3>2. \A d \in Ties(all) : d \in Blocks
      BY <2>2, <3>1, AnswerKinds
    <3> QED
      BY <3>2 DEF Blocks
  <2>5. PICK c \in T : \A e \in T : ~causeLess(e, c)
    <3> HIDE DEF T
    <3> QED
      BY <2>3, <2>4, LeastCause
  <2>6. \E d \in Ties(all) : \A e \in Ties(all) : ~causeLess(e.cause, d.cause)
    BY <2>5
  <2>7. Combine(all) = CHOOSE d \in Ties(all) : \A e \in Ties(all) : ~causeLess(e.cause, d.cause)
    BY <1>3, <2>1 DEF Combine
  <2> HIDE DEF T
  <2>8. Combine(all) \in Ties(all)
    BY <2>6, <2>7
  <2> QED
    BY <1>3, <2>2, <2>8
<1>4. CASE Contract \notin all /\ ~Has(all, "blocked") /\ Waiting \in all
  <2>1. RankOf(all) # 3
    BY <1>4, RankIs
  <2> QED
    BY <1>4, <2>1 DEF Combine
<1>5. CASE Contract \notin all /\ ~Has(all, "blocked") /\ Waiting \notin all
  <2>1. \A d \in all : d \in Answers /\ d.outcome # "blocked" /\ d = Decision(d.outcome)
    BY <1>5, AnswerKinds DEF Has
  <2>2. CASE RankOf(all) = 0
    <3>1. ~Has(all, "unsupported") /\ ~Has(all, "unknown")
      BY <1>5, <2>2, RankIs
    <3>2. Combine(all) = Decision("pass")
      BY <1>5, <2>2 DEF Combine
    <3> QED
      BY <1>5, <3>1, <3>2
  <2>3. ASSUME NEW o \in {"unsupported", "unknown"}, RankOf(all) = rank(o), Has(all, o)
        PROVE  Combine(all) = Decision(o)
    <3>1. RankOf(all) # 0 /\ RankOf(all) # 3
      BY <2>3, Ranks
    <3>2. \A d \in Ties(all) : d = Decision(o)
      <4> TAKE d \in Ties(all)
      <4>1. d \in all /\ rank(d.outcome) = rank(o)
        BY <2>3 DEF Ties
      <4>2. d.outcome \in {"pass", "unknown", "unsupported"}
        BY <2>1, <4>1, AnswerKinds
      <4>3. d.outcome = o
        BY <4>1, <4>2, Ranks
      <4> QED
        BY <2>1, <4>1, <4>3
    <3>3. Decision(o) \in Ties(all)
      <4>1. PICK d \in all : d.outcome = o
        BY <2>3 DEF Has
      <4>2. d \in Ties(all)
        BY <2>3, <4>1 DEF Ties
      <4> QED
        BY <3>2, <4>2
    <3>4. Ties(all) = {Decision(o)}
      BY <3>2, <3>3
    <3>5. ~causeLess(Decision(o).cause, Decision(o).cause)
      BY DEF Decision, causeLess
    <3>6. Combine(all) = CHOOSE d \in Ties(all) : \A e \in Ties(all) : ~causeLess(e.cause, d.cause)
      BY <1>5, <3>1 DEF Combine
    <3>7. Combine(all) \in Ties(all)
      BY <3>4, <3>5, <3>6
    <3> QED
      BY <3>2, <3>7
  <2>4. CASE Has(all, "unsupported")
    <3>1. RankOf(all) = rank("unsupported")
      BY <1>5, <2>4, RankIs, Ranks
    <3>2. Combine(all) = Decision("unsupported")
      BY <2>3, <2>4, <3>1
    <3> QED
      BY <1>5, <2>4, <3>2
  <2>5. CASE ~Has(all, "unsupported") /\ Has(all, "unknown")
    <3>1. RankOf(all) = rank("unknown")
      BY <1>5, <2>5, RankIs, Ranks
    <3>2. Combine(all) = Decision("unknown")
      BY <2>3, <2>5, <3>1
    <3> QED
      BY <1>5, <2>5, <3>2
  <2>6. CASE ~Has(all, "unsupported") /\ ~Has(all, "unknown")
    <3>1. RankOf(all) = 0
      BY <1>5, <2>6, RankIs
    <3> QED
      BY <2>2, <3>1
  <2> QED
    BY <2>4, <2>5, <2>6
<1> QED
  BY <1>2, <1>3, <1>4, <1>5

-----------------------------------------------------------------------------
(* Requirements.                                                           *)

\* The nodes at which requirement d at node n reads its rule, in the tree P.
Read(P, d, n) ==
  CASE d.relation = "same-node" -> {n}
    [] d.relation = "parent" -> {P[n]} \ {0}
    [] OTHER -> {m \in DOMAIN P : Evaluated(d.rule, m)}

\* What requirement d at node n answers in the end.
Answer(P, D, d, n, whole) == Scan(D, d.rule, d.relation, Read(P, d, n), whole)

\* What the requirements of rule r at node n answer in the end.
Given(P, D, r, n, whole) == Combine({Answer(P, D, d, n, whole) : d \in Rules[r].requires})

\* The aggregates in memo are what a scan finds.
Fresh(memo, D, whole) == \A p \in Keys : memo[p].ready => memo[p].decision = ScanDocument(D, p, whole)

\* The tree of a document.
Tree(P) == P \in Seq(0 .. MaxNodes) /\ Len(P) <= MaxNodes

\* The answer of a requirement in Finish and before it.
FinalDependency(D, memo, n, d, whole) == dependency(D, memo, n, d, TRUE, whole)
EarlyDependency(D, memo, n, d, whole) == dependency(D, memo, n, d, FALSE, whole)
FinalDependencies(D, memo, r, n, whole) == dependencies(D, memo, r, n, TRUE, whole)
EarlyDependencies(D, memo, r, n, whole) == dependencies(D, memo, r, n, FALSE, whole)

\* A requirement is about an earlier rule of the schedule.
LEMMA Requirements ==
  ASSUME NEW r \in Keys, NEW d \in Rules[r].requires
  PROVE  d.rule \in Keys /\ d.rule < r /\ d.relation \in Relations
<1>1. r \in 1 .. Len(Rules) /\ Len(Rules) \in Nat
  BY Bounds DEF Keys
<1>2. Rules[r].requires \subseteq [rule : Nat, relation : Relations]
  <2> DEFINE S == [scope : {"node", "document"}, normative : BOOLEAN, available : BOOLEAN,
                   final : BOOLEAN, requires : SUBSET [rule : Nat, relation : Relations]]
  <2>1. Rules \in Seq(S)
    BY ScheduleAssumption
  <2>2. \A x \in S : x.requires \subseteq [rule : Nat, relation : Relations]
    OBVIOUS
  <2> HIDE DEF S
  <2>3. Rules[r] \in S
    BY <1>1, <2>1
  <2> QED
    BY <2>2, <2>3
<1>3. d.rule \in 1 .. r - 1
  BY ScheduleAssumption
<1>4. d.rule \in Keys /\ d.rule < r
  BY <1>1, <1>3 DEF Keys
<1> QED
  BY <1>2, <1>4

\* A requirement reads its rule at nodes of the document.
LEMMA Reads ==
  ASSUME NEW P, Tree(P), NEW n \in DOMAIN P, NEW d, d.relation \in Relations
  PROVE  Read(P, d, n) \subseteq NodeIDs
<1>0. DOMAIN P = 1 .. Len(P) /\ Len(P) \in Nat /\ Len(P) <= MaxNodes /\ P \in Seq(0 .. MaxNodes)
  BY DEF Tree
<1>1. DOMAIN P \subseteq NodeIDs /\ MaxNodes \in Nat
  <2>1. MaxNodes \in Nat
    BY Bounds
  <2> QED
    BY <1>0, <2>1 DEF NodeIDs
<1>2. P[n] \in 0 .. MaxNodes
  <2> DEFINE S == 0 .. MaxNodes
  <2>1. P \in Seq(S) /\ n \in 1 .. Len(P)
    BY <1>0
  <2> HIDE DEF S
  <2>2. P[n] \in S
    BY <2>1
  <2> QED
    BY <2>2 DEF S
<1>3. P[n] # 0 => P[n] \in NodeIDs
  BY <1>1, <1>2 DEF NodeIDs
<1>4. CASE d.relation = "same-node"
  BY <1>1, <1>4 DEF Read
<1>5. CASE d.relation = "parent"
  BY <1>3, <1>5 DEF Read
<1>6. CASE d.relation = "document"
  BY <1>1, <1>6 DEF Read
<1> QED
  BY <1>4, <1>5, <1>6 DEF Relations

\* In Finish a requirement is a contract error before its rule's phase ended, and
\* the final scan afterwards, whether or not the aggregate was computed before.
LEMMA DependencyFinal ==
  ASSUME NEW D, NEW memo, NEW n, NEW d, d.relation \in Relations, d.rule \in Keys, NEW whole \in BOOLEAN,
         Fresh(memo, D, whole), memo[d.rule].finalized \in BOOLEAN, memo[d.rule].ready \in BOOLEAN
  PROVE  /\ d.relation = "document" /\ ~memo[d.rule].finalized => FinalDependency(D, memo, n, d, whole) = Contract
         /\ d.relation = "document" /\ memo[d.rule].finalized =>
              FinalDependency(D, memo, n, d, whole) = Answer(parent, D, d, n, whole)
         /\ d.relation # "document" => FinalDependency(D, memo, n, d, whole) = Answer(parent, D, d, n, whole)
<1>1. CASE d.relation = "document"
  <2>1. Answer(parent, D, d, n, whole) = ScanDocument(D, d.rule, whole)
    BY <1>1 DEF Answer, Scan, Read, ScanDocument, Nodes
  <2>2. memo[d.rule].ready => memo[d.rule].decision = ScanDocument(D, d.rule, whole)
    BY DEF Fresh
  <2> QED
    BY <1>1, <2>1, <2>2 DEF FinalDependency, EarlyDependency, dependency
<1>2. CASE d.relation = "same-node"
  BY <1>2 DEF FinalDependency, EarlyDependency, dependency, Answer, Scan, Read
<1>3. CASE d.relation = "parent"
  <2>1. CASE parent[n] = 0
    <3>1. Read(parent, d, n) = {}
      BY <1>3, <2>1 DEF Read
    <3>2. Answer(parent, D, d, n, whole) = Decision("unknown")
      BY <1>3, <3>1 DEF Answer, Scan, scanPrerequisite
    <3> QED
      BY <1>3, <2>1, <3>2 DEF FinalDependency, EarlyDependency, dependency
  <2>2. CASE parent[n] # 0
    <3>1. Read(parent, d, n) = {parent[n]}
      BY <1>3, <2>2 DEF Read
    <3> QED
      BY <1>3, <2>2, <3>1 DEF FinalDependency, EarlyDependency, dependency, Answer, Scan
  <2> QED
    BY <2>1, <2>2
<1> QED
  BY <1>1, <1>2, <1>3 DEF Relations

\* At the close of a node a requirement waits or is the final scan.
LEMMA DependencyEarly ==
  ASSUME NEW D, NEW memo, NEW n, NEW d, d.relation \in Relations, NEW whole \in BOOLEAN
  PROVE  /\ d.relation = "document" \/ Waits(D, d.rule, Read(parent, d, n)) =>
              EarlyDependency(D, memo, n, d, whole) = Waiting
         /\ d.relation # "document" /\ ~Waits(D, d.rule, Read(parent, d, n)) =>
              EarlyDependency(D, memo, n, d, whole) = Answer(parent, D, d, n, whole)
<1>1. CASE d.relation = "document"
  BY <1>1 DEF FinalDependency, EarlyDependency, dependency
<1>2. CASE d.relation = "same-node"
  <2>1. EarlyDependency(D, memo, n, d, whole) = scanPrerequisite(D, d.rule, d.relation, {n}, FALSE, whole)
    BY <1>2 DEF FinalDependency, EarlyDependency, dependency
  <2>2. Read(parent, d, n) = {n}
    BY <1>2 DEF Read
  <2>3. /\ Waits(D, d.rule, {n}) => scanPrerequisite(D, d.rule, d.relation, {n}, FALSE, whole) = Waiting
        /\ ~Waits(D, d.rule, {n}) =>
             scanPrerequisite(D, d.rule, d.relation, {n}, FALSE, whole) = Scan(D, d.rule, d.relation, {n}, whole)
    BY ScanIs
  <2> QED
    BY <1>2, <2>1, <2>2, <2>3 DEF Answer
<1>3. CASE d.relation = "parent"
  <2>1. CASE parent[n] = 0
    <3>1. Read(parent, d, n) = {}
      BY <1>3, <2>1 DEF Read
    <3>2. Answer(parent, D, d, n, whole) = Decision("unknown")
      BY <1>3, <3>1 DEF Answer, Scan, scanPrerequisite
    <3>3. ~Waits(D, d.rule, Read(parent, d, n))
      BY <3>1 DEF Waits
    <3> QED
      BY <1>3, <2>1, <3>2, <3>3 DEF FinalDependency, EarlyDependency, dependency
  <2>2. CASE parent[n] # 0
    <3>1. Read(parent, d, n) = {parent[n]}
      BY <1>3, <2>2 DEF Read
    <3>2. EarlyDependency(D, memo, n, d, whole) = scanPrerequisite(D, d.rule, d.relation, {parent[n]}, FALSE, whole)
      BY <1>3, <2>2 DEF FinalDependency, EarlyDependency, dependency
    <3>3. /\ Waits(D, d.rule, {parent[n]}) => scanPrerequisite(D, d.rule, d.relation, {parent[n]}, FALSE, whole) = Waiting
          /\ ~Waits(D, d.rule, {parent[n]}) =>
               scanPrerequisite(D, d.rule, d.relation, {parent[n]}, FALSE, whole) =
                 Scan(D, d.rule, d.relation, {parent[n]}, whole)
      BY ScanIs
    <3> QED
      BY <1>3, <3>1, <3>2, <3>3 DEF Answer
  <2> QED
    BY <2>1, <2>2
<1> QED
  BY <1>1, <1>2, <1>3 DEF Relations

\* A requirement passes only if its rule holds where it reads it, and is blocked
\* exactly by a failure there.
LEMMA AnswerIs ==
  ASSUME NEW P, Tree(P), NEW n \in DOMAIN P, NEW r \in Keys, NEW d \in Rules[r].requires,
         NEW D \in [Subjects -> Decisions], NEW whole \in BOOLEAN
  PROVE  /\ Answer(P, D, d, n, whole) \in Answers
         /\ Answer(P, D, d, n, whole).outcome = "pass" => Holds(D, d.rule, Read(P, d, n)) /\ (d.relation = "document" => whole)
         /\ Answer(P, D, d, n, whole).outcome = "blocked" <=> Failing(D, d.rule, Read(P, d, n)) # {}
         /\ Answer(P, D, d, n, whole).outcome = "blocked" =>
              Fails(D, d.rule, Read(P, d, n), Answer(P, D, d, n, whole).cause)
<1>1. d.rule \in Keys /\ d.relation \in Relations
  BY Requirements
<1>2. Read(P, d, n) \subseteq NodeIDs
  BY <1>1, Reads
<1> QED
  BY <1>1, <1>2, ScanAnswers DEF Answer

\* The requirements of a rule pass if all do, and block if one does.
LEMMA GivenIs ==
  ASSUME NEW P, Tree(P), NEW n \in DOMAIN P, NEW r \in Keys,
         NEW D \in [Subjects -> Decisions], NEW whole \in BOOLEAN
  PROVE  /\ Given(P, D, r, n, whole) \in Answers
         /\ Given(P, D, r, n, whole).outcome = "pass" <=>
              \A d \in Rules[r].requires : Answer(P, D, d, n, whole).outcome = "pass"
         /\ Given(P, D, r, n, whole).outcome = "blocked" <=>
              \E d \in Rules[r].requires : Answer(P, D, d, n, whole).outcome = "blocked"
         /\ Given(P, D, r, n, whole).outcome = "blocked" =>
              \E d \in Rules[r].requires : Answer(P, D, d, n, whole) = Given(P, D, r, n, whole)
         /\ Given(P, D, r, n, whole).outcome = "unsupported" <=>
              /\ \A d \in Rules[r].requires : Answer(P, D, d, n, whole).outcome # "blocked"
              /\ \E d \in Rules[r].requires : Answer(P, D, d, n, whole).outcome = "unsupported"
<1> DEFINE all == {Answer(P, D, d, n, whole) : d \in Rules[r].requires}
           g == Given(P, D, r, n, whole)
<1>1. all \subseteq Answers
  BY AnswerIs
<1>2. g = Combine(all)
  BY DEF Given
<1>3. ASSUME NEW o PROVE Has(all, o) <=> \E d \in Rules[r].requires : Answer(P, D, d, n, whole).outcome = o
  BY DEF Has
<1>4. \A a \in all : \E d \in Rules[r].requires : Answer(P, D, d, n, whole) = a
  OBVIOUS
<1>5. \A d \in Rules[r].requires : Answer(P, D, d, n, whole) \in all
  OBVIOUS
<1> HIDE DEF all, g
<1>6. Contract \notin all /\ Waiting \notin all /\ all \subseteq Answers \cup {Waiting, Contract}
  BY <1>1, AnswerKinds
<1>7. \A d \in Rules[r].requires : Answer(P, D, d, n, whole).outcome \in {"pass", "unknown", "unsupported", "blocked"}
  BY <1>1, <1>5, AnswerKinds
<1>8. CASE Has(all, "blocked")
  <2>1. g \in all /\ g.outcome = "blocked"
    BY <1>2, <1>6, <1>8, Combination
  <2> QED
    BY <1>1, <1>3, <1>4, <1>8, <2>1 DEF g
<1>9. CASE ~Has(all, "blocked")
  <2>1. g = Decision(IF Has(all, "unsupported") THEN "unsupported"
                     ELSE IF Has(all, "unknown") THEN "unknown" ELSE "pass")
    BY <1>2, <1>6, <1>9, Combination
  <2>2. CASE Has(all, "unsupported")
    <3>1. g \in Answers /\ g.outcome = "unsupported"
      BY <2>1, <2>2 DEF Answers, Decision
    <3> QED
      BY <1>3, <1>9, <2>2, <3>1 DEF g
  <2>3. CASE ~Has(all, "unsupported") /\ Has(all, "unknown")
    <3>1. g \in Answers /\ g.outcome = "unknown"
      BY <2>1, <2>3 DEF Answers, Decision
    <3> QED
      BY <1>3, <1>9, <2>3, <3>1 DEF g
  <2>4. CASE ~Has(all, "unsupported") /\ ~Has(all, "unknown")
    <3>1. g \in Answers /\ g.outcome = "pass"
      BY <2>1, <2>4 DEF Answers, Decision
    <3> QED
      BY <1>3, <1>7, <1>9, <2>4, <3>1 DEF g
  <2> QED
    BY <2>2, <2>3, <2>4
<1> QED
  BY <1>8, <1>9

\* The answer depends on the decisions at the nodes that are read only.
LEMMA GivenReads ==
  ASSUME NEW P, Tree(P), NEW n \in DOMAIN P, NEW Q, NEW r \in Keys, NEW D, NEW E,
         NEW whole \in BOOLEAN, NEW whole2 \in BOOLEAN,
         \A d \in Rules[r].requires :
           /\ Read(Q, d, n) = Read(P, d, n)
           /\ \A m \in Read(P, d, n) : D[<<d.rule, m>>] = E[<<d.rule, m>>]
           /\ d.relation = "document" => whole = whole2
  PROVE  Given(P, D, r, n, whole) = Given(Q, E, r, n, whole2)
<1>1. ASSUME NEW d \in Rules[r].requires PROVE Answer(P, D, d, n, whole) = Answer(Q, E, d, n, whole2)
  <2>1. d.rule \in Keys /\ d.relation \in Relations
    BY Requirements
  <2>2. Read(P, d, n) \subseteq NodeIDs
    BY <2>1, Reads
  <2>3. Read(Q, d, n) = Read(P, d, n)
    OBVIOUS
  <2>4. \A m \in Read(P, d, n) : D[<<d.rule, m>>] = E[<<d.rule, m>>]
    OBVIOUS
  <2>5. d.relation = "document" => whole = whole2
    OBVIOUS
  <2>6. Scan(D, d.rule, d.relation, Read(P, d, n), whole) =
          Scan(E, d.rule, d.relation, Read(P, d, n), whole2)
    BY ONLY <2>2, <2>4, <2>5, whole \in BOOLEAN, whole2 \in BOOLEAN, ScanReads
  <2> QED
    BY <2>3, <2>6 DEF Answer
<1>2. {Answer(P, D, d, n, whole) : d \in Rules[r].requires} = {Answer(Q, E, d, n, whole2) : d \in Rules[r].requires}
  BY <1>1
<1> QED
  BY <1>2 DEF Given

\* The outcome depends on the outcomes of earlier rules only, not on causes.
LEMMA GivenOutcome ==
  ASSUME NEW P, Tree(P), NEW n \in DOMAIN P, NEW r \in Keys,
         NEW D \in [Subjects -> Decisions], NEW E \in [Subjects -> Decisions], NEW whole \in BOOLEAN,
         \A s \in Subjects : s[1] < r => D[s].outcome = E[s].outcome
  PROVE  Given(P, D, r, n, whole).outcome = Given(P, E, r, n, whole).outcome
<1>1. ASSUME NEW d \in Rules[r].requires
      PROVE  Answer(P, D, d, n, whole).outcome = Answer(P, E, d, n, whole).outcome
  <2>1. d.rule \in Keys /\ d.relation \in Relations /\ d.rule < r
    BY Requirements
  <2>2. Read(P, d, n) \subseteq NodeIDs
    BY <2>1, Reads
  <2>3. \A m \in Read(P, d, n) : D[<<d.rule, m>>].outcome = E[<<d.rule, m>>].outcome
    BY <2>1, <2>2 DEF Subjects
  <2>4. Scan(D, d.rule, d.relation, Read(P, d, n), whole).outcome =
          Scan(E, d.rule, d.relation, Read(P, d, n), whole).outcome
    BY <2>1, <2>2, <2>3, ScanOutcome
  <2> QED
    BY <2>4 DEF Answer
<1> DEFINE g == Given(P, D, r, n, whole)
           h == Given(P, E, r, n, whole)
<1>2. g.outcome = "pass" <=> h.outcome = "pass"
  BY <1>1, GivenIs
<1>3. g.outcome = "blocked" <=> h.outcome = "blocked"
  BY <1>1, GivenIs
<1>4. g.outcome = "unsupported" <=> h.outcome = "unsupported"
  BY <1>1, GivenIs
<1>5. g \in Answers /\ h \in Answers
  BY GivenIs
<1> HIDE DEF g, h
<1>6. g.outcome \in {"pass", "unknown", "unsupported", "blocked"} /\ h.outcome \in {"pass", "unknown", "unsupported", "blocked"}
  BY <1>5, AnswerKinds
<1>7. g.outcome = h.outcome
  BY <1>2, <1>3, <1>4, <1>6
<1> QED
  BY <1>7 DEF g, h

\* The flags of the aggregates.
MemoTypes(memo) == \A p \in Keys : memo[p].finalized \in BOOLEAN /\ memo[p].ready \in BOOLEAN

\* The document requirements of rule r can be read.
Open(memo, r) == \A d \in Rules[r].requires : d.relation = "document" => memo[d.rule].finalized

\* dependencies in Finish.
LEMMA DependenciesFinal ==
  ASSUME Tree(parent), NEW n \in DOMAIN parent, NEW r \in Keys, NEW D \in [Subjects -> Decisions],
         NEW memo, MemoTypes(memo), NEW whole \in BOOLEAN, Fresh(memo, D, whole)
  PROVE  FinalDependencies(D, memo, r, n, whole) = IF Open(memo, r) THEN Given(parent, D, r, n, whole) ELSE Contract
<1> DEFINE all == {FinalDependency(D, memo, n, d, whole) : d \in Rules[r].requires}
<1>1. FinalDependencies(D, memo, r, n, whole) = Combine(all)
  BY DEF FinalDependencies, FinalDependency, dependencies, Combine, RankOf, Ties
<1>2. ASSUME NEW d \in Rules[r].requires
      PROVE  /\ d.relation = "document" /\ ~memo[d.rule].finalized => FinalDependency(D, memo, n, d, whole) = Contract
             /\ ~(d.relation = "document" /\ ~memo[d.rule].finalized) =>
                  FinalDependency(D, memo, n, d, whole) = Answer(parent, D, d, n, whole)
  <2>1. d.rule \in Keys /\ d.relation \in Relations
    BY Requirements
  <2>2. memo[d.rule].finalized \in BOOLEAN /\ memo[d.rule].ready \in BOOLEAN
    BY <2>1 DEF MemoTypes
  <2> QED
    BY <2>1, <2>2, DependencyFinal
<1>3. CASE Open(memo, r)
  <2>1. all = {Answer(parent, D, d, n, whole) : d \in Rules[r].requires}
    BY <1>2, <1>3 DEF Open
  <2> HIDE DEF all
  <2> QED
    BY <1>1, <1>3, <2>1 DEF Given
<1>4. CASE ~Open(memo, r)
  <2>1. Contract \in all
    BY <1>2, <1>4 DEF Open
  <2> HIDE DEF all
  <2>2. Combine(all) = Contract
    BY <2>1 DEF Combine
  <2> QED
    BY <1>1, <1>4, <2>2
<1> QED
  BY <1>3, <1>4

\* The requirements of rule r at node n are decided at once.
AtOnce(D, r, n) ==
  \A d \in Rules[r].requires : d.relation # "document" /\ ~Waits(D, d.rule, Read(parent, d, n))

\* Requirement d of rule r at node n stops it with answer x.
StoppedBy(D, r, n, whole, x) == \E d \in Rules[r].requires : x = Answer(parent, D, d, n, whole)

\* dependencies at the close of a node: it waits, or one failed requirement stops
\* the rule, or all requirements are decided.
LEMMA DependenciesEarly ==
  ASSUME Tree(parent), NEW n \in DOMAIN parent, NEW r \in Keys, NEW D \in [Subjects -> Decisions],
         NEW memo, NEW whole \in BOOLEAN
  PROVE  LET x == EarlyDependencies(D, memo, r, n, whole) IN
         \/ x = Waiting
         \/ x \in Blocks /\ StoppedBy(D, r, n, whole, x)
         \/ x = Given(parent, D, r, n, whole) /\ AtOnce(D, r, n)
<1> DEFINE all == {EarlyDependency(D, memo, n, d, whole) : d \in Rules[r].requires}
           x == EarlyDependencies(D, memo, r, n, whole)
<1>1. x = Combine(all)
  BY DEF EarlyDependencies, EarlyDependency, dependencies, Combine, RankOf, Ties
<1>2. ASSUME NEW d \in Rules[r].requires
      PROVE  /\ d.relation = "document" \/ Waits(D, d.rule, Read(parent, d, n)) =>
                  EarlyDependency(D, memo, n, d, whole) = Waiting
             /\ d.relation # "document" /\ ~Waits(D, d.rule, Read(parent, d, n)) =>
                  EarlyDependency(D, memo, n, d, whole) = Answer(parent, D, d, n, whole)
  <2>1. d.rule \in Keys /\ d.relation \in Relations
    BY Requirements
  <2> QED
    BY <2>1, DependencyEarly
<1>3. \A d \in Rules[r].requires : Answer(parent, D, d, n, whole) \in Answers
  BY AnswerIs
<1>4. all \subseteq Answers \cup {Waiting}
  BY <1>2, <1>3
<1>5. \A a \in all : a # Waiting => StoppedBy(D, r, n, whole, a)
  BY <1>2 DEF StoppedBy
<1>6. Waiting \notin all => AtOnce(D, r, n) /\ all = {Answer(parent, D, d, n, whole) : d \in Rules[r].requires}
  BY <1>2 DEF AtOnce
<1> HIDE DEF all, x
<1>7. Contract \notin all /\ all \subseteq Answers \cup {Waiting, Contract}
  BY <1>4, AnswerKinds DEF Contract, Waiting
<1>8. CASE Has(all, "blocked")
  <2>1. x \in all /\ x.outcome = "blocked"
    BY <1>1, <1>7, <1>8, Combination
  <2>2. x # Waiting
    BY <2>1 DEF Waiting
  <2>3. x \in Blocks
    BY <1>4, <2>1, <2>2, AnswerKinds
  <2> QED
    BY <1>5, <2>1, <2>2, <2>3 DEF x
<1>9. CASE ~Has(all, "blocked") /\ Waiting \in all
  <2>1. x = Waiting
    BY <1>1, <1>7, <1>9, Combination
  <2> QED
    BY <2>1 DEF x
<1>10. CASE ~Has(all, "blocked") /\ Waiting \notin all
  <2>1. x = Given(parent, D, r, n, whole) /\ AtOnce(D, r, n)
    BY <1>1, <1>6, <1>10 DEF Given
  <2> QED
    BY <2>1 DEF x
<1> QED
  BY <1>8, <1>9, <1>10

\* The evaluation of a rule that is available and applies.
FinalRule(D, memo, r, n, whole) == evaluateRule(D, memo, Applies, r, n, TRUE, whole)
EarlyRule(D, memo, r, n, whole) == evaluateRule(D, memo, Applies, r, n, FALSE, whole)

\* What it comes to when its requirements answer g.
Then(g) == IF g.outcome = "pass" THEN Predicate ELSE g

\* evaluateRule in Finish.
LEMMA FinallyComes ==
  ASSUME Tree(parent), NEW n \in DOMAIN parent, NEW r \in Keys, NEW D \in [Subjects -> Decisions],
         NEW memo, MemoTypes(memo), NEW whole \in BOOLEAN, Fresh(memo, D, whole), Rules[r].available
  PROVE  FinalRule(D, memo, r, n, whole) = IF Open(memo, r) THEN Then(Given(parent, D, r, n, whole)) ELSE Contract
<1> DEFINE d == FinalDependencies(D, memo, r, n, whole)
<1>1. FinalRule(D, memo, r, n, whole) = Then(d)
  BY DEF FinalRule, evaluateRule, FinalDependencies, Then
<1>2. d = IF Open(memo, r) THEN Given(parent, D, r, n, whole) ELSE Contract
  BY DependenciesFinal
<1>3. Then(Contract) = Contract
  BY DEF Contract, Then
<1> HIDE DEF d
<1> QED
  BY <1>1, <1>2, <1>3

\* evaluateRule at the close of a node.
LEMMA EarlyComes ==
  ASSUME Tree(parent), NEW n \in DOMAIN parent, NEW r \in Keys, NEW D \in [Subjects -> Decisions],
         NEW memo, NEW whole \in BOOLEAN, Rules[r].available
  PROVE  LET x == EarlyRule(D, memo, r, n, whole) IN
         \/ x = Waiting
         \/ x \in Blocks /\ StoppedBy(D, r, n, whole, x)
         \/ x = Then(Given(parent, D, r, n, whole)) /\ AtOnce(D, r, n)
<1> DEFINE d == EarlyDependencies(D, memo, r, n, whole)
           x == EarlyRule(D, memo, r, n, whole)
<1>1. x = Waiting \/ x = Then(d)
  BY DEF EarlyRule, evaluateRule, EarlyDependencies, Then
<1>2. \/ d = Waiting
      \/ d \in Blocks /\ StoppedBy(D, r, n, whole, d)
      \/ d = Given(parent, D, r, n, whole) /\ AtOnce(D, r, n)
  BY DependenciesEarly
<1>3. Then(Waiting) = Waiting
  BY DEF Waiting, Then
<1> HIDE DEF d
<1>4. d \in Blocks => Then(d) = d
  BY DEF Blocks, Then
<1> QED
  BY <1>1, <1>2, <1>3, <1>4

\* Decide is the final evaluation without aggregates.
LEMMA DecideIs ==
  ASSUME Tree(parent), NEW n \in DOMAIN parent, NEW r \in Keys, NEW D \in [Subjects -> Decisions], Whole \in BOOLEAN
  PROVE  /\ fact[<<r, n>>] \in Selections \ {Applies} => Decide(D, <<r, n>>) = fact[<<r, n>>]
         /\ fact[<<r, n>>] \notin Selections \ {Applies} /\ ~Rules[r].available => Decide(D, <<r, n>>) = Decision("unsupported")
         /\ fact[<<r, n>>] \notin Selections \ {Applies} /\ Rules[r].available =>
              Decide(D, <<r, n>>) = IF Given(parent, D, r, n, Whole).outcome = "pass" THEN fact[<<r, n>>]
                                    ELSE Given(parent, D, r, n, Whole)
<1> DEFINE f == fact[<<r, n>>]
           sel == IF f \in Selections THEN f ELSE Applies
           x == evaluateRule(D, Established, sel, r, n, TRUE, Whole)
<1>1. Decide(D, <<r, n>>) = IF x = Predicate THEN f ELSE x
  BY DEF Decide
<1>2. CASE f \in Selections \ {Applies}
  <2>1. x = f
    BY <1>2 DEF evaluateRule
  <2> HIDE DEF x
  <2> QED
    BY <1>1, <1>2, <2>1
<1>3. CASE f \notin Selections \ {Applies} /\ ~Rules[r].available
  <2>1. x = Decision("unsupported")
    BY <1>3 DEF evaluateRule
  <2> HIDE DEF x
  <2>2. x # Predicate
    BY <2>1 DEF Decision, Predicate
  <2> QED
    BY <1>1, <1>3, <2>1, <2>2
<1>4. CASE f \notin Selections \ {Applies} /\ Rules[r].available
  <2> DEFINE g == Given(parent, D, r, n, Whole)
  <2>1. x = FinalRule(D, Established, r, n, Whole)
    <3>1. sel = Applies
      BY <1>4
    <3> HIDE DEF sel
    <3> QED
      BY <3>1 DEF FinalRule
  <2>2. MemoTypes(Established) /\ Fresh(Established, D, Whole) /\ Open(Established, r)
    <3>1. \A p \in Keys : Established[p].finalized = TRUE /\ Established[p].ready = FALSE
      BY DEF Established
    <3> QED
      BY <3>1, Requirements DEF MemoTypes, Fresh, Open
  <2>3. FinalRule(D, Established, r, n, Whole) = IF Open(Established, r) THEN Then(g) ELSE Contract
    BY <1>4, <2>2, FinallyComes
  <2> HIDE DEF x, sel
  <2>4. x = Then(g)
    BY <2>1, <2>2, <2>3
  <2>5. g # Predicate
    <3>1. g \in Answers
      BY GivenIs
    <3> HIDE DEF g
    <3>2. g.outcome \in {"pass", "unknown", "unsupported", "blocked"}
      BY <3>1, AnswerKinds
    <3> QED
      BY <3>2 DEF Predicate
  <2>6. Decide(D, <<r, n>>) = IF g.outcome = "pass" THEN f ELSE g
    <3> HIDE DEF g, f
    <3> QED
      BY <1>1, <2>4, <2>5 DEF Then
  <2> QED
    BY <1>4, <2>6
<1> QED
  BY <1>2, <1>3, <1>4

-----------------------------------------------------------------------------
(* One evaluation.                                                         *)

\* The requirements of rule r at node n are settled when the rule is evaluated
\* early, at the close of a node, or late, in its phase.
Ready(kind, r, n) == IF kind = "early" THEN AtOnce(decisions, r, n) ELSE Open(prerequisite, r)

\* What the requirements answer now.
Now(r, n) == Given(parent, decisions, r, n, Whole)

\* What evaluateRule returns for a selection.
Ruled(kind, r, n, selection, x) ==
  \/ selection # Applies /\ x = selection
  \/ selection = Applies /\ ~Rules[r].available /\ x = Decision("unsupported")
  \/ /\ selection = Applies /\ Rules[r].available
     /\ \/ kind = "early" /\ x = Waiting
        \/ kind = "late" /\ x = Contract
        \/ kind = "early" /\ x \in Blocks /\ StoppedBy(decisions, r, n, Whole, x)
        \/ Ready(kind, r, n) /\ x = Then(Now(r, n))

\* The basis of decision d for an answer f of the document.
Basis(kind, r, n, d, f) ==
  \/ f \in Selections \ {Applies} /\ d = f
  \/ f = Applies /\ ~Rules[r].available /\ d = Decision("unsupported")
  \/ /\ f = Applies /\ Rules[r].available
     /\ \/ kind = "early" /\ d \in Blocks /\ StoppedBy(decisions, r, n, Whole, d)
        \/ Ready(kind, r, n) /\ Now(r, n).outcome # "pass" /\ d = Now(r, n)
  \/ f \in PlanAnswers /\ Rules[r].available /\ Ready(kind, r, n) /\ Now(r, n).outcome = "pass" /\ d = f

\* An evaluation of s that decides nothing; one that counts decision d.
Pauses(kind, s) ==
  /\ UNCHANGED <<decisions, counted>>
  /\ fact' = fact \/ fact' = [fact EXCEPT ![s] = Applies]
  /\ terminal' = TRUE \/ (kind = "early" /\ terminal' = terminal)
Records(s, d, f) ==
  /\ fact' = [fact EXCEPT ![s] = f]
  /\ counted' = [counted EXCEPT ![s] = Append(@, d.outcome)]
  /\ \/ decisions' = decisions /\ terminal' = TRUE
     \/ decisions' = [decisions EXCEPT ![s] = d] /\ terminal' = FALSE

\* The part of Evaluate that follows evaluateRule.
Acts(s, selection, d) ==
  \/ /\ d = Waiting
     /\ fact' = [fact EXCEPT ![s] = selection]
     /\ UNCHANGED <<decisions, counted, terminal>>
  \/ /\ d = Contract
     /\ terminal' = TRUE
     /\ UNCHANGED <<fact, decisions, counted>>
  \/ /\ d.outcome \in Outcomes
     /\ fact' = [fact EXCEPT ![s] = selection]
     /\ \E refused \in BOOLEAN : Record(s, d, refused)
  \/ /\ d = Predicate
     /\ \E answer \in PlanAnswers, refused \in BOOLEAN :
          /\ fact' = [fact EXCEPT ![s] = answer]
          /\ Record(s, answer, refused)

\* A recorded decision is cached, or refused and the session over.
LEMMA RecordIs ==
  ASSUME NEW s, NEW d, NEW refused \in BOOLEAN, Record(s, d, refused)
  PROVE  /\ counted' = [counted EXCEPT ![s] = Append(@, d.outcome)]
         /\ \/ decisions' = decisions /\ terminal' = TRUE
            \/ decisions' = [decisions EXCEPT ![s] = d] /\ terminal' = FALSE
BY DEF Record

\* After evaluateRule an evaluation decides nothing, or records a decision with its
\* basis.
LEMMA ActsIs ==
  ASSUME Tree(parent), decisions \in [Subjects -> Decisions], Whole \in BOOLEAN,
         NEW r \in Keys, NEW n \in DOMAIN parent, NEW kind \in {"early", "late"},
         NEW selection \in Selections \cup {Applies}, NEW x,
         Ruled(kind, r, n, selection, x), Acts(<<r, n>>, selection, x)
  PROVE  \/ Pauses(kind, <<r, n>>)
         \/ \E d, f : Records(<<r, n>>, d, f) /\ Basis(kind, r, n, d, f)
<1> DEFINE s == <<r, n>>
<1>0. selection.outcome \in {"applies", "not-applicable", "unknown", "unsupported", "blocked"}
  BY AnswersOfDocument
<1>1. CASE x = Waiting
  <2>1. selection = Applies /\ kind = "early"
    <3>1. x.outcome = "waiting"
      BY <1>1 DEF Waiting
    <3>2. x # selection /\ x # Decision("unsupported")
      BY <1>0, <3>1 DEF Decision
    <3>3. x # Then(Now(r, n))
      <4>1. Now(r, n) \in Answers
        BY GivenIs DEF Now
      <4>2. Now(r, n).outcome \in {"pass", "unknown", "unsupported", "blocked"}
        BY <4>1, AnswerKinds
      <4>3. Then(Now(r, n)).outcome # "waiting"
        BY <4>2 DEF Then, Predicate
      <4> QED
        BY <3>1, <4>3
    <3>4. x # Contract /\ x \notin Blocks
      BY <3>1 DEF Contract, Blocks
    <3> QED
      BY <3>2, <3>3, <3>4 DEF Ruled
  <2>2. x # Contract /\ x # Predicate /\ x.outcome \notin Outcomes
    BY <1>1 DEF Waiting, Contract, Predicate, Outcomes
  <2>3. fact' = [fact EXCEPT ![s] = Applies] /\ UNCHANGED <<decisions, counted, terminal>>
    BY <2>1, <2>2 DEF Acts
  <2> QED
    BY <2>1, <2>3 DEF Pauses
<1>2. CASE x = Contract
  <2>1. x # Waiting /\ x # Predicate /\ x.outcome \notin Outcomes
    BY <1>2 DEF Waiting, Contract, Predicate, Outcomes
  <2> QED
    BY <2>1 DEF Acts, Pauses
<1>3. CASE x = Predicate
  <2>1. x # Waiting /\ x # Contract /\ x.outcome = "predicate" /\ x.outcome \notin Outcomes
    BY <1>3 DEF Waiting, Contract, Predicate, Outcomes
  <2>2. PICK answer \in PlanAnswers, refused \in BOOLEAN :
          fact' = [fact EXCEPT ![s] = answer] /\ Record(s, answer, refused)
    BY <2>1 DEF Acts
  <2>3. Records(s, answer, answer)
    BY <2>2, RecordIs DEF Records
  <2>4. selection = Applies /\ Rules[r].available /\ Ready(kind, r, n) /\ x = Then(Now(r, n))
    <3>1. x # selection /\ x # Decision("unsupported")
      BY <1>0, <2>1 DEF Decision
    <3>2. x \notin Blocks
      BY <2>1 DEF Blocks
    <3> QED
      BY <2>1, <3>1, <3>2 DEF Ruled
  <2>5. Now(r, n).outcome = "pass"
    <3>1. Now(r, n) \in Answers
      BY GivenIs DEF Now
    <3>2. Now(r, n).outcome # "predicate"
      BY <3>1, AnswerKinds
    <3> QED
      BY <2>1, <2>4, <3>2 DEF Then
  <2>6. Basis(kind, r, n, answer, answer)
    BY <2>4, <2>5 DEF Basis
  <2> QED
    BY <2>3, <2>6
<1>4. CASE x # Waiting /\ x # Contract /\ x # Predicate
  <2>1. PICK refused \in BOOLEAN : Record(s, x, refused)
    BY <1>4 DEF Acts
  <2>2. fact' = [fact EXCEPT ![s] = selection]
    BY <1>4 DEF Acts
  <2>3. Records(s, x, selection)
    BY <2>1, <2>2, RecordIs DEF Records
  <2>4. Basis(kind, r, n, x, selection)
    <3>1. x = Then(Now(r, n)) => Now(r, n).outcome # "pass" /\ x = Now(r, n)
      BY <1>4 DEF Then
    <3>2. selection # Applies => selection \in Selections \ {Applies}
      OBVIOUS
    <3> QED
      BY <1>4, <3>1, <3>2 DEF Basis, Ruled
  <2> QED
    BY <2>3, <2>4
<1> QED
  BY <1>1, <1>2, <1>3, <1>4

\* An evaluation at the close of a node decides nothing, or records a decision
\* with its basis; it leaves the aggregates alone.
LEMMA EarlyStep ==
  ASSUME Tree(parent), decisions \in [Subjects -> Decisions], Whole \in BOOLEAN,
         NEW r \in Keys, NEW n \in DOMAIN parent, fact[<<r, n>>] \in {Undecided, Applies}, terminal = FALSE,
         Evaluate(<<r, n>>, FALSE)
  PROVE  /\ prerequisite' = prerequisite
         /\ \/ Pauses("early", <<r, n>>)
            \/ \E d, f : Records(<<r, n>>, d, f) /\ Basis("early", r, n, d, f)
<1> DEFINE Rule(sel) == evaluateRule(decisions, prerequisite, sel, r, n, FALSE, Whole)
<1>1. CASE terminal' = TRUE /\ UNCHANGED <<fact, decisions, counted, prerequisite>>
  BY <1>1 DEF Pauses
<1>2. CASE ~(terminal' = TRUE /\ UNCHANGED <<fact, decisions, counted, prerequisite>>)
  <2>1. PICK sel \in Selections \cup {Applies} :
          prerequisite' = prerequisite /\ Acts(<<r, n>>, sel, Rule(sel))
    BY <1>2 DEF Evaluate, Acts
  <2>2. Ruled("early", r, n, sel, Rule(sel))
    <3>1. CASE sel # Applies
      <4>1. Rule(sel) = sel
        BY <3>1 DEF evaluateRule
      <4> HIDE DEF Rule
      <4> QED
        BY <3>1, <4>1 DEF Ruled
    <3>2. CASE sel = Applies /\ ~Rules[r].available
      <4>1. Rule(sel) = Decision("unsupported")
        BY <3>2 DEF evaluateRule
      <4> HIDE DEF Rule
      <4> QED
        BY <3>2, <4>1 DEF Ruled
    <3>3. CASE sel = Applies /\ Rules[r].available
      <4>1. Rule(sel) = EarlyRule(decisions, prerequisite, r, n, Whole)
        BY <3>3 DEF EarlyRule
      <4> HIDE DEF Rule
      <4>2. \/ Rule(sel) = Waiting
            \/ Rule(sel) \in Blocks /\ StoppedBy(decisions, r, n, Whole, Rule(sel))
            \/ Rule(sel) = Then(Given(parent, decisions, r, n, Whole)) /\ AtOnce(decisions, r, n)
        BY <3>3, <4>1, EarlyComes
      <4> QED
        BY <3>3, <4>2 DEF Ruled, Ready, Now
    <3> QED
      BY <3>1, <3>2, <3>3
  <2> HIDE DEF Rule
  <2> QED
    BY <2>1, <2>2, ActsIs
<1> QED
  BY <1>1, <1>2

\* The same in Finish, where an evaluation may aggregate prerequisites.
LEMMA FinalStep ==
  ASSUME Tree(parent), decisions \in [Subjects -> Decisions], Whole \in BOOLEAN,
         MemoTypes(prerequisite), Fresh(prerequisite, decisions, Whole),
         NEW r \in Keys, NEW n \in DOMAIN parent, fact[<<r, n>>] \in {Undecided, Applies}, terminal = FALSE,
         Evaluate(<<r, n>>, TRUE)
  PROVE  /\ \/ prerequisite' = prerequisite
            \/ prerequisite' = Aggregated(r) /\ Open(prerequisite, r)
         /\ \/ Pauses("late", <<r, n>>)
            \/ \E d, f : Records(<<r, n>>, d, f) /\ Basis("late", r, n, d, f)
<1> DEFINE Rule(sel) == evaluateRule(decisions, prerequisite, sel, r, n, TRUE, Whole)
<1>1. CASE terminal' = TRUE /\ UNCHANGED <<fact, decisions, counted, prerequisite>>
  BY <1>1 DEF Pauses
<1>2. CASE ~(terminal' = TRUE /\ UNCHANGED <<fact, decisions, counted, prerequisite>>)
  <2>1. PICK sel \in Selections \cup {Applies} :
          /\ prerequisite' = IF sel = Applies /\ Rules[r].available /\ Rule(sel) # Contract THEN Aggregated(r) ELSE prerequisite
          /\ Acts(<<r, n>>, sel, Rule(sel))
    BY <1>2 DEF Evaluate, Acts
  <2>2. /\ Ruled("late", r, n, sel, Rule(sel))
        /\ sel = Applies /\ Rules[r].available /\ Rule(sel) # Contract => Open(prerequisite, r)
    <3>1. CASE sel # Applies
      <4>1. Rule(sel) = sel
        BY <3>1 DEF evaluateRule
      <4> HIDE DEF Rule
      <4> QED
        BY <3>1, <4>1 DEF Ruled
    <3>2. CASE sel = Applies /\ ~Rules[r].available
      <4>1. Rule(sel) = Decision("unsupported")
        BY <3>2 DEF evaluateRule
      <4> HIDE DEF Rule
      <4> QED
        BY <3>2, <4>1 DEF Ruled
    <3>3. CASE sel = Applies /\ Rules[r].available
      <4>1. Rule(sel) = FinalRule(decisions, prerequisite, r, n, Whole)
        BY <3>3 DEF FinalRule
      <4> HIDE DEF Rule
      <4>2. Rule(sel) = IF Open(prerequisite, r) THEN Then(Given(parent, decisions, r, n, Whole)) ELSE Contract
        BY <3>3, <4>1, FinallyComes
      <4> QED
        BY <3>3, <4>2 DEF Ruled, Ready, Now
    <3> QED
      BY <3>1, <3>2, <3>3
  <2> HIDE DEF Rule
  <2> QED
    BY <2>1, <2>2, ActsIs
<1> QED
  BY <1>1, <1>2

-----------------------------------------------------------------------------
(* The inductive invariant.                                                *)

\* The types of the variables.
Types ==
  /\ pc \in {"input", "closing", "phases", "done"}
  /\ Tree(parent)
  /\ stack \in Seq(NodeIDs) /\ ToSet(stack) \subseteq Nodes
  /\ cursor \subseteq Subjects \cup (Keys \X {Mark})
  /\ fact \in [Subjects -> {Undecided, Applies} \cup Selections \cup PlanAnswers]
  /\ decisions \in [Subjects -> Decisions]
  /\ counted \in [Subjects -> Seq(Outcomes)]
  /\ prerequisite \in [Keys -> [finalized : BOOLEAN, ready : BOOLEAN, decision : Decisions]]
  /\ terminal \in BOOLEAN /\ enumerationIncomplete \in BOOLEAN /\ inputComplete \in BOOLEAN

\* Finish was called.
Finishing == pc \in {"phases", "done"}

\* What the stages of a session allow.
Stages ==
  /\ inputComplete => Finishing /\ stack = <<>> /\ parent # <<>>
  /\ pc \in {"input", "done"} => cursor = {}
  /\ pc = "closing" => cursor \subseteq Subjects

\* What is left of a pass is undecided, and evaluated at a closed node.
Pending ==
  \A s \in cursor : s[2] # Mark => decisions[s] = Undecided /\ Evaluated(s[1], s[2]) /\ s[2] \in Closed

\* An undecided subject was not asked, or its selector applies.
Asked == ~terminal => \A s \in Subjects : decisions[s] = Undecided => fact[s] \in {Undecided, Applies}

\* A subject is counted when it is decided; only a refused decision is counted
\* and not cached, which ends the session.
CountedAs(s) ==
  /\ decisions[s] = Undecided => counted[s] = <<>> \/ (terminal /\ \E o \in Outcomes : counted[s] = <<o>>)
  /\ decisions[s] # Undecided => counted[s] = <<decisions[s].outcome>>
Once == \A s \in Subjects : CountedAs(s)

\* The phase of rule p is over.
Over(p) == Finishing /\ <<p, Mark>> \notin cursor

\* The phases come in the order of the schedule.
InOrder == \A p \in Keys : Over(p) => \A s \in cursor : p < s[1]

\* An aggregate is what a scan would find now.
Finalized == \A p \in Keys : /\ prerequisite[p].finalized => Over(p)
                             /\ prerequisite[p].ready => prerequisite[p].finalized
Aggregates == Finalized /\ Fresh(prerequisite, decisions, Whole)

\* In the phases every subject is decided or still to be evaluated.
Covered ==
  Finishing /\ ~terminal =>
    \A s \in Subjects : s[2] \in Closed /\ Evaluated(s[1], s[2]) => decisions[s] # Undecided \/ s \in cursor

\* Only closed nodes are decided.
AtClosed == \A s \in Subjects : decisions[s] # Undecided => s[2] \in Closed /\ Evaluated(s[1], s[2])

\* Where requirement d at node n reads its rule; what it reads is settled.
At(d, n) == Read(parent, d, n)
Settled(d, n) == Over(d.rule) \/ (d.relation # "document" /\ ~Waits(decisions, d.rule, At(d, n)))

\* A verdict at s rests on requirements that hold.
Rests(s) ==
  \A d \in Rules[s[1]].requires : Holds(decisions, d.rule, At(d, s[2])) /\ (d.relation = "document" => Whole)
Earned == \A s \in Subjects : decisions[s].outcome \in {"pass", "fail"} => Rests(s)

\* A block at s comes from its own evidence or has an origin.
Traced(s) == decisions[s] = fact[s] \/ (fact[s] = Applies /\ Origin(decisions[s].cause))

\* The grounds of a decision: the selector's answer, a missing implementation, a
\* failed prerequisite, or prerequisites that do not change any more.
Stopped(s) ==
  decisions[s].outcome = "blocked" /\ \E d \in Rules[s[1]].requires : Failing(decisions, d.rule, At(d, s[2])) # {}
Final(s) ==
  /\ \A d \in Rules[s[1]].requires : Settled(d, s[2])
  /\ decisions[s].outcome = IF Now(s[1], s[2]).outcome = "pass" THEN fact[s].outcome ELSE Now(s[1], s[2]).outcome
Grounds(s) ==
  \/ fact[s] \in Selections \ {Applies} /\ decisions[s] = fact[s]
  \/ /\ fact[s] \notin Selections \ {Applies}
     /\ \/ ~Rules[s[1]].available /\ decisions[s].outcome = "unsupported"
        \/ Rules[s[1]].available /\ (Stopped(s) \/ Final(s))
Grounded == \A s \in Subjects : decisions[s] # Undecided => Grounds(s)

\* The inductive invariant.
Order == Stages /\ Pending /\ Asked /\ Once /\ InOrder /\ Covered /\ AtClosed
Reasons == Earned /\ BlocksAreTraced /\ Grounded
Inv == Types /\ Order /\ Aggregates /\ Reasons

-----------------------------------------------------------------------------
(* What every step keeps.                                                  *)

\* Decisions, nodes, the input of a finished session and the results of a phase
\* that is over are never changed.
KeepsDecisions ==
  \A s \in Subjects : decisions[s] # Undecided => decisions'[s] = decisions[s] /\ fact'[s] = fact[s]
KeepsTree == DOMAIN parent \subseteq DOMAIN parent' /\ \A n \in DOMAIN parent : parent'[n] = parent[n]
KeepsFinish == Finishing => parent' = parent /\ Whole' = Whole
KeepsOver == \A p \in Keys : Over(p) => Over(p)' /\ \A n \in NodeIDs : decisions'[<<p, n>>] = decisions[<<p, n>>]
Grows == KeepsDecisions /\ KeepsTree /\ KeepsFinish /\ KeepsOver

\* The nodes of a document.
LEMMA TreeNodes ==
  ASSUME NEW P, Tree(P)
  PROVE  DOMAIN P \subseteq NodeIDs
<1>1. DOMAIN P = 1 .. Len(P) /\ Len(P) \in Nat /\ Len(P) <= MaxNodes
  BY DEF Tree
<1>2. MaxNodes \in Nat
  BY Bounds
<1> QED
  BY <1>1, <1>2 DEF NodeIDs

\* The document was seen whole or not.
LEMMA WholeType ==
  ASSUME Types
  PROVE  Whole \in BOOLEAN
BY DEF Types, Whole

\* A settled requirement reads the same after a step.
LEMMA SettledStays ==
  ASSUME Types, Grows, NEW n \in DOMAIN parent, NEW r \in Keys, NEW d \in Rules[r].requires, Settled(d, n)
  PROVE  /\ At(d, n)' = At(d, n)
         /\ \A m \in At(d, n) : decisions'[<<d.rule, m>>] = decisions[<<d.rule, m>>]
         /\ d.relation = "document" => Whole' = Whole
         /\ Settled(d, n)'
<1>1. d.rule \in Keys /\ d.relation \in Relations
  BY Requirements
<1>2. At(d, n) \subseteq NodeIDs
  BY <1>1, Reads DEF At, Types
<1>3. CASE Over(d.rule)
  <2>1. parent' = parent /\ Whole' = Whole
    BY <1>3 DEF Over, Grows, KeepsFinish
  <2>2. At(d, n)' = At(d, n)
    BY <2>1 DEF At, Read, Evaluated
  <2>3. Over(d.rule)' /\ \A m \in NodeIDs : decisions'[<<d.rule, m>>] = decisions[<<d.rule, m>>]
    BY <1>1, <1>3 DEF Grows, KeepsOver
  <2> QED
    BY <1>2, <2>1, <2>2, <2>3 DEF Settled
<1>4. CASE d.relation # "document" /\ ~Waits(decisions, d.rule, At(d, n))
  <2>1. parent'[n] = parent[n]
    BY DEF Grows, KeepsTree
  <2>2. At(d, n)' = At(d, n)
    BY <1>1, <1>4, <2>1 DEF At, Read, Relations
  <2>3. ASSUME NEW m \in At(d, n) PROVE decisions'[<<d.rule, m>>] = decisions[<<d.rule, m>>]
    <3>1. <<d.rule, m>> \in Subjects /\ decisions[<<d.rule, m>>] \in Decisions
      BY <1>1, <1>2 DEF Subjects, Types
    <3>2. decisions[<<d.rule, m>>] # Undecided
      BY <1>4, <3>1, DecisionKinds DEF Waits
    <3> QED
      BY <3>1, <3>2 DEF Grows, KeepsDecisions
  <2>4. ~Waits(decisions, d.rule, At(d, n))'
    BY <1>4, <2>2, <2>3 DEF Waits
  <2> QED
    BY <1>4, <2>2, <2>3, <2>4 DEF Settled
<1> QED
  BY <1>3, <1>4 DEF Settled

\* What requirements answered stays, once they are settled.
LEMMA NowStays ==
  ASSUME Types, Types', Grows, NEW n \in DOMAIN parent, NEW r \in Keys,
         \A d \in Rules[r].requires : Settled(d, n)
  PROVE  Now(r, n)' = Now(r, n)
<1>1. ASSUME NEW d \in Rules[r].requires
      PROVE  /\ Read(parent', d, n) = Read(parent, d, n)
             /\ \A m \in Read(parent, d, n) : decisions[<<d.rule, m>>] = decisions'[<<d.rule, m>>]
             /\ d.relation = "document" => Whole = Whole'
  BY SettledStays DEF At
<1>2. Whole \in BOOLEAN /\ Whole' \in BOOLEAN
  BY DEF Types, Whole
<1>3. Tree(parent)
  BY DEF Types
<1>4. PICK P, Q, D, E, w, v : P = parent /\ Q = parent' /\ D = decisions /\ E = decisions' /\ w = Whole /\ v = Whole'
  OBVIOUS
<1>5. Given(P, D, r, n, w) = Given(Q, E, r, n, v)
  BY <1>1, <1>2, <1>3, <1>4, GivenReads
<1> QED
  BY <1>4, <1>5 DEF Now

\* An origin is a cause, and stays an origin.
LEMMA OriginsAreCauses ==
  ASSUME Types, NEW c, Origin(c)
  PROVE  c # NoCause
<1>1. PICK t \in Subjects : /\ c = blockCause(decisions, t)
                            /\ \/ decisions[t].outcome = "fail"
                               \/ decisions[t] = fact[t] /\ fact[t].outcome = "blocked"
  BY DEF Origin
<1>2. decisions[t] \in Decisions /\ decisions[t].outcome \in {"fail", "blocked"}
  BY <1>1 DEF Types
<1> QED
  BY <1>1, <1>2, BlockCauses DEF Causes

LEMMA OriginsStay ==
  ASSUME Grows, NEW c, Origin(c)
  PROVE  Origin(c)'
<1>1. PICK t \in Subjects : /\ c = blockCause(decisions, t)
                            /\ \/ decisions[t].outcome = "fail"
                               \/ decisions[t] = fact[t] /\ fact[t].outcome = "blocked"
  BY DEF Origin
<1>2. decisions[t] # Undecided
  BY <1>1 DEF Undecided
<1>3. decisions'[t] = decisions[t] /\ fact'[t] = fact[t]
  BY <1>2 DEF Grows, KeepsDecisions
<1>4. blockCause(decisions, t)' = blockCause(decisions, t)
  BY <1>3 DEF blockCause
<1> QED
  BY <1>1, <1>3, <1>4 DEF Origin

\* The reasons of a decision outlive every later step.
LEMMA ReasonsStay ==
  ASSUME Types, Types', AtClosed, Stages, Reasons, Grows, NEW s \in Subjects, decisions[s] # Undecided
  PROVE  /\ decisions'[s] = decisions[s]
         /\ decisions'[s].outcome \in {"pass", "fail"} => Rests(s)'
         /\ decisions'[s].outcome = "blocked" => Traced(s)'
         /\ Grounds(s)'
<1>1. decisions'[s] = decisions[s] /\ fact'[s] = fact[s]
  BY DEF Grows, KeepsDecisions
<1>2. s[1] \in Keys /\ s[2] \in DOMAIN parent
  BY DEF Subjects, AtClosed, Closed, Nodes
<1>3. ASSUME decisions'[s].outcome \in {"pass", "fail"} PROVE Rests(s)'
  <2> SUFFICES ASSUME NEW d \in Rules[s[1]].requires
               PROVE  (Holds(decisions, d.rule, At(d, s[2])) /\ (d.relation = "document" => Whole))'
    BY DEF Rests
  <2>1. Holds(decisions, d.rule, At(d, s[2])) /\ (d.relation = "document" => Whole)
    BY <1>1, <1>3 DEF Reasons, Earned, Rests
  <2>2. d.rule \in Keys /\ d.relation \in Relations
    BY <1>2, Requirements
  <2>3. At(d, s[2]) \subseteq NodeIDs
    BY <1>2, <2>2, Reads DEF At, Types
  <2>4. ASSUME NEW m \in At(d, s[2]) PROVE decisions'[<<d.rule, m>>] = decisions[<<d.rule, m>>]
    <3>1. <<d.rule, m>> \in Subjects /\ decisions[<<d.rule, m>>].outcome \in {"pass", "not-applicable"}
      BY <2>1, <2>2, <2>3 DEF Subjects, Holds
    <3>2. decisions[<<d.rule, m>>] # Undecided
      BY <3>1 DEF Undecided
    <3> QED
      BY <3>1, <3>2 DEF Grows, KeepsDecisions
  <2>5. At(d, s[2])' = At(d, s[2]) /\ (d.relation = "document" => Whole' = Whole)
    <3>1. CASE d.relation = "document"
      <4>1. Finishing
        BY <2>1, <3>1 DEF Stages, Whole
      <4>2. parent' = parent /\ Whole' = Whole
        BY <4>1 DEF Grows, KeepsFinish
      <4> QED
        BY <4>2 DEF At, Read
    <3>2. CASE d.relation # "document"
      <4>1. parent'[s[2]] = parent[s[2]]
        BY <1>2 DEF Grows, KeepsTree
      <4> QED
        BY <2>2, <3>2, <4>1 DEF At, Read, Relations
    <3> QED
      BY <3>1, <3>2
  <2>6. Holds(decisions, d.rule, At(d, s[2]))'
    BY <2>1, <2>4, <2>5 DEF Holds
  <2> QED
    BY <2>1, <2>5, <2>6
<1>4. ASSUME decisions'[s].outcome = "blocked" PROVE Traced(s)'
  <2>1. decisions[s].outcome = "blocked" /\ fact'[s] = fact[s]
    BY <1>1, <1>4 DEF Grows, KeepsDecisions
  <2>2. Traced(s)
    BY <2>1 DEF Reasons, BlocksAreTraced, Traced
  <2>3. Origin(decisions[s].cause) => Origin(decisions[s].cause)'
    BY <1>1, OriginsStay
  <2> QED
    BY <1>1, <2>1, <2>2, <2>3 DEF Traced
<1>5. Grounds(s)'
  <2>1. Grounds(s)
    BY DEF Reasons, Grounded
  <2>2. Stopped(s) => Stopped(s)'
    <3> SUFFICES ASSUME Stopped(s) PROVE Stopped(s)'
      OBVIOUS
    <3>1. PICK d \in Rules[s[1]].requires : Failing(decisions, d.rule, At(d, s[2])) # {}
      BY DEF Stopped
    <3>2. PICK m \in At(d, s[2]) : decisions[<<d.rule, m>>].outcome \in {"fail", "blocked"}
      BY <3>1 DEF Failing
    <3>3. d.rule \in Keys /\ d.relation \in Relations
      BY <1>2, Requirements
    <3>4. At(d, s[2]) \subseteq NodeIDs
      BY <1>2, <3>3, Reads DEF At, Types
    <3>5. <<d.rule, m>> \in Subjects
      BY <3>3, <3>4 DEF Subjects
    <3>6. decisions[<<d.rule, m>>] # Undecided
      BY <3>2 DEF Undecided
    <3>7. decisions'[<<d.rule, m>>] = decisions[<<d.rule, m>>]
      BY <3>5, <3>6 DEF Grows, KeepsDecisions
    <3>8. m \in At(d, s[2])'
      <4>1. parent'[s[2]] = parent[s[2]] /\ DOMAIN parent \subseteq DOMAIN parent'
        BY <1>2 DEF Grows, KeepsTree
      <4>2. CASE d.relation = "same-node"
        BY <4>2 DEF At, Read
      <4>3. CASE d.relation = "parent"
        BY <4>1, <4>3 DEF At, Read
      <4>4. CASE d.relation = "document"
        BY <4>1, <4>4 DEF At, Read
      <4> QED
        BY <3>3, <4>2, <4>3, <4>4 DEF Relations
    <3>9. (Failing(decisions, d.rule, At(d, s[2])) # {})'
      BY <3>2, <3>7, <3>8 DEF Failing
    <3> QED
      BY <1>1, <3>9 DEF Stopped
  <2>3. Final(s) => Final(s)'
    <3> SUFFICES ASSUME Final(s) PROVE Final(s)'
      OBVIOUS
    <3>1. \A d \in Rules[s[1]].requires : Settled(d, s[2])
      BY DEF Final
    <3>2. \A d \in Rules[s[1]].requires : Settled(d, s[2])'
      BY <1>2, <3>1, SettledStays
    <3>3. Now(s[1], s[2])' = Now(s[1], s[2])
      BY <1>2, <3>1, NowStays
    <3> QED
      BY <1>1, <3>2, <3>3 DEF Final
  <2> QED
    BY <1>1, <2>1, <2>2, <2>3 DEF Grounds
<1> QED
  BY <1>1, <1>3, <1>4, <1>5

-----------------------------------------------------------------------------
(* Steps that decide nothing.                                              *)

\* The elements of an extended sequence.
LEMMA AppendSet ==
  ASSUME NEW S, NEW q \in Seq(S), NEW x \in S
  PROVE  Append(q, x) \in Seq(S) /\ ToSet(Append(q, x)) = ToSet(q) \cup {x}
<1>1. Append(q, x) \in Seq(S) /\ DOMAIN q = 1 .. Len(q) /\ Len(q) \in Nat /\ DOMAIN Append(q, x) = 1 .. Len(q) + 1
  OBVIOUS
<1>2. \A i \in DOMAIN q : i \in DOMAIN Append(q, x) /\ Append(q, x)[i] = q[i]
  BY <1>1
<1>3. Len(q) + 1 \in DOMAIN Append(q, x) /\ Append(q, x)[Len(q) + 1] = x
  BY <1>1
<1>4. \A i \in DOMAIN Append(q, x) : i \in DOMAIN q \/ i = Len(q) + 1
  BY <1>1
<1> QED
  BY <1>1, <1>2, <1>3, <1>4 DEF ToSet

\* The elements of a shortened sequence.
LEMMA FrontSet ==
  ASSUME NEW S, NEW q \in Seq(S), q # <<>>
  PROVE  /\ Front(q) \in Seq(S) /\ ToSet(Front(q)) \subseteq ToSet(q)
         /\ Last(q) \in ToSet(q) /\ Last(q) \in S
<1>1. Len(q) \in Nat \ {0} /\ DOMAIN q = 1 .. Len(q)
  OBVIOUS
<1>2. Front(q) \in Seq(S) /\ DOMAIN Front(q) = 1 .. Len(q) - 1
  BY <1>1 DEF Front
<1>3. \A i \in DOMAIN Front(q) : i \in DOMAIN q /\ Front(q)[i] = q[i]
  BY <1>1, <1>2 DEF Front
<1>4. Len(q) \in DOMAIN q /\ q[Len(q)] \in S
  BY <1>1
<1> QED
  BY <1>2, <1>3, <1>4 DEF ToSet, Last

\* The marks are no nodes.
LEMMA Marks ==
  /\ Mark \notin NodeIDs /\ Mark \in Nat
  /\ \A s \in Subjects : s[1] \in Keys /\ s[2] \in NodeIDs /\ s[2] # Mark /\ s = <<s[1], s[2]>>
  /\ \A p, q \in Keys : p \in Nat /\ <<p, Mark>> \notin Subjects
<1>1. Mark \notin NodeIDs /\ Mark \in Nat
  <2>1. MaxNodes \in Nat
    BY Bounds
  <2> QED
    BY <2>1 DEF Mark, NodeIDs
<1>2. Keys \subseteq Nat
  BY Bounds DEF Keys
<1> QED
  BY <1>1, <1>2 DEF Subjects

\* A step that decides nothing keeps the reasons.
LEMMA QuietReasons ==
  ASSUME Types, Types', AtClosed, Stages, Reasons, Grows, UNCHANGED decisions
  PROVE  Reasons'
<1>1. ASSUME NEW s \in Subjects, decisions'[s].outcome \in {"pass", "fail"} PROVE Rests(s)'
  <2>1. decisions[s] # Undecided
    BY <1>1 DEF Undecided
  <2> QED
    BY <1>1, <2>1, ReasonsStay
<1>2. ASSUME NEW s \in Subjects, decisions'[s].outcome = "blocked"
      PROVE  Traced(s)'
  <2>1. decisions[s] # Undecided
    BY <1>2 DEF Undecided
  <2> QED
    BY <1>2, <2>1, ReasonsStay
<1>3. ASSUME NEW s \in Subjects, decisions'[s] # Undecided PROVE Grounds(s)'
  BY <1>3, ReasonsStay
<1>4. Earned'
  BY <1>1 DEF Earned
<1>5. BlocksAreTraced'
  BY <1>2 DEF BlocksAreTraced, Traced
<1>6. Grounded'
  BY <1>3 DEF Grounded
<1> QED
  BY <1>4, <1>5, <1>6 DEF Reasons

\* Before Finish there are no aggregates.
LEMMA NoAggregates ==
  ASSUME Types, Aggregates, ~Finishing
  PROVE  \A p \in Keys : ~prerequisite[p].finalized /\ ~prerequisite[p].ready
BY DEF Aggregates, Finalized, Over

\* So a step that leaves the aggregates alone keeps them fresh.
LEMMA StillNoAggregates ==
  ASSUME Types, Aggregates, ~Finishing, UNCHANGED prerequisite
  PROVE  Aggregates'
<1>1. \A p \in Keys : ~prerequisite'[p].finalized /\ ~prerequisite'[p].ready
  BY NoAggregates
<1> QED
  BY <1>1 DEF Aggregates, Finalized, Fresh

\* A step before Finish that decides nothing.
LEMMA EarlyGrows ==
  ASSUME ~Finishing, UNCHANGED <<decisions, fact>>, KeepsTree
  PROVE  Grows
BY DEF Grows, KeepsDecisions, KeepsFinish, KeepsOver, Over

\* Opening a node preserves the invariant: a new node is open, and no requirement
\* that was settled reads it.
LEMMA OpenNodeStep ==
  ASSUME Inv, OpenNode
  PROVE  Inv'
<1> USE DEF Inv
<1>1. /\ pc = "input" /\ ~terminal /\ Len(parent) < MaxNodes /\ (stack = <<>> => parent = <<>>)
      /\ parent' = Append(parent, IF stack = <<>> THEN 0 ELSE Last(stack))
      /\ stack' = Append(stack, Len(parent) + 1)
      /\ UNCHANGED <<pc, cursor, fact, decisions, counted, prerequisite, terminal, enumerationIncomplete, inputComplete>>
  BY DEF OpenNode, evaluationVars
<1>2. ~Finishing /\ cursor = {} /\ ~inputComplete
  BY <1>1 DEF Finishing, Order, Stages, Types
<1> DEFINE len == Len(parent)
           S == 0 .. MaxNodes
<1>3. parent \in Seq(S) /\ len \in Nat /\ len < MaxNodes /\ DOMAIN parent = 1 .. len /\ MaxNodes \in Nat
  <2>1. MaxNodes \in Nat
    BY Bounds
  <2> QED
    BY <1>1, <2>1 DEF Types, Tree
<1>4. PICK x \in S : parent' = Append(parent, x)
  <2>1. 0 \in S
    BY <1>3
  <2>2. stack # <<>> => Last(stack) \in S
    <3>1. stack # <<>> => Last(stack) \in NodeIDs
      BY FrontSet DEF Types
    <3>2. NodeIDs \subseteq S
      BY Bounds
    <3> QED
      BY <3>1, <3>2
  <2> QED
    BY <1>1, <2>1, <2>2
<1>5. /\ parent' \in Seq(S) /\ Len(parent') = len + 1 /\ DOMAIN parent' = 1 .. len + 1
      /\ \A n \in DOMAIN parent : parent'[n] = parent[n]
  <2> HIDE DEF S
  <2> QED
    BY <1>3, <1>4
<1>6. Tree(parent)'
  BY <1>3, <1>5 DEF Tree
<1>7. len + 1 \in NodeIDs /\ DOMAIN parent' = DOMAIN parent \cup {len + 1} /\ len + 1 \notin DOMAIN parent
  BY <1>3, <1>5 DEF NodeIDs
<1>8. stack' \in Seq(NodeIDs) /\ ToSet(stack') = ToSet(stack) \cup {len + 1}
  BY <1>1, <1>7, AppendSet DEF Types
<1>9. Closed' = Closed
  BY <1>7, <1>8 DEF Closed, Nodes
<1>10. Types'
  <2>1. ToSet(stack') \subseteq Nodes'
    BY <1>7, <1>8 DEF Types, Nodes
  <2> QED
    BY <1>1, <1>6, <1>8, <2>1 DEF Types
<1>11. KeepsTree
  BY <1>5, <1>7 DEF KeepsTree
<1>12. Order'
  BY <1>1, <1>2, <1>9 DEF Order, Stages, Pending, Asked, Once, CountedAs, InOrder, Over, Covered, AtClosed, Finishing
<1>13. Aggregates'
  BY <1>1, <1>2, StillNoAggregates
<1>14. Reasons'
  BY <1>1, <1>2, <1>10, <1>11, EarlyGrows, QuietReasons DEF Order
<1> QED
  BY <1>10, <1>12, <1>13, <1>14

\* A refused event preserves the invariant: the session is over.
LEMMA RefuseEventStep ==
  ASSUME Inv, RefuseEvent
  PROVE  Inv'
<1> USE DEF Inv
<1>1. /\ pc = "input" /\ terminal' = TRUE /\ enumerationIncomplete' \in BOOLEAN
      /\ UNCHANGED <<pc, parent, stack, cursor, fact, decisions, counted, prerequisite, inputComplete>>
  BY DEF RefuseEvent, evaluationVars, Types
<1>2. ~Finishing /\ cursor = {} /\ ~inputComplete
  BY <1>1 DEF Finishing, Order, Stages, Types
<1>3. Types'
  BY <1>1 DEF Types, Nodes, Tree
<1>4. Order'
  <2>1. Closed' = Closed
    BY <1>1 DEF Closed, Nodes
  <2>2. Once'
    BY <1>1 DEF Order, Once, CountedAs
  <2> QED
    BY <1>1, <1>2, <2>1, <2>2 DEF Order, Stages, Pending, Asked, InOrder, Over, Covered, AtClosed, Finishing
<1>5. Aggregates'
  BY <1>1, <1>2, StillNoAggregates
<1>6. KeepsTree
  BY <1>1 DEF KeepsTree
<1>7. Reasons'
  BY <1>1, <1>2, <1>3, <1>6, EarlyGrows, QuietReasons DEF Order
<1> QED
  BY <1>3, <1>4, <1>5, <1>7

\* Closing a node preserves the invariant: its pass is due on undecided subjects
\* of closed nodes.
LEMMA CloseNodeStep ==
  ASSUME Inv, NEW childrenComplete \in BOOLEAN, CloseNode(childrenComplete)
  PROVE  Inv'
<1> USE DEF Inv
<1>1. /\ pc = "input" /\ ~terminal /\ stack # <<>> /\ stack' = Front(stack) /\ pc' = "closing"
      /\ enumerationIncomplete' \in BOOLEAN
      /\ UNCHANGED <<parent, fact, decisions, counted, prerequisite, terminal, inputComplete>>
  BY DEF CloseNode, evaluationVars, Types
<1>2. ~Finishing /\ cursor = {} /\ ~inputComplete /\ ~Finishing'
  BY <1>1 DEF Finishing, Order, Stages, Types
<1>3. stack' \in Seq(NodeIDs) /\ ToSet(stack') \subseteq ToSet(stack) /\ Last(stack) \in Nodes
  BY <1>1, FrontSet DEF Types
<1>4. Closed \subseteq Closed'
  BY <1>1, <1>3 DEF Closed, Nodes
<1>5. PICK C : C \subseteq Nodes /\ cursor' = Due(C, Front(stack))
  <2> DEFINE C == IF ~bindsFirst THEN {Last(stack)} ELSE IF Last(stack) = Root THEN Nodes ELSE {}
  <2>1. cursor' = Due(C, Front(stack))
    BY DEF CloseNode
  <2>2. C \subseteq Nodes
    BY <1>3
  <2> HIDE DEF C
  <2> QED
    BY <2>1, <2>2
<1>6. \A s \in cursor' : s \in Subjects /\ decisions'[s] = Undecided /\ Evaluated(s[1], s[2]) /\ s[2] \in Closed'
  <2>1. Nodes \subseteq NodeIDs
    BY TreeNodes DEF Types, Nodes
  <2> QED
    BY <1>1, <1>5, <2>1 DEF Due, Subjects, Closed, Nodes
<1>7. Types'
  BY <1>1, <1>3, <1>6 DEF Types, Nodes, Tree
<1>8. Order'
  <2>1. Stages'
    BY <1>1, <1>2, <1>6 DEF Stages
  <2>2. Pending'
    BY <1>6 DEF Pending
  <2>3. Asked' /\ Once'
    BY <1>1 DEF Order, Asked, Once, CountedAs
  <2>4. InOrder' /\ Covered'
    BY <1>2 DEF InOrder, Covered, Over
  <2>5. AtClosed'
    BY <1>1, <1>4 DEF Order, AtClosed
  <2> QED
    BY <2>1, <2>2, <2>3, <2>4, <2>5 DEF Order
<1>9. Aggregates'
  BY <1>1, <1>2, StillNoAggregates
<1>10. KeepsTree
  BY <1>1 DEF KeepsTree
<1>11. Reasons'
  BY <1>1, <1>2, <1>7, <1>10, EarlyGrows, QuietReasons DEF Order
<1> QED
  BY <1>7, <1>8, <1>9, <1>11

\* The end of an early pass preserves the invariant.
LEMMA EndCloseStep ==
  ASSUME Inv, EndClose
  PROVE  Inv'
<1> USE DEF Inv
<1>1. /\ pc = "closing" /\ pc' = "input" /\ cursor' = {}
      /\ UNCHANGED <<parent, stack, fact, decisions, counted, prerequisite, terminal, enumerationIncomplete, inputComplete>>
  BY DEF EndClose, evaluationVars
<1>2. ~Finishing /\ ~Finishing' /\ ~inputComplete
  BY <1>1 DEF Finishing, Order, Stages, Types
<1>3. Types'
  BY <1>1 DEF Types, Nodes, Tree
<1>4. Order'
  <2>1. Closed' = Closed
    BY <1>1 DEF Closed, Nodes
  <2>2. Asked' /\ Once' /\ AtClosed'
    BY <1>1, <2>1 DEF Order, Asked, Once, CountedAs, AtClosed
  <2> QED
    BY <1>1, <1>2, <2>2 DEF Order, Stages, Pending, InOrder, Over, Covered
<1>5. Aggregates'
  BY <1>1, <1>2, StillNoAggregates
<1>6. KeepsTree
  BY <1>1 DEF KeepsTree
<1>7. Reasons'
  BY <1>1, <1>2, <1>3, <1>6, EarlyGrows, QuietReasons DEF Order
<1> QED
  BY <1>3, <1>4, <1>5, <1>7

\* Finish preserves the invariant: every subject at a closed node is decided or
\* due, and only now may the document be whole.
LEMMA FinishStep ==
  ASSUME Inv, NEW claimsComplete \in BOOLEAN, NEW cause \in BOOLEAN, Finish(claimsComplete, cause)
  PROVE  Inv'
<1> USE DEF Inv
<1>1. /\ pc = "input" /\ pc' = "phases"
      /\ terminal' \in BOOLEAN /\ (terminal => terminal')
      /\ inputComplete' = (claimsComplete /\ parent # <<>> /\ stack = <<>>)
      /\ cursor' = Due(Nodes, stack) \cup (Keys \X {Mark})
      /\ UNCHANGED <<parent, stack, fact, decisions, counted, prerequisite, enumerationIncomplete>>
  BY DEF Finish, evaluationVars, Types
<1>2. ~Finishing /\ Finishing' /\ Closed' = Closed
  BY <1>1 DEF Finishing, Closed, Nodes
<1>3. Nodes \subseteq NodeIDs
  BY TreeNodes DEF Types, Nodes
<1>4. ASSUME NEW s \in cursor', s[2] # Mark
      PROVE  s \in Subjects /\ decisions[s] = Undecided /\ Evaluated(s[1], s[2]) /\ s[2] \in Closed
  <2>1. s \in Due(Nodes, stack)
    BY <1>1, <1>4
  <2> QED
    BY <1>3, <2>1 DEF Due, Subjects, Closed
<1>5. Types'
  <2>1. cursor' \subseteq Subjects \cup (Keys \X {Mark})
    BY <1>1, <1>3 DEF Due, Subjects
  <2> QED
    BY <1>1, <2>1 DEF Types, Nodes, Tree
<1>6. \A p \in Keys : ~Over(p)'
  BY <1>1 DEF Over
<1>7. Order'
  <2>1. Stages'
    BY <1>1, <1>2 DEF Stages
  <2>2. Pending'
    BY <1>1, <1>2, <1>4 DEF Pending
  <2>3. Asked' /\ AtClosed'
    BY <1>1, <1>2 DEF Order, Asked, AtClosed
  <2>4. Once'
    BY <1>1 DEF Order, Once, CountedAs
  <2>5. InOrder'
    BY <1>6 DEF InOrder
  <2>6. Covered'
    <3> SUFFICES ASSUME NEW s \in Subjects, s[2] \in Closed, Evaluated(s[1], s[2]), decisions[s] = Undecided
                 PROVE  s \in cursor'
      BY <1>1, <1>2 DEF Covered
    <3>1. s \in Due(Nodes, stack)
      BY DEF Due, Closed, Subjects
    <3> QED
      BY <1>1, <3>1
  <2> QED
    BY <2>1, <2>2, <2>3, <2>4, <2>5, <2>6 DEF Order
<1>8. Aggregates'
  BY <1>1, <1>2, StillNoAggregates
<1>9. KeepsTree
  BY <1>1 DEF KeepsTree
<1>10. Reasons'
  BY <1>1, <1>2, <1>5, <1>9, EarlyGrows, QuietReasons DEF Order
<1> QED
  BY <1>5, <1>7, <1>8, <1>10

\* The end of a phase preserves the invariant: its rule is decided everywhere.
LEMMA EndPhaseStep ==
  ASSUME Inv, EndPhase
  PROVE  Inv'
<1> USE DEF Inv
<1>1. /\ pc = "phases" /\ ~terminal
      /\ UNCHANGED <<pc, parent, stack, fact, decisions, counted, terminal, enumerationIncomplete, inputComplete>>
  BY DEF EndPhase
<1>2. PICK r \in Keys : /\ <<r, Mark>> \in cursor /\ NextFinal(<<r, Mark>>)
                        /\ prerequisite' = [prerequisite EXCEPT ![r].finalized = TRUE]
                        /\ cursor' = cursor \ {<<r, Mark>>}
  BY DEF EndPhase
<1>3. Finishing /\ Finishing' /\ Closed' = Closed /\ Whole' = Whole /\ Nodes' = Nodes
  BY <1>1 DEF Finishing, Closed, Nodes, Whole
<1>4. \A s \in Subjects : s \in cursor => s \in cursor'
  BY <1>2, Marks
<1>5. \A p \in Keys : Over(p)' <=> Over(p) \/ p = r
  BY <1>2, <1>3 DEF Over
<1>6. /\ \A p \in Keys : prerequisite'[p].ready = prerequisite[p].ready /\ prerequisite'[p].decision = prerequisite[p].decision
      /\ \A p \in Keys : prerequisite'[p].finalized => prerequisite[p].finalized \/ p = r
      /\ \A p \in Keys : prerequisite[p].finalized => prerequisite'[p].finalized
      /\ prerequisite' \in [Keys -> [finalized : BOOLEAN, ready : BOOLEAN, decision : Decisions]]
  BY <1>2 DEF Types
<1>7. Types'
  BY <1>1, <1>2, <1>6 DEF Types, Nodes, Tree
<1>8. Order'
  <2>1. Stages' /\ Pending'
    BY <1>1, <1>2, <1>3 DEF Order, Stages, Pending
  <2>2. Asked' /\ Once' /\ AtClosed'
    BY <1>1, <1>3 DEF Order, Asked, Once, CountedAs, AtClosed
  <2>3. InOrder'
    <3> SUFFICES ASSUME NEW p \in Keys, Over(p)', NEW t \in cursor' PROVE p < t[1]
      BY DEF InOrder
    <3>1. t \in cursor /\ t # <<r, Mark>>
      BY <1>2
    <3>2. CASE Over(p)
      BY <3>1, <3>2 DEF Order, InOrder
    <3>3. CASE p = r
      <4>1. r < t[1] \/ (r = t[1] /\ Mark <= t[2])
        BY <1>2, <3>1 DEF NextFinal
      <4>2. t \in Subjects => t[2] \in NodeIDs /\ ~(Mark <= t[2])
        <5>1. MaxNodes \in Nat
          BY Bounds
        <5> QED
          BY <5>1 DEF Subjects, NodeIDs, Mark
      <4>3. t \in Keys \X {Mark} => t = <<t[1], Mark>>
        OBVIOUS
      <4>4. t \in Subjects \/ t \in Keys \X {Mark}
        BY <3>1 DEF Types
      <4> QED
        BY <3>1, <3>3, <4>1, <4>2, <4>3, <4>4
    <3> QED
      BY <1>5, <3>2, <3>3
  <2>4. Covered'
    BY <1>1, <1>3, <1>4 DEF Order, Covered
  <2> QED
    BY <2>1, <2>2, <2>3, <2>4 DEF Order
<1>9. Aggregates'
  <2>1. Finalized'
    BY <1>5, <1>6 DEF Aggregates, Finalized
  <2>2. Fresh(prerequisite, decisions, Whole)'
    BY <1>1, <1>3, <1>6 DEF Aggregates, Fresh, ScanDocument
  <2> QED
    BY <2>1, <2>2 DEF Aggregates
<1>10. Grows
  BY <1>1, <1>3, <1>5 DEF Grows, KeepsDecisions, KeepsTree, KeepsFinish, KeepsOver
<1>11. Reasons'
  BY <1>1, <1>7, <1>10, QuietReasons DEF Order
<1> QED
  BY <1>7, <1>8, <1>9, <1>11

\* The report preserves the invariant.
LEMMA EndFinishStep ==
  ASSUME Inv, NEW syntaxComplete \in BOOLEAN, NEW ownershipError \in BOOLEAN, EndFinish(syntaxComplete, ownershipError)
  PROVE  Inv'
<1> USE DEF Inv
<1>1. /\ pc = "phases" /\ pc' = "done" /\ (cursor = {} \/ terminal) /\ cursor' = {}
      /\ terminal' \in BOOLEAN /\ (terminal => terminal')
      /\ UNCHANGED <<parent, stack, fact, decisions, counted, prerequisite, enumerationIncomplete, inputComplete>>
  BY DEF EndFinish, evaluationVars, Types
<1>2. Finishing /\ Finishing' /\ Closed' = Closed /\ Whole' = Whole /\ Nodes' = Nodes
  BY <1>1 DEF Finishing, Closed, Nodes, Whole
<1>3. Types'
  BY <1>1 DEF Types, Nodes, Tree
<1>4. Order'
  <2>1. Stages' /\ Pending' /\ InOrder'
    BY <1>1, <1>2 DEF Order, Stages, Pending, InOrder
  <2>2. Asked' /\ AtClosed'
    BY <1>1, <1>2 DEF Order, Asked, AtClosed
  <2>3. Once'
    BY <1>1 DEF Order, Once, CountedAs
  <2>4. Covered'
    BY <1>1, <1>2 DEF Order, Covered
  <2> QED
    BY <2>1, <2>2, <2>3, <2>4 DEF Order
<1>5. \A p \in Keys : Over(p)'
  BY <1>1, <1>2 DEF Over
<1>6. Aggregates'
  <2>1. Finalized'
    BY <1>1, <1>5 DEF Aggregates, Finalized
  <2>2. Fresh(prerequisite, decisions, Whole)'
    BY <1>1, <1>2 DEF Aggregates, Fresh, ScanDocument
  <2> QED
    BY <2>1, <2>2 DEF Aggregates
<1>7. Grows
  BY <1>1, <1>2, <1>5 DEF Grows, KeepsDecisions, KeepsTree, KeepsFinish, KeepsOver
<1>8. Reasons'
  BY <1>1, <1>3, <1>7, QuietReasons DEF Order
<1> QED
  BY <1>3, <1>4, <1>6, <1>8

-----------------------------------------------------------------------------
(* Evaluations.                                                            *)

\* A decision with a basis is a decision.
LEMMA BasisKinds ==
  ASSUME Types, NEW r \in Keys, NEW n \in DOMAIN parent, NEW kind, NEW d, NEW f, Basis(kind, r, n, d, f)
  PROVE  /\ d \in Decisions /\ d # Undecided /\ d.outcome \in Outcomes
         /\ f \in {Undecided, Applies} \cup Selections \cup PlanAnswers
<1>1. f \in {Undecided, Applies} \cup Selections \cup PlanAnswers
  BY DEF Basis
<1>2. f \in (Selections \ {Applies}) \cup PlanAnswers => f \in Decisions /\ f # Undecided /\ f.outcome \in Outcomes
  BY AnswersOfDocument DEF Undecided, Outcomes
<1>3. ASSUME NEW o \in Plain
      PROVE  Decision(o) \in Decisions /\ Decision(o) # Undecided /\ Decision(o).outcome \in Outcomes
  <2>1. Decision(o).outcome = o
    BY DEF Decision
  <2>2. o # "none" /\ o \in Outcomes
    BY DEF Plain, Outcomes
  <2> QED
    BY <2>1, <2>2 DEF Decisions, Undecided
<1>4. ASSUME NEW a \in Answers PROVE a \in Decisions /\ a # Undecided /\ a.outcome \in Outcomes
  <2>1. a.outcome \in {"pass", "unknown", "unsupported", "blocked"}
    BY <1>4, AnswerKinds
  <2>2. a # Undecided /\ a.outcome \in Outcomes
    BY <2>1 DEF Undecided, Outcomes
  <2>3. a.outcome = "blocked" => a \in Decisions
    BY AnswerKinds DEF Decisions, Blocks, Invalid, Causes
  <2>4. a.outcome # "blocked" => a \in Decisions
    BY <1>3, <2>1, AnswerKinds DEF Plain
  <2> QED
    BY <2>2, <2>3, <2>4
<1>5. Now(r, n) \in Answers
  BY GivenIs, WholeType DEF Now, Types
<1>6. Blocks \subseteq Answers /\ "unsupported" \in Plain
  BY DEF Answers, Plain
<1>7. \/ d \in Answers
      \/ \E o \in Plain : d = Decision(o)
      \/ f \in (Selections \ {Applies}) \cup PlanAnswers /\ d = f
  BY <1>5, <1>6 DEF Basis
<1> QED
  BY <1>1, <1>2, <1>3, <1>4, <1>7

\* An evaluation of the subject of rule r and node n.
Evaluates(kind, r, n) ==
  /\ ~terminal /\ <<r, n>> \in cursor /\ cursor' = cursor \ {<<r, n>>}
  /\ UNCHANGED <<pc, parent, stack, enumerationIncomplete, inputComplete>>
  /\ \/ Pauses(kind, <<r, n>>)
     \/ \E d, f : Records(<<r, n>>, d, f) /\ Basis(kind, r, n, d, f)
  /\ kind = "early" => pc = "closing" /\ prerequisite' = prerequisite
  /\ kind = "late" => /\ pc = "phases" /\ \A t \in cursor : r <= t[1]
                      /\ \/ prerequisite' = prerequisite
                         \/ prerequisite' = Aggregated(r) /\ Open(prerequisite, r)

\* What it changes.
Decides(kind, r, n) ==
  \E d, f : /\ Basis(kind, r, n, d, f) /\ decisions'[<<r, n>>] = d /\ fact'[<<r, n>>] = f
            /\ counted'[<<r, n>>] = <<d.outcome>> /\ terminal' = FALSE
Ends(kind, r, n) ==
  /\ decisions'[<<r, n>>] = Undecided
  /\ \/ terminal' = TRUE /\ (counted'[<<r, n>>] = <<>> \/ \E o \in Outcomes : counted'[<<r, n>>] = <<o>>)
     \/ kind = "early" /\ terminal' = FALSE /\ fact'[<<r, n>>] \in {Undecided, Applies} /\ counted'[<<r, n>>] = <<>>

\* What an evaluation leaves alone, and what it does at its own subject.
LEMMA EvaluationFrame ==
  ASSUME Inv, NEW kind \in {"early", "late"}, NEW r \in Keys, NEW n \in NodeIDs, Evaluates(kind, r, n)
  PROVE  /\ n \in DOMAIN parent /\ n \in Closed /\ Evaluated(r, n)
         /\ decisions[<<r, n>>] = Undecided
         /\ \A t \in Subjects : t # <<r, n>> => decisions'[t] = decisions[t] /\ fact'[t] = fact[t] /\ counted'[t] = counted[t]
         /\ decisions' \in [Subjects -> Decisions] /\ counted' \in [Subjects -> Seq(Outcomes)]
         /\ fact' \in [Subjects -> {Undecided, Applies} \cup Selections \cup PlanAnswers]
         /\ Decides(kind, r, n) \/ Ends(kind, r, n)
<1> DEFINE s == <<r, n>>
           A == {Undecided, Applies} \cup Selections \cup PlanAnswers
<1>1. s \in Subjects /\ s[1] = r /\ s[2] = n /\ s[2] # Mark
  BY Marks DEF Subjects
<1>2. decisions[s] = Undecided /\ Evaluated(r, n) /\ n \in Closed
  BY <1>1 DEF Inv, Order, Pending, Evaluates
<1>3. n \in DOMAIN parent
  BY <1>2 DEF Closed, Nodes
<1>4. fact[s] \in {Undecided, Applies} /\ counted[s] = <<>> /\ terminal = FALSE
  BY <1>1, <1>2 DEF Inv, Types, Order, Asked, Once, CountedAs, Evaluates
<1>5. decisions \in [Subjects -> Decisions] /\ counted \in [Subjects -> Seq(Outcomes)] /\ fact \in [Subjects -> A]
  BY DEF Inv, Types
<1> HIDE DEF A
<1>6. CASE Pauses(kind, s)
  <2>1. Applies \in A
    BY DEF A
  <2>2. \A t \in Subjects : t # s => fact'[t] = fact[t]
    BY <1>5, <1>6 DEF Pauses
  <2>3. fact' \in [Subjects -> A] /\ fact'[s] \in {Undecided, Applies}
    BY <1>1, <1>4, <1>5, <1>6, <2>1 DEF Pauses
  <2>4. Ends(kind, r, n)
    BY <1>2, <1>4, <1>6, <2>3 DEF Pauses, Ends
  <2> QED
    BY <1>2, <1>3, <1>5, <1>6, <2>2, <2>3, <2>4 DEF Pauses, A
<1>7. CASE \E d, f : Records(s, d, f) /\ Basis(kind, r, n, d, f)
  <2>1. PICK d, f : Records(s, d, f) /\ Basis(kind, r, n, d, f)
    BY <1>7
  <2>2. d \in Decisions /\ d # Undecided /\ d.outcome \in Outcomes /\ f \in A
    BY <1>3, <2>1, BasisKinds DEF A, Inv
  <2>3. fact' = [fact EXCEPT ![s] = f] /\ counted' = [counted EXCEPT ![s] = Append(@, d.outcome)]
    BY <2>1 DEF Records
  <2>4. fact' \in [Subjects -> A] /\ fact'[s] = f /\ \A t \in Subjects : t # s => fact'[t] = fact[t]
    BY <1>1, <1>5, <2>2, <2>3
  <2>5. counted' \in [Subjects -> Seq(Outcomes)] /\ counted'[s] = <<d.outcome>> /\ \A t \in Subjects : t # s => counted'[t] = counted[t]
    BY <1>1, <1>4, <1>5, <2>2, <2>3
  <2>6. CASE decisions' = decisions /\ terminal' = TRUE
    <3>1. Ends(kind, r, n)
      BY <1>2, <2>2, <2>5, <2>6 DEF Ends
    <3> QED
      BY <1>2, <1>3, <1>5, <2>4, <2>5, <2>6, <3>1 DEF A
  <2>7. CASE decisions' = [decisions EXCEPT ![s] = d] /\ terminal' = FALSE
    <3>1. decisions' \in [Subjects -> Decisions] /\ decisions'[s] = d /\ \A t \in Subjects : t # s => decisions'[t] = decisions[t]
      BY <1>1, <1>5, <2>2, <2>7
    <3>2. Decides(kind, r, n)
      BY <2>1, <2>4, <2>5, <2>7, <3>1 DEF Decides
    <3> QED
      BY <1>2, <1>3, <2>4, <2>5, <3>1, <3>2 DEF A
  <2> QED
    BY <2>1, <2>6, <2>7 DEF Records
<1> QED
  BY <1>6, <1>7 DEF Evaluates

\* An evaluation keeps all decisions, the tree and the phases that are over.
LEMMA EvaluationGrows ==
  ASSUME Inv, NEW kind \in {"early", "late"}, NEW r \in Keys, NEW n \in NodeIDs, Evaluates(kind, r, n)
  PROVE  Grows /\ Finishing' = Finishing /\ Whole' = Whole /\ Closed' = Closed /\ \A p \in Keys : Over(p)' = Over(p)
<1>1. UNCHANGED <<pc, parent, stack, enumerationIncomplete, inputComplete>> /\ <<r, n>> \in cursor /\ cursor' = cursor \ {<<r, n>>}
  BY DEF Evaluates
<1>2. Finishing' = Finishing /\ Whole' = Whole /\ Closed' = Closed
  BY <1>1 DEF Finishing, Whole, Closed, Nodes
<1>3. \A p \in Keys : Over(p)' = Over(p)
  <2>1. <<r, n>> \in Subjects
    BY DEF Subjects
  <2>2. \A p \in Keys : <<p, Mark>> # <<r, n>>
    BY <2>1, Marks
  <2> QED
    BY <1>1, <1>2, <2>2 DEF Over
<1>4. KeepsDecisions
  BY EvaluationFrame DEF KeepsDecisions
<1>5. KeepsTree /\ KeepsFinish
  BY <1>1, <1>2 DEF KeepsTree, KeepsFinish
<1>6. KeepsOver
  <2> SUFFICES ASSUME NEW p \in Keys, Over(p), NEW m \in NodeIDs PROVE decisions'[<<p, m>>] = decisions[<<p, m>>]
    BY <1>3 DEF KeepsOver
  <2>1. p < r
    BY <1>1 DEF Inv, Order, InOrder
  <2>2. <<p, m>> \in Subjects /\ <<p, m>> # <<r, n>>
    <3>1. p \in Nat /\ r \in Nat
      BY Marks
    <3> QED
      BY <2>1, <3>1 DEF Subjects
  <2> QED
    BY <2>2, EvaluationFrame
<1> QED
  BY <1>2, <1>3, <1>4, <1>5, <1>6 DEF Grows

\* Requirements are about earlier rules, which an evaluation does not decide.
LEMMA EvaluationReads ==
  ASSUME Inv, NEW kind \in {"early", "late"}, NEW r \in Keys, NEW n \in NodeIDs, Evaluates(kind, r, n),
         NEW p \in Keys, p < r, NEW m \in NodeIDs
  PROVE  decisions'[<<p, m>>] = decisions[<<p, m>>]
<1>1. p \in Nat /\ r \in Nat
  BY Marks
<1>2. <<p, m>> \in Subjects /\ <<p, m>> # <<r, n>>
  BY <1>1 DEF Subjects
<1> QED
  BY <1>2, EvaluationFrame

\* So it does not change what an aggregate of an earlier rule scans.
LEMMA ScanDocumentStays ==
  ASSUME Inv, NEW kind \in {"early", "late"}, NEW r \in Keys, NEW n \in NodeIDs, Evaluates(kind, r, n),
         NEW p \in Keys, p < r
  PROVE  ScanDocument(decisions, p, Whole)' = ScanDocument(decisions, p, Whole)
<1> DEFINE C == {m \in Nodes : Evaluated(p, m)}
<1>1. C \subseteq NodeIDs
  BY TreeNodes DEF Inv, Types, Nodes
<1>2. \A m \in C : decisions[<<p, m>>] = decisions'[<<p, m>>]
  BY <1>1, EvaluationReads
<1>3. Whole \in BOOLEAN /\ Whole' = Whole /\ parent' = parent
  BY EvaluationGrows, WholeType DEF Inv, Evaluates
<1>4. PICK D, E, w, K : D = decisions /\ E = decisions' /\ w = Whole /\ K = C
  OBVIOUS
<1>5. Scan(D, p, "document", K, w) = Scan(E, p, "document", K, w)
  BY <1>1, <1>2, <1>3, <1>4, ScanReads
<1>6. ScanDocument(decisions, p, Whole) = Scan(D, p, "document", K, w)
  BY <1>4 DEF ScanDocument, Scan
<1>7. ScanDocument(decisions, p, Whole)' = Scan(E, p, "document", K, w)
  BY <1>3, <1>4 DEF ScanDocument, Scan, Nodes
<1> QED
  BY <1>5, <1>6, <1>7

\* The aggregates an evaluation computes are fresh, and stay so.
LEMMA EvaluationAggregates ==
  ASSUME Inv, NEW kind \in {"early", "late"}, NEW r \in Keys, NEW n \in NodeIDs, Evaluates(kind, r, n)
  PROVE  /\ prerequisite' \in [Keys -> [finalized : BOOLEAN, ready : BOOLEAN, decision : Decisions]]
         /\ Aggregates'
<1>1. /\ prerequisite \in [Keys -> [finalized : BOOLEAN, ready : BOOLEAN, decision : Decisions]]
      /\ Finalized /\ Fresh(prerequisite, decisions, Whole)
  BY DEF Inv, Types, Aggregates
<1>2. \A p \in Keys : Over(p)' = Over(p)
  BY EvaluationGrows
<1>3. \A p \in Keys : prerequisite[p].ready => p < r
  BY <1>1 DEF Finalized, Inv, Order, InOrder, Evaluates
<1>4. CASE prerequisite' = prerequisite
  <2>1. Finalized'
    BY <1>1, <1>2, <1>4 DEF Finalized
  <2>2. Fresh(prerequisite, decisions, Whole)'
    <3> SUFFICES ASSUME NEW p \in Keys, prerequisite[p].ready
                 PROVE  prerequisite[p].decision = ScanDocument(decisions, p, Whole)'
      BY <1>4 DEF Fresh
    <3> QED
      BY <1>1, <1>3, ScanDocumentStays DEF Fresh
  <2> QED
    BY <1>1, <1>4, <2>1, <2>2 DEF Aggregates
<1>5. CASE prerequisite' = Aggregated(r) /\ Open(prerequisite, r)
  <2> DEFINE new(p) == [rule |-> p, relation |-> "document"] \in Rules[r].requires /\ ~prerequisite[p].ready
  <2>1. ASSUME NEW p \in Keys
        PROVE  /\ prerequisite'[p].finalized = prerequisite[p].finalized
               /\ new(p) => prerequisite'[p].ready = TRUE /\ prerequisite'[p].decision = ScanDocument(decisions, p, Whole)
               /\ ~new(p) => prerequisite'[p] = prerequisite[p]
    BY <1>1, <1>5 DEF Aggregated
  <2>2. ASSUME NEW p \in Keys, new(p) PROVE p < r /\ prerequisite[p].finalized
    <3>1. PICK d \in Rules[r].requires : d = [rule |-> p, relation |-> "document"]
      BY <2>2
    <3>2. d.rule = p /\ d.relation = "document"
      BY <3>1
    <3> QED
      BY <1>5, <3>2, Requirements DEF Open
  <2>3. ASSUME NEW p \in Keys PROVE ScanDocument(decisions, p, Whole) \in Decisions
    <3>1. {m \in Nodes : Evaluated(p, m)} \subseteq NodeIDs
      BY TreeNodes DEF Inv, Types, Nodes
    <3>2. Scan(decisions, p, "document", {m \in Nodes : Evaluated(p, m)}, Whole) \in Answers
      BY <3>1, ScanAnswers, WholeType DEF Inv, Types
    <3>3. ScanDocument(decisions, p, Whole) \in Answers
      BY <3>2 DEF ScanDocument, Scan
    <3>4. Answers \subseteq Decisions
      <4>1. Blocks \subseteq Invalid
        BY DEF Blocks, Invalid, Causes
      <4> QED
        BY <4>1 DEF Answers, Decisions, Plain
    <3> QED
      BY <3>3, <3>4
  <2>4. prerequisite' \in [Keys -> [finalized : BOOLEAN, ready : BOOLEAN, decision : Decisions]]
    BY <1>1, <1>5, <2>3 DEF Aggregated
  <2> HIDE DEF new
  <2>5. Finalized'
    <3> SUFFICES ASSUME NEW p \in Keys
                 PROVE  /\ prerequisite'[p].finalized => Over(p)'
                        /\ prerequisite'[p].ready => prerequisite'[p].finalized
      BY DEF Finalized
    <3>1. prerequisite[p].finalized => Over(p)
      BY <1>1 DEF Finalized
    <3>2. prerequisite[p].ready => prerequisite[p].finalized
      BY <1>1 DEF Finalized
    <3> QED
      BY <1>2, <2>1, <2>2, <3>1, <3>2
  <2>6. Fresh(prerequisite, decisions, Whole)'
    <3> SUFFICES ASSUME NEW p \in Keys, prerequisite'[p].ready
                 PROVE  prerequisite'[p].decision = ScanDocument(decisions, p, Whole)'
      BY DEF Fresh
    <3>1. CASE new(p)
      BY <2>1, <2>2, <3>1, ScanDocumentStays
    <3>2. CASE ~new(p)
      <4>1. prerequisite[p].ready /\ prerequisite'[p].decision = prerequisite[p].decision
        BY <2>1, <3>2
      <4> QED
        BY <1>1, <1>3, <4>1, ScanDocumentStays DEF Fresh
    <3> QED
      BY <3>1, <3>2
  <2> QED
    BY <2>4, <2>5, <2>6 DEF Aggregates
<1> QED
  BY <1>4, <1>5 DEF Evaluates

\* An evaluation preserves the types and the order of the passes.
LEMMA EvaluationOrder ==
  ASSUME Inv, NEW kind \in {"early", "late"}, NEW r \in Keys, NEW n \in NodeIDs, Evaluates(kind, r, n)
  PROVE  Types' /\ Order'
<1> DEFINE s == <<r, n>>
<1>1. /\ UNCHANGED <<pc, parent, stack, enumerationIncomplete, inputComplete>>
      /\ ~terminal /\ s \in cursor /\ cursor' = cursor \ {s}
      /\ (kind = "early" => pc = "closing")
  BY DEF Evaluates
<1>2. /\ Finishing' = Finishing /\ Closed' = Closed
      /\ \A p \in Keys : Over(p)' = Over(p)
  BY EvaluationGrows
<1>3. /\ n \in Closed /\ Evaluated(r, n) /\ decisions[s] = Undecided
      /\ \A t \in Subjects : t # s => decisions'[t] = decisions[t] /\ fact'[t] = fact[t] /\ counted'[t] = counted[t]
      /\ Decides(kind, r, n) \/ Ends(kind, r, n)
  BY EvaluationFrame
<1>4. s \in Subjects /\ s[1] = r /\ s[2] = n
  BY DEF Subjects
<1>5. terminal' \in BOOLEAN
  BY <1>3 DEF Decides, Ends
<1>6. Decides(kind, r, n) => decisions'[s] # Undecided /\ counted'[s] = <<decisions'[s].outcome>> /\ terminal' = FALSE
  <2> SUFFICES ASSUME Decides(kind, r, n)
               PROVE  decisions'[s] # Undecided /\ counted'[s] = <<decisions'[s].outcome>> /\ terminal' = FALSE
    OBVIOUS
  <2>1. PICK d, f : /\ Basis(kind, r, n, d, f) /\ decisions'[s] = d
                    /\ counted'[s] = <<d.outcome>> /\ terminal' = FALSE
    BY DEF Decides
  <2>2. n \in DOMAIN parent
    BY EvaluationFrame
  <2>3. d # Undecided
    BY <2>1, <2>2, BasisKinds DEF Inv
  <2> QED
    BY <2>1, <2>3
<1>7. Types'
  <2>1. /\ decisions' \in [Subjects -> Decisions] /\ counted' \in [Subjects -> Seq(Outcomes)]
        /\ fact' \in [Subjects -> {Undecided, Applies} \cup Selections \cup PlanAnswers]
    BY EvaluationFrame
  <2>2. prerequisite' \in [Keys -> [finalized : BOOLEAN, ready : BOOLEAN, decision : Decisions]]
    BY EvaluationAggregates
  <2>3. Types
    BY DEF Inv
  <2> QED
    BY <1>1, <1>5, <2>1, <2>2, <2>3 DEF Types, Nodes, Tree
<1>8. Stages'
  BY <1>1, <1>2 DEF Inv, Order, Stages
<1>9. Pending'
  <2> SUFFICES ASSUME NEW t \in cursor', t[2] # Mark
               PROVE  decisions'[t] = Undecided /\ Evaluated(t[1], t[2]) /\ t[2] \in Closed
    BY <1>2 DEF Pending
  <2>1. t \in cursor /\ t # s
    BY <1>1
  <2>2. t \in Subjects
    BY <2>1 DEF Inv, Types
  <2> QED
    BY <1>3, <2>1, <2>2 DEF Inv, Order, Pending
<1>10. Asked'
  <2> SUFFICES ASSUME ~terminal', NEW t \in Subjects, decisions'[t] = Undecided PROVE fact'[t] \in {Undecided, Applies}
    BY DEF Asked
  <2>1. CASE t = s
    BY <1>3, <1>6, <2>1 DEF Ends
  <2>2. CASE t # s
    BY <1>1, <1>3, <2>2 DEF Inv, Order, Asked
  <2> QED
    BY <2>1, <2>2
<1>11. Once'
  <2> SUFFICES ASSUME NEW t \in Subjects PROVE CountedAs(t)'
    BY DEF Once
  <2>1. CASE t = s
    BY <1>3, <1>6, <2>1 DEF Ends, CountedAs
  <2>2. CASE t # s
    <3>1. CountedAs(t)
      BY DEF Inv, Order, Once
    <3> QED
      BY <1>1, <1>3, <2>2, <3>1 DEF CountedAs
  <2> QED
    BY <2>1, <2>2
<1>12. InOrder'
  BY <1>1, <1>2 DEF Inv, Order, InOrder
<1>13. Covered'
  <2> SUFFICES ASSUME Finishing, ~terminal', NEW t \in Subjects, t[2] \in Closed, Evaluated(t[1], t[2])
               PROVE  decisions'[t] # Undecided \/ t \in cursor'
    BY <1>2 DEF Covered
  <2>1. CASE t = s
    <3>1. ~Ends(kind, r, n)
      BY <1>1 DEF Ends, Finishing
    <3> QED
      BY <1>3, <1>6, <2>1, <3>1
  <2>2. CASE t # s
    BY <1>1, <1>3, <2>2 DEF Inv, Order, Covered
  <2> QED
    BY <2>1, <2>2
<1>14. AtClosed'
  <2> SUFFICES ASSUME NEW t \in Subjects, decisions'[t] # Undecided PROVE t[2] \in Closed /\ Evaluated(t[1], t[2])
    BY <1>2 DEF AtClosed
  <2>1. CASE t = s
    BY <1>3, <1>4, <2>1
  <2>2. CASE t # s
    BY <1>3, <2>2 DEF Inv, Order, AtClosed
  <2> QED
    BY <2>1, <2>2
<1> QED
  BY <1>7, <1>8, <1>9, <1>10, <1>11, <1>12, <1>13, <1>14 DEF Order

\* The requirements of an evaluation that does not wait are settled.
LEMMA ReadySettled ==
  ASSUME Inv, NEW kind \in {"early", "late"}, NEW r \in Keys, NEW n \in NodeIDs, Evaluates(kind, r, n), Ready(kind, r, n),
         NEW d \in Rules[r].requires
  PROVE  Settled(d, n)
<1>1. d.rule \in Keys /\ d.rule < r
  BY Requirements
<1>2. CASE kind = "early"
  BY <1>2 DEF Ready, AtOnce, Settled, At
<1>3. CASE kind = "late"
  <2>1. Finishing /\ \A t \in cursor : r <= t[1]
    BY <1>3 DEF Evaluates, Finishing
  <2>2. <<d.rule, Mark>> \notin cursor
    <3>1. d.rule \in Nat /\ r \in Nat
      BY <1>1, Marks
    <3>2. ~(r <= d.rule)
      BY <1>1, <3>1
    <3>3. <<d.rule, Mark>>[1] = d.rule
      OBVIOUS
    <3> QED
      BY <2>1, <3>2, <3>3
  <2> QED
    BY <2>1, <2>2 DEF Settled, Over
<1> QED
  BY <1>2, <1>3

\* What a requirement that stops a rule blocks it with has an origin.
LEMMA AnswerBlames ==
  ASSUME Inv, NEW r \in Keys, NEW n \in DOMAIN parent, NEW q \in Rules[r].requires, NEW c,
         Fails(decisions, q.rule, At(q, n), c)
  PROVE  Origin(c)
<1>1. q.rule \in Keys /\ q.relation \in Relations
  BY Requirements
<1>2. At(q, n) \subseteq NodeIDs
  BY <1>1, Reads DEF At, Inv, Types
<1>3. PICK m \in At(q, n) : decisions[<<q.rule, m>>].outcome \in {"fail", "blocked"} /\ c = blockCause(decisions, <<q.rule, m>>)
  BY DEF Fails
<1>4. PICK t : t = <<q.rule, m>>
  OBVIOUS
<1>5. t \in Subjects /\ decisions[t] \in Decisions /\ decisions[t].outcome \in {"fail", "blocked"} /\ c = blockCause(decisions, t)
  BY <1>1, <1>2, <1>3, <1>4 DEF Subjects, Inv, Types
<1>6. CASE decisions[t].outcome = "fail"
  BY <1>5, <1>6 DEF Origin
<1>7. CASE decisions[t].outcome = "blocked" /\ decisions[t] = fact[t]
  <2>1. fact[t].outcome = "blocked"
    BY <1>7
  <2> QED
    BY <1>5, <1>7, <2>1 DEF Origin
<1>8. CASE decisions[t].outcome = "blocked" /\ Origin(decisions[t].cause)
  <2>1. decisions[t].cause # NoCause
    BY <1>8, OriginsAreCauses DEF Inv
  <2>2. c = decisions[t].cause
    BY <1>5, <1>8, <2>1 DEF blockCause
  <2> QED
    BY <1>8, <2>2
<1> QED
  BY <1>5, <1>6, <1>7, <1>8 DEF Inv, Reasons, BlocksAreTraced

\* A new decision has its reasons.
LEMMA NewReasons ==
  ASSUME Inv, Types', NEW kind \in {"early", "late"}, NEW r \in Keys, NEW n \in NodeIDs, Evaluates(kind, r, n),
         Decides(kind, r, n)
  PROVE  LET s == <<r, n>> IN
         /\ decisions'[s].outcome \in {"pass", "fail"} => Rests(s)'
         /\ decisions'[s].outcome = "blocked" => Traced(s)'
         /\ Grounds(s)'
<1> DEFINE s == <<r, n>>
<1>1. PICK d, f : Basis(kind, r, n, d, f) /\ decisions'[s] = d /\ fact'[s] = f
  BY DEF Decides
<1>2. s \in Subjects /\ s[1] = r /\ s[2] = n /\ n \in DOMAIN parent /\ parent' = parent /\ decisions[s] = Undecided
  BY EvaluationFrame DEF Subjects, Evaluates
<1>3. Grows /\ Whole' = Whole /\ Whole \in BOOLEAN /\ Tree(parent) /\ decisions \in [Subjects -> Decisions] /\ Types
  BY EvaluationGrows, WholeType DEF Inv, Types
<1>4. \A q \in Rules[r].requires : At(q, n)' = At(q, n)
  BY <1>2 DEF At, Read
<1>5. ASSUME NEW q \in Rules[r].requires, NEW m \in At(q, n)
      PROVE  decisions'[<<q.rule, m>>] = decisions[<<q.rule, m>>]
  <2>1. q.rule \in Keys /\ q.relation \in Relations /\ q.rule < r
    BY Requirements
  <2>2. At(q, n) \subseteq NodeIDs
    BY <1>2, <1>3, <2>1, Reads DEF At
  <2> QED
    BY <1>5, <2>1, <2>2, EvaluationReads
<1>6. ASSUME NEW q \in Rules[r].requires
      PROVE  LET a == Answer(parent, decisions, q, n, Whole) IN
             /\ a.outcome = "pass" => Holds(decisions, q.rule, At(q, n)) /\ (q.relation = "document" => Whole)
             /\ a.outcome = "blocked" => Failing(decisions, q.rule, At(q, n)) # {} /\ Fails(decisions, q.rule, At(q, n), a.cause)
  BY <1>2, <1>3, AnswerIs DEF At
<1>7. Now(r, n) \in Answers
  BY <1>2, <1>3, GivenIs DEF Now
<1>8. f \in Selections \ {Applies} => f.outcome \notin {"pass", "fail"}
  BY AnswersOfDocument
<1>9. \A o : Decision(o).outcome = o
  BY DEF Decision
<1>10. ASSUME d.outcome \in {"pass", "fail"} PROVE Rests(s)'
  <2>1. Now(r, n).outcome = "pass"
    <3>1. ~(f \in Selections \ {Applies} /\ d = f) /\ d # Decision("unsupported")
      BY <1>8, <1>9, <1>10
    <3>2. d \notin Blocks
      BY <1>10 DEF Blocks
    <3>3. Now(r, n).outcome # "pass" => d # Now(r, n)
      BY <1>7, <1>10, AnswerKinds
    <3> QED
      BY <1>1, <3>1, <3>2, <3>3 DEF Basis
  <2>2. \A q \in Rules[r].requires : Answer(parent, decisions, q, n, Whole).outcome = "pass"
    BY <1>2, <1>3, <2>1, GivenIs DEF Now
  <2> SUFFICES ASSUME NEW q \in Rules[r].requires
               PROVE  (Holds(decisions, q.rule, At(q, n)) /\ (q.relation = "document" => Whole))'
    BY <1>2 DEF Rests
  <2>3. Holds(decisions, q.rule, At(q, n)) /\ (q.relation = "document" => Whole)
    BY <1>6, <2>2
  <2>4. Holds(decisions, q.rule, At(q, n))'
    BY <1>4, <1>5, <2>3 DEF Holds
  <2> QED
    BY <1>3, <2>3, <2>4
<1>11. ASSUME NEW q \in Rules[r].requires, d = Answer(parent, decisions, q, n, Whole), d.outcome = "blocked", f = Applies
       PROVE  Stopped(s)' /\ Traced(s)'
  <2>1. Failing(decisions, q.rule, At(q, n)) # {} /\ Fails(decisions, q.rule, At(q, n), d.cause)
    BY <1>6, <1>11
  <2>2. (Failing(decisions, q.rule, At(q, n)) # {})'
    BY <1>4, <1>5, <2>1 DEF Failing
  <2>3. Stopped(s)'
    BY <1>1, <1>2, <1>11, <2>2 DEF Stopped
  <2>4. Origin(d.cause)
    BY <1>2, <1>11, <2>1, AnswerBlames
  <2>5. Origin(d.cause)'
    BY <1>3, <2>4, OriginsStay
  <2> QED
    BY <1>1, <1>11, <2>3, <2>5 DEF Traced
<1>12. ASSUME f = Applies, d.outcome = "blocked" PROVE \E q \in Rules[r].requires : d = Answer(parent, decisions, q, n, Whole)
  <2>1. d # Decision("unsupported") /\ f.outcome = "applies"
    BY <1>9, <1>12, AnswersOfDocument
  <2>2. ~(f \in Selections \ {Applies}) /\ f \notin PlanAnswers
    BY <1>12, <2>1, AnswersOfDocument
  <2>3. StoppedBy(decisions, r, n, Whole, d) \/ d = Now(r, n)
    BY <1>1, <2>1, <2>2 DEF Basis
  <2>4. d = Now(r, n) => \E q \in Rules[r].requires : d = Answer(parent, decisions, q, n, Whole)
    BY <1>2, <1>3, <1>12, GivenIs DEF Now
  <2> QED
    BY <2>3, <2>4 DEF StoppedBy
<1>13. ASSUME d.outcome = "blocked" PROVE Traced(s)'
  <2>1. CASE f = Applies
    BY <1>11, <1>12, <1>13, <2>1
  <2>2. CASE f # Applies
    <3>1. d = f
      BY <1>1, <2>2 DEF Basis
    <3> QED
      BY <1>1, <3>1 DEF Traced
  <2> QED
    BY <2>1, <2>2
<1>14. ASSUME Ready(kind, r, n), d.outcome = IF Now(r, n).outcome = "pass" THEN f.outcome ELSE Now(r, n).outcome
       PROVE  Final(s)'
  <2>1. \A q \in Rules[r].requires : Settled(q, n)
    BY <1>14, ReadySettled
  <2>2. \A q \in Rules[r].requires : Settled(q, n)'
    BY <1>2, <1>3, <2>1, SettledStays
  <2>3. Now(r, n)' = Now(r, n)
    BY <1>2, <1>3, <2>1, NowStays
  <2> QED
    BY <1>1, <1>2, <1>14, <2>2, <2>3 DEF Final
<1>15. Grounds(s)'
  <2>1. CASE f \in Selections \ {Applies} /\ d = f
    BY <1>1, <2>1 DEF Grounds
  <2>2. CASE f \notin Selections \ {Applies} /\ ~Rules[r].available /\ d = Decision("unsupported")
    BY <1>1, <1>2, <1>9, <2>2 DEF Grounds
  <2>3. CASE f = Applies /\ Rules[r].available /\ d \in Blocks
    <3>1. d.outcome = "blocked"
      BY <2>3 DEF Blocks
    <3>2. Stopped(s)'
      BY <1>11, <1>12, <2>3, <3>1
    <3> QED
      BY <1>1, <1>2, <2>3, <3>2 DEF Grounds
  <2>4. CASE /\ f = Applies /\ Rules[r].available /\ Ready(kind, r, n)
             /\ Now(r, n).outcome # "pass" /\ d = Now(r, n)
    <3>1. Final(s)'
      BY <1>14, <2>4
    <3> QED
      BY <1>1, <1>2, <2>4, <3>1 DEF Grounds
  <2>5. CASE /\ f \notin Selections \ {Applies} /\ Rules[r].available /\ Ready(kind, r, n)
             /\ Now(r, n).outcome = "pass" /\ d = f
    <3>1. Final(s)'
      BY <1>14, <2>5
    <3> QED
      BY <1>1, <1>2, <2>5, <3>1 DEF Grounds
  <2> QED
    BY <1>1, <2>1, <2>2, <2>3, <2>4, <2>5 DEF Basis
<1> QED
  BY <1>1, <1>10, <1>13, <1>15

\* An evaluation preserves the invariant.
LEMMA EvaluationStep ==
  ASSUME Inv, NEW kind \in {"early", "late"}, NEW r \in Keys, NEW n \in NodeIDs, Evaluates(kind, r, n)
  PROVE  Inv'
<1> DEFINE s == <<r, n>>
<1>1. Types' /\ Order'
  BY EvaluationOrder
<1>2. Aggregates'
  BY EvaluationAggregates
<1>3. Grows
  BY EvaluationGrows
<1>4. /\ \A t \in Subjects : t # s => decisions'[t] = decisions[t]
      /\ Decides(kind, r, n) \/ Ends(kind, r, n)
  BY EvaluationFrame
<1>5. ASSUME NEW t \in Subjects, decisions'[t] # Undecided
      PROVE  /\ decisions'[t].outcome \in {"pass", "fail"} => Rests(t)'
             /\ decisions'[t].outcome = "blocked" => Traced(t)'
             /\ Grounds(t)'
  <2>1. CASE t = s
    <3>1. Decides(kind, r, n)
      BY <1>4, <1>5, <2>1 DEF Ends
    <3> QED
      BY <1>1, <2>1, <3>1, NewReasons
  <2>2. CASE t # s
    <3>1. decisions[t] # Undecided
      BY <1>4, <1>5, <2>2
    <3> QED
      BY <1>1, <1>3, <3>1, ReasonsStay DEF Inv, Order
  <2> QED
    BY <2>1, <2>2
<1>6. \A t \in Subjects : decisions'[t].outcome \in {"pass", "fail", "blocked"} => decisions'[t] # Undecided
  BY DEF Undecided
<1>7. Earned'
  BY <1>5, <1>6 DEF Earned
<1>8. BlocksAreTraced'
  BY <1>5, <1>6 DEF BlocksAreTraced, Traced
<1>9. Grounded'
  BY <1>5 DEF Grounded
<1> QED
  BY <1>1, <1>2, <1>7, <1>8, <1>9 DEF Inv, Reasons

\* What is to be evaluated is undecided, and asked for at most.
LEMMA Evaluable ==
  ASSUME Inv, ~terminal, NEW s \in cursor, s \in Subjects
  PROVE  /\ s[1] \in Keys /\ s[2] \in NodeIDs /\ s = <<s[1], s[2]>> /\ s[2] \in DOMAIN parent
         /\ fact[<<s[1], s[2]>>] \in {Undecided, Applies} /\ terminal = FALSE
         /\ Tree(parent) /\ decisions \in [Subjects -> Decisions] /\ Whole \in BOOLEAN
         /\ MemoTypes(prerequisite) /\ Fresh(prerequisite, decisions, Whole)
<1>1. s[1] \in Keys /\ s[2] \in NodeIDs /\ s = <<s[1], s[2]>> /\ s[2] # Mark
  BY Marks
<1>2. decisions[s] = Undecided /\ s[2] \in Closed
  BY <1>1 DEF Inv, Order, Pending
<1>3. s[2] \in DOMAIN parent
  BY <1>2 DEF Closed, Nodes
<1>4. fact[s] \in {Undecided, Applies}
  BY <1>2 DEF Inv, Order, Asked
<1>5. Tree(parent) /\ decisions \in [Subjects -> Decisions] /\ Whole \in BOOLEAN /\ terminal = FALSE
  BY WholeType DEF Inv, Types
<1>6. MemoTypes(prerequisite) /\ Fresh(prerequisite, decisions, Whole)
  BY DEF Inv, Types, Aggregates, MemoTypes
<1> QED
  BY <1>1, <1>3, <1>4, <1>5, <1>6

\* An evaluation at the close of a node is an early one.
LEMMA EvaluateClosedStep ==
  ASSUME Inv, EvaluateClosed
  PROVE  Inv'
<1>1. /\ pc = "closing" /\ ~terminal
      /\ UNCHANGED <<pc, parent, stack, enumerationIncomplete, inputComplete>>
  BY DEF EvaluateClosed
<1>2. PICK s \in cursor : Evaluate(s, FALSE) /\ cursor' = cursor \ {s}
  BY DEF EvaluateClosed
<1>3. s \in Subjects
  BY <1>1 DEF Inv, Order, Stages
<1>4. PICK r, n : r = s[1] /\ n = s[2]
  OBVIOUS
<1>5. r \in Keys /\ n \in NodeIDs /\ s = <<r, n>> /\ n \in DOMAIN parent
  BY <1>1, <1>3, <1>4, Evaluable
<1>6. /\ prerequisite' = prerequisite
      /\ \/ Pauses("early", <<r, n>>)
         \/ \E d, f : Records(<<r, n>>, d, f) /\ Basis("early", r, n, d, f)
  BY <1>1, <1>2, <1>3, <1>4, <1>5, Evaluable, EarlyStep
<1>7. Evaluates("early", r, n)
  BY <1>1, <1>2, <1>5, <1>6 DEF Evaluates
<1> QED
  BY <1>5, <1>7, EvaluationStep

\* An evaluation in Finish is a late one, after the phases of earlier rules.
LEMMA EvaluateFinalStep ==
  ASSUME Inv, EvaluateFinal
  PROVE  Inv'
<1>1. /\ pc = "phases" /\ ~terminal
      /\ UNCHANGED <<pc, parent, stack, enumerationIncomplete, inputComplete>>
  BY DEF EvaluateFinal
<1>2. PICK s \in cursor : s[2] # Mark /\ NextFinal(s) /\ Evaluate(s, TRUE) /\ cursor' = cursor \ {s}
  BY DEF EvaluateFinal
<1>3. s \in Subjects
  BY <1>2 DEF Inv, Types
<1>4. PICK r, n : r = s[1] /\ n = s[2]
  OBVIOUS
<1>5. r \in Keys /\ n \in NodeIDs /\ s = <<r, n>> /\ n \in DOMAIN parent
  BY <1>1, <1>3, <1>4, Evaluable
<1>6. /\ \/ prerequisite' = prerequisite
         \/ prerequisite' = Aggregated(r) /\ Open(prerequisite, r)
      /\ \/ Pauses("late", <<r, n>>)
         \/ \E d, f : Records(<<r, n>>, d, f) /\ Basis("late", r, n, d, f)
  BY <1>1, <1>2, <1>3, <1>4, <1>5, Evaluable, FinalStep
<1>7. ASSUME NEW t \in cursor PROVE r <= t[1]
  <2>1. r < t[1] \/ r = t[1]
    BY <1>2, <1>4 DEF NextFinal
  <2>2. r \in Nat /\ t[1] \in Nat
    BY <1>5, Marks DEF Inv, Types
  <2> QED
    BY <2>1, <2>2
<1>8. Evaluates("late", r, n)
  BY <1>1, <1>2, <1>5, <1>6, <1>7 DEF Evaluates
<1> QED
  BY <1>5, <1>8, EvaluationStep

-----------------------------------------------------------------------------
(* The theorems.                                                           *)

\* A new session satisfies the invariant.
LEMMA InitInv ==
  ASSUME Init
  PROVE  Inv
<1>1. /\ pc = "input" /\ parent = <<>> /\ stack = <<>> /\ cursor = {}
      /\ terminal = FALSE /\ enumerationIncomplete = FALSE /\ inputComplete = FALSE
      /\ fact = [s \in Subjects |-> Undecided] /\ decisions = [s \in Subjects |-> Undecided]
      /\ counted = [s \in Subjects |-> <<>>]
      /\ prerequisite = [r \in Keys |-> [finalized |-> FALSE, ready |-> FALSE, decision |-> Undecided]]
  BY DEF Init
<1>2. ~Finishing
  BY <1>1 DEF Finishing
<1>3. Types
  <2>1. Tree(parent)
    <3>1. MaxNodes \in Nat
      BY Bounds
    <3> QED
      BY <1>1, <3>1 DEF Tree
  <2>2. stack \in Seq(NodeIDs) /\ ToSet(stack) \subseteq Nodes
    BY <1>1 DEF ToSet
  <2>3. fact \in [Subjects -> {Undecided, Applies} \cup Selections \cup PlanAnswers] /\ decisions \in [Subjects -> Decisions]
    BY <1>1 DEF Decisions
  <2>4. counted \in [Subjects -> Seq(Outcomes)]
    BY <1>1
  <2>5. prerequisite \in [Keys -> [finalized : BOOLEAN, ready : BOOLEAN, decision : Decisions]]
    BY <1>1 DEF Decisions
  <2> QED
    BY <1>1, <2>1, <2>2, <2>3, <2>4, <2>5 DEF Types
<1>4. Order
  BY <1>1, <1>2 DEF Order, Stages, Pending, Asked, Once, CountedAs, InOrder, Over, Covered, AtClosed
<1>5. Aggregates
  BY <1>1 DEF Aggregates, Finalized, Fresh
<1>6. Reasons
  <2>1. \A s \in Subjects : decisions[s] = Undecided /\ decisions[s].outcome = "none"
    BY <1>1 DEF Undecided
  <2> QED
    BY <2>1 DEF Reasons, Earned, BlocksAreTraced, Grounded
<1> QED
  BY <1>3, <1>4, <1>5, <1>6 DEF Inv

\* A stuttering step preserves the invariant.
LEMMA StutterInv ==
  ASSUME Inv, UNCHANGED vars
  PROVE  Inv'
<1>1. UNCHANGED <<pc, parent, stack, cursor, fact, decisions, counted, prerequisite, terminal, enumerationIncomplete, inputComplete>>
  BY DEF vars
<1>2. Finishing' = Finishing /\ Closed' = Closed /\ Whole' = Whole /\ Nodes' = Nodes
  BY <1>1 DEF Finishing, Closed, Nodes, Whole
<1>3. Types'
  BY <1>1, <1>2 DEF Inv, Types, Tree
<1>4. \A p \in Keys : Over(p)' = Over(p)
  BY <1>1, <1>2 DEF Over
<1>5. Order'
  BY <1>1, <1>2, <1>4 DEF Inv, Order, Stages, Pending, Asked, Once, CountedAs, InOrder, Covered, AtClosed
<1>6. Aggregates'
  BY <1>1, <1>2, <1>4 DEF Inv, Aggregates, Finalized, Fresh, ScanDocument
<1>7. Grows
  BY <1>1, <1>2, <1>4 DEF Grows, KeepsDecisions, KeepsTree, KeepsFinish, KeepsOver
<1>8. Reasons'
  BY <1>1, <1>3, <1>7, QuietReasons DEF Inv, Order
<1> QED
  BY <1>3, <1>5, <1>6, <1>8 DEF Inv

\* The inductive invariant: in every reachable state each decision is cached once
\* with grounds that no later step of either pass can change, the aggregates are
\* what a scan would find now, and in Finish every subject is decided or still
\* due (record, dependencies, documentPrerequisite).
THEOREM EvaluationInductive == Spec => []Inv
<1>1. Init => Inv
  BY InitInv
<1>2. Inv /\ [Next]_vars => Inv'
  <2> SUFFICES ASSUME Inv, [Next]_vars PROVE Inv'
    OBVIOUS
  <2>1. CASE OpenNode
    BY <2>1, OpenNodeStep
  <2>2. CASE RefuseEvent
    BY <2>2, RefuseEventStep
  <2>3. CASE \E childrenComplete \in BOOLEAN : CloseNode(childrenComplete)
    BY <2>3, CloseNodeStep
  <2>4. CASE EvaluateClosed
    BY <2>4, EvaluateClosedStep
  <2>5. CASE EndClose
    BY <2>5, EndCloseStep
  <2>6. CASE \E claimsComplete, cause \in BOOLEAN : Finish(claimsComplete, cause)
    BY <2>6, FinishStep
  <2>7. CASE EvaluateFinal
    BY <2>7, EvaluateFinalStep
  <2>8. CASE EndPhase
    BY <2>8, EndPhaseStep
  <2>9. CASE \E syntaxComplete, ownershipError \in BOOLEAN : EndFinish(syntaxComplete, ownershipError)
    BY <2>9, EndFinishStep
  <2>10. CASE UNCHANGED vars
    BY <2>10, StutterInv
  <2> QED
    BY <2>1, <2>2, <2>3, <2>4, <2>5, <2>6, <2>7, <2>8, <2>9, <2>10 DEF Next
<1> QED
  BY <1>1, <1>2, PTL DEF Spec

\* The invariant justifies every decision.
LEMMA InvJustifies ==
  ASSUME Inv
  PROVE  DecisionsJustified
<1>1. CountedOnce
  <2> SUFFICES ASSUME NEW s \in Subjects
               PROVE  Len(counted[s]) <= 1 /\ (decisions[s] # Undecided => counted[s] = <<decisions[s].outcome>>)
    BY DEF CountedOnce
  <2>1. CountedAs(s)
    BY DEF Inv, Order, Once
  <2>2. counted[s] = <<>> \/ \E o : counted[s] = <<o>>
    BY <2>1 DEF CountedAs
  <2>3. Len(counted[s]) <= 1
    <3>1. CASE counted[s] = <<>>
      <4>1. Len(counted[s]) = 0
        BY <3>1
      <4> QED
        BY <4>1
    <3>2. CASE \E o : counted[s] = <<o>>
      <4>1. PICK o : counted[s] = <<o>>
        BY <3>2
      <4>2. Len(counted[s]) = 1
        BY <4>1
      <4> QED
        BY <4>2
    <3> QED
      BY <2>2, <3>1, <3>2
  <2> QED
    BY <2>1, <2>3 DEF CountedAs
<1>2. VerdictsAreEarned
  <2> SUFFICES ASSUME NEW s \in Subjects, decisions[s].outcome \in {"pass", "fail"}, NEW d \in Rules[s[1]].requires
               PROVE  /\ \A t \in Required(d, s[2]) : decisions[t].outcome \in {"pass", "not-applicable"}
                      /\ \E t \in Required(d, s[2]) : decisions[t].outcome = "pass"
                      /\ d.relation = "document" => Whole
    BY DEF VerdictsAreEarned
  <2>1. Holds(decisions, d.rule, At(d, s[2])) /\ (d.relation = "document" => Whole)
    BY DEF Inv, Reasons, Earned, Rests
  <2>2. d.relation \in Relations
    BY Requirements, Marks
  <2>3. Required(d, s[2]) = {<<d.rule, m>> : m \in At(d, s[2])}
    <3>1. CASE d.relation = "same-node"
      BY <3>1 DEF Required, At, Read
    <3>2. CASE d.relation = "parent"
      <4>1. At(d, s[2]) = {parent[s[2]]} \ {0} /\ Required(d, s[2]) = {<<d.rule, parent[s[2]]>>}
        BY <3>2 DEF Required, At, Read
      <4>2. At(d, s[2]) # {}
        BY <2>1 DEF Holds
      <4>3. At(d, s[2]) = {parent[s[2]]}
        BY <4>1, <4>2
      <4> QED
        BY <4>1, <4>3
    <3>3. CASE d.relation = "document"
      BY <3>3 DEF Required, At, Read, Nodes
    <3> QED
      BY <2>2, <3>1, <3>2, <3>3 DEF Relations
  <2> QED
    BY <2>1, <2>3 DEF Holds
<1> QED
  BY <1>1, <1>2 DEF DecisionsJustified, Inv, Reasons

\* For every schedule and every document, each subject is counted at most once, a
\* verdict rests on prerequisites that hold, and a rule that prerequisites block
\* names a failure or what invalid evidence named (record, dependency,
\* scanPrerequisite).
THEOREM DecisionsAreJustified == Spec => []DecisionsJustified
<1>1. Inv => DecisionsJustified
  BY InvJustifies
<1> QED
  BY <1>1, EvaluationInductive, PTL

-----------------------------------------------------------------------------
(* The verdict.                                                            *)

\* The report that ends Finish is sound.
LEMMA VerdictStep ==
  ASSUME Inv, NEW syntaxComplete \in BOOLEAN, NEW ownershipError \in BOOLEAN, EndFinish(syntaxComplete, ownershipError)
  PROVE  VerdictIsSound'
<1>1. /\ (cursor = {} \/ terminal) /\ pc = "phases" /\ UNCHANGED <<parent, stack, decisions, counted, enumerationIncomplete, inputComplete>>
      /\ terminal' = (terminal \/ ownershipError)
  BY DEF EndFinish, evaluationVars
<1> DEFINE all(normative) == \A r \in Keys, n \in Nodes :
                               Evaluated(r, n) /\ (Rules[r].normative \/ ~normative) =>
                                 decisions[<<r, n>>].outcome \in {"pass", "not-applicable"}
           unresolvedInput == ~inputComplete \/ ~syntaxComplete
<1>2. \A r \in Keys : Rules[r].normative \in BOOLEAN
  <2> DEFINE S == [scope : {"node", "document"}, normative : BOOLEAN, available : BOOLEAN,
                   final : BOOLEAN, requires : SUBSET [rule : Nat, relation : Relations]]
  <2>1. Rules \in Seq(S)
    BY ScheduleAssumption
  <2>2. \A x \in S : x.normative \in BOOLEAN
    OBVIOUS
  <2> HIDE DEF S
  <2>3. \A r \in Keys : Rules[r] \in S
    BY <2>1 DEF Keys
  <2> QED
    BY <2>2, <2>3
<1>3. ASSUME ~terminal, inputComplete, NEW r \in Keys, NEW n \in Nodes, Evaluated(r, n),
             ~Counted(Rules[r].normative, {"fail"}), ~Counted(Rules[r].normative, Unresolved)
      PROVE  decisions[<<r, n>>].outcome \in {"pass", "not-applicable"}
  <2>1. <<r, n>> \in Subjects
    BY TreeNodes DEF Inv, Types, Nodes, Subjects
  <2>2. n \in Closed
    <3>1. stack = <<>>
      BY <1>3 DEF Inv, Order, Stages
    <3> QED
      BY <3>1 DEF Closed, ToSet
  <2>3. decisions[<<r, n>>] # Undecided
    <3>1. Finishing /\ cursor = {}
      BY <1>1, <1>3 DEF Finishing
    <3> QED
      BY <1>3, <2>1, <2>2, <3>1 DEF Inv, Order, Covered
  <2>4. counted[<<r, n>>] = <<decisions[<<r, n>>].outcome>>
    BY <2>1, <2>3 DEF Inv, Order, Once, CountedAs
  <2>5. ToSet(counted[<<r, n>>]) = {decisions[<<r, n>>].outcome}
    BY <2>4 DEF ToSet
  <2>6. decisions[<<r, n>>].outcome \notin {"fail"} /\ decisions[<<r, n>>].outcome \notin Unresolved
    BY <1>3, <2>1, <2>5 DEF Counted
  <2>7. decisions[<<r, n>>].outcome \in {"none", "blocked"} \cup Plain /\ decisions[<<r, n>>].outcome # "none"
    BY <2>1, <2>3, DecisionKinds DEF Inv, Types
  <2> QED
    BY <2>6, <2>7 DEF Plain, Unresolved
<1>4. Conformance(unresolvedInput) \in {"violated", "undetermined", "conformant"}
  BY DEF Conformance
<1>5. ASSUME Conformance(unresolvedInput) = "conformant"
      PROVE  all(TRUE) /\ stack = <<>> /\ Nodes # {} /\ ~terminal /\ inputComplete /\ ~Counted(TRUE, {"fail"}) /\ ~Counted(TRUE, Unresolved)
  <2>1. ~Counted(TRUE, {"fail"}) /\ ~Counted(TRUE, Unresolved) /\ ~terminal /\ inputComplete
    BY <1>5 DEF Conformance
  <2>2. stack = <<>> /\ parent # <<>>
    BY <2>1 DEF Inv, Order, Stages
  <2>3. Nodes # {}
    <3> DEFINE S == 0 .. MaxNodes
    <3>1. parent \in Seq(S)
      BY DEF Inv, Types, Tree
    <3> HIDE DEF S
    <3>2. Len(parent) \in Nat /\ Len(parent) # 0 /\ DOMAIN parent = 1 .. Len(parent)
      BY <2>2, <3>1
    <3>3. 1 \in 1 .. Len(parent)
      BY <3>2
    <3> QED
      BY <3>2, <3>3 DEF Nodes
  <2>4. all(TRUE)
    BY <1>2, <1>3, <2>1
  <2> QED
    BY <2>1, <2>2, <2>3, <2>4
<1>6. Conformance(unresolvedInput) = "violated" <=> Counted(TRUE, {"fail"})
  BY DEF Conformance
<1>7. report'.conformance = IF ownershipError /\ Conformance(unresolvedInput) # "violated" THEN "undetermined" ELSE Conformance(unresolvedInput)
  BY DEF EndFinish
<1>8. ASSUME report'.satisfied PROVE report'.complete /\ all(FALSE)
  <2>1. /\ Conformance(unresolvedInput) = "conformant" /\ report'.complete
        /\ ~Counted(FALSE, {"fail"}) /\ ~Counted(FALSE, Unresolved)
    BY <1>8 DEF EndFinish
  <2> QED
    BY <1>2, <1>3, <1>5, <2>1
<1>9. Counted(TRUE, {"fail"}) <=> \E s \in Subjects : Rules[s[1]].normative /\ "fail" \in ToSet(counted[s])
  <2>1. \A s \in Subjects : Rules[s[1]].normative \in BOOLEAN
    BY <1>2, Marks
  <2> QED
    BY <2>1 DEF Counted
<1>10. Nodes' = Nodes
  BY <1>1 DEF Nodes
<1>11. report'.conformance = "conformant" => all(TRUE) /\ stack = <<>> /\ Nodes # {} /\ ~terminal'
  BY <1>1, <1>5, <1>7
<1>12. report'.conformance = "violated" <=> \E s \in Subjects : Rules[s[1]].normative /\ "fail" \in ToSet(counted[s])
  BY <1>4, <1>6, <1>7, <1>9
<1> QED
  BY <1>1, <1>8, <1>10, <1>11, <1>12 DEF VerdictIsSound

\* For every schedule and every document, a conformant report saw the whole input
\* and decided every normative rule at every node with success, a satisfied one
\* every rule, and a report is violated exactly if a normative failure was
\* counted (reportAccumulator.finish, Satisfied).
THEOREM VerdictsAreSound == Spec => []VerdictIsSound
<1>1. Init => VerdictIsSound
  BY DEF Init, VerdictIsSound
<1>2. Inv /\ VerdictIsSound /\ [Next]_vars => VerdictIsSound'
  <2> SUFFICES ASSUME Inv, VerdictIsSound, [Next]_vars PROVE VerdictIsSound'
    OBVIOUS
  <2>1. CASE \E syntaxComplete, ownershipError \in BOOLEAN : EndFinish(syntaxComplete, ownershipError)
    BY <2>1, VerdictStep
  <2>2. CASE UNCHANGED vars
    BY <2>2 DEF VerdictIsSound, vars, Nodes
  <2>3. CASE Next /\ ~\E syntaxComplete, ownershipError \in BOOLEAN : EndFinish(syntaxComplete, ownershipError)
    <3>1. pc' # "done"
      <4>1. pc \in {"input", "closing", "phases", "done"}
        BY DEF Inv, Types
      <4> QED
        BY <2>3, <4>1 DEF Next, OpenNode, RefuseEvent, CloseNode, EvaluateClosed, EndClose, Finish, EvaluateFinal, EndPhase
    <3> QED
      BY <3>1 DEF VerdictIsSound
  <2> QED
    BY <2>1, <2>2, <2>3
<1> QED
  BY <1>1, <1>2, EvaluationInductive, PTL DEF Spec

-----------------------------------------------------------------------------
(* The reference.                                                          *)

\* Induction, as a fact about sets.
LEMMA Induction ==
  ASSUME NEW S, 0 \in S, \A n \in Nat : n \in S => n + 1 \in S
  PROVE  Nat \subseteq S
<1> SUFFICES ASSUME Nat \ S # {} PROVE FALSE
  OBVIOUS
<1>1. PICK x \in Nat \ S : \A y \in Nat \ S : x <= y
  BY LeastElement
<1>2. x # 0 /\ x - 1 \in Nat /\ x - 1 \notin Nat \ S
  BY <1>1
<1> QED
  BY <1>1, <1>2

\* The first n phases of the reference, from a session that decided nothing.
Nothing == [s \in Subjects |-> Undecided]
Phases(g, n) == g = [i \in 0 .. n |-> IF i = 0 THEN Nothing ELSE Phase(g[i - 1], i)]

\* A function with these phases exists for every n.
LEMMA PhasesExist ==
  ASSUME NEW n \in Nat
  PROVE  \E g : Phases(g, n)
<1> DEFINE S == {k \in Nat : \E g : Phases(g, k)}
<1>1. 0 \in S
  <2> DEFINE g == [i \in 0 .. 0 |-> Nothing]
  <2>1. \A i \in 0 .. 0 : i = 0
    OBVIOUS
  <2>2. Phases(g, 0)
    BY <2>1 DEF Phases
  <2> QED
    BY <2>2
<1>2. ASSUME NEW k \in Nat, k \in S PROVE k + 1 \in S
  <2>1. PICK g : Phases(g, k)
    BY <1>2
  <2> DEFINE h == [i \in 0 .. k + 1 |-> IF i = k + 1 THEN Phase(g[k], k + 1) ELSE g[i]]
  <2>2. ASSUME NEW i \in 0 .. k + 1 PROVE h[i] = IF i = 0 THEN Nothing ELSE Phase(h[i - 1], i)
    <3>1. CASE i = k + 1
      <4>1. k \in 0 .. k + 1 /\ k # k + 1 /\ i # 0 /\ i - 1 = k
        BY <3>1
      <4>2. h[k] = g[k]
        BY <4>1
      <4> QED
        BY <3>1, <4>1, <4>2
    <3>2. CASE i # k + 1
      <4>1. i \in 0 .. k /\ h[i] = g[i]
        BY <3>2
      <4>2. g[i] = IF i = 0 THEN Nothing ELSE Phase(g[i - 1], i)
        BY <2>1, <4>1 DEF Phases
      <4>3. i # 0 => i - 1 \in 0 .. k + 1 /\ i - 1 # k + 1
        BY <4>1
      <4>4. i # 0 => h[i - 1] = g[i - 1]
        BY <4>3
      <4> QED
        BY <4>1, <4>2, <4>4
    <3> QED
      BY <3>1, <3>2
  <2>3. h = [i \in 0 .. k + 1 |-> h[i]]
    OBVIOUS
  <2> HIDE DEF h
  <2>4. Phases(h, k + 1)
    BY <2>2, <2>3 DEF Phases
  <2> QED
    BY <2>4
<1> HIDE DEF S
<1>3. Nat \subseteq S
  BY <1>1, <1>2, Induction
<1> QED
  BY <1>3 DEF S

\* What the definition of the reference says.
LEMMA AfterIs ==
  /\ after[0] = Nothing
  /\ \A r \in Keys : after[r] = Phase(after[r - 1], r)
<1>1. Len(Rules) \in Nat
  BY Bounds
<1>2. \E g : Phases(g, Len(Rules))
  BY <1>1, PhasesExist
<1>3. after = CHOOSE g : Phases(g, Len(Rules))
  BY DEF after, Phases, Nothing
<1>4. Phases(after, Len(Rules))
  BY <1>2, <1>3
<1>5. after = [i \in 0 .. Len(Rules) |-> IF i = 0 THEN Nothing ELSE Phase(after[i - 1], i)]
  BY <1>4 DEF Phases
<1>6. \A i \in 0 .. Len(Rules) : after[i] = IF i = 0 THEN Nothing ELSE Phase(after[i - 1], i)
  BY <1>5
<1>7. 0 \in 0 .. Len(Rules) /\ \A r \in Keys : r \in 0 .. Len(Rules) /\ r # 0
  BY <1>1 DEF Keys
<1> QED
  BY <1>6, <1>7

\* The decisions D of the reference, and the session's, on the rules up to r.
Agrees(D, r) ==
  /\ D \in [Subjects -> Decisions]
  /\ \A s \in Subjects : s[1] <= r => D[s].outcome = decisions[s].outcome
  /\ \A s \in Subjects : s[1] > r => D[s] = Undecided

\* The grounds of a decision are what the reference decides by.
LEMMA DecideAgrees ==
  ASSUME Inv, NEW r \in Keys, NEW n \in DOMAIN parent, NEW D, Agrees(D, r - 1), decisions[<<r, n>>] # Undecided
  PROVE  Decide(D, <<r, n>>) \in Decisions /\ Decide(D, <<r, n>>).outcome = decisions[<<r, n>>].outcome
<1> DEFINE s == <<r, n>>
           x == Decide(D, s)
           g == Given(parent, D, r, n, Whole)
<1>1. /\ Tree(parent) /\ decisions \in [Subjects -> Decisions] /\ Whole \in BOOLEAN
      /\ D \in [Subjects -> Decisions] /\ s \in Subjects
  BY WholeType, TreeNodes DEF Inv, Types, Agrees, Subjects
<1>2. decisions[s].outcome \in Plain \cup {"blocked"}
  BY <1>1, DecisionKinds
<1>3. Grounds(s) /\ s[1] = r /\ s[2] = n
  BY <1>1 DEF Inv, Reasons, Grounded
<1>4. \A o \in Plain : Decision(o) \in Decisions /\ Decision(o).outcome = o
  BY DEF Decisions, Decision
<1>5. fact[s] \in {Undecided, Applies} \/ fact[s] \in Decisions
  <2>1. fact[s] \in {Undecided, Applies} \cup Selections \cup PlanAnswers
    BY <1>1 DEF Inv, Types
  <2> QED
    BY <2>1, AnswersOfDocument
<1>6. g.outcome = Now(r, n).outcome
  <2>1. r \in Nat
    BY Bounds DEF Keys
  <2>2. \A t \in Subjects : t[1] \in Nat
    BY Bounds DEF Subjects, Keys
  <2>3. \A t \in Subjects : t[1] < r => D[t].outcome = decisions[t].outcome
    <3> SUFFICES ASSUME NEW t \in Subjects, t[1] < r PROVE D[t].outcome = decisions[t].outcome
      OBVIOUS
    <3>1. t[1] <= r - 1
      BY <2>1, <2>2
    <3> QED
      BY <3>1 DEF Agrees
  <2> QED
    BY <1>1, <2>3, GivenOutcome DEF Now
<1>7. g \in Answers /\ Now(r, n) \in Answers
  BY <1>1, GivenIs DEF Now
<1>8. CASE fact[s] \in Selections \ {Applies}
  <2>1. x = fact[s]
    BY <1>1, <1>8, DecideIs
  <2>2. fact[s] \in Decisions
    BY <1>8, AnswersOfDocument
  <2>3. decisions[s] = fact[s]
    BY <1>3, <1>8 DEF Grounds
  <2> QED
    BY <2>1, <2>2, <2>3
<1>9. CASE fact[s] \notin Selections \ {Applies} /\ ~Rules[r].available
  <2>1. x = Decision("unsupported")
    BY <1>1, <1>9, DecideIs
  <2>2. decisions[s].outcome = "unsupported"
    BY <1>3, <1>9 DEF Grounds
  <2> QED
    BY <1>4, <2>1, <2>2 DEF Plain
<1>10. CASE fact[s] \notin Selections \ {Applies} /\ Rules[r].available
  <2>1. x = IF g.outcome = "pass" THEN fact[s] ELSE g
    BY <1>1, <1>10, DecideIs
  <2> HIDE DEF g, x
  <2>2. g \in Answers => (g.outcome # "pass" => g \in Decisions)
    BY AnswerKinds DEF Answers, Decisions, Plain, Decision, Blocks, Invalid, Causes
  <2>3. CASE Stopped(s)
    <3>1. decisions[s].outcome = "blocked"
      BY <2>3 DEF Stopped
    <3>2. PICK d \in Rules[r].requires : Failing(decisions, d.rule, At(d, n)) # {}
      BY <1>3, <2>3 DEF Stopped
    <3>3. Answer(parent, decisions, d, n, Whole).outcome = "blocked"
      BY <1>1, <3>2, AnswerIs DEF At
    <3>4. Now(r, n).outcome = "blocked"
      BY <1>1, <3>3, GivenIs DEF Now
    <3> QED
      BY <1>6, <1>7, <2>1, <2>2, <3>1, <3>4 DEF x
  <2>4. CASE Final(s)
    <3>1. decisions[s].outcome = IF Now(r, n).outcome = "pass" THEN fact[s].outcome ELSE Now(r, n).outcome
      BY <1>3, <2>4 DEF Final
    <3>2. CASE g.outcome = "pass"
      <4>1. fact[s].outcome \in Plain \cup {"blocked"}
        BY <1>2, <1>6, <3>1, <3>2
      <4>2. fact[s] # Undecided /\ fact[s] # Applies
        BY <4>1, AnswersOfDocument DEF Plain, Undecided
      <4> QED
        BY <1>5, <1>6, <2>1, <3>1, <3>2, <4>2 DEF x
    <3>3. CASE g.outcome # "pass"
      BY <1>6, <1>7, <2>1, <2>2, <3>1, <3>3 DEF x
    <3> QED
      BY <3>2, <3>3
  <2> QED
    BY <1>3, <1>10, <2>3, <2>4 DEF Grounds
<1> QED
  BY <1>8, <1>9, <1>10

\* In a finished session each phase of the reference decides what the session did.
LEMMA PhaseAgrees ==
  ASSUME Inv, pc = "done", ~terminal, NEW r \in Keys, NEW D, Agrees(D, r - 1)
  PROVE  Agrees(Phase(D, r), r)
<1> DEFINE here(s) == s[1] = r /\ s[2] \in Closed /\ Evaluated(r, s[2])
<1>1. D \in [Subjects -> Decisions]
  BY DEF Agrees
<1>2. Phase(D, r) = [s \in Subjects |-> IF here(s) THEN Decide(D, s) ELSE D[s]]
  BY DEF Phase
<1>3. r \in Nat /\ \A s \in Subjects : s[1] \in Nat
  BY Bounds DEF Keys, Subjects
<1>4. ASSUME NEW s \in Subjects, here(s)
      PROVE  Decide(D, s) \in Decisions /\ Decide(D, s).outcome = decisions[s].outcome
  <2>1. cursor = {} /\ Finishing
    BY DEF Inv, Order, Stages, Finishing
  <2>2. decisions[s] # Undecided
    BY <1>4, <2>1 DEF Inv, Order, Covered
  <2>3. s = <<r, s[2]>> /\ s[2] \in DOMAIN parent
    BY <1>4 DEF Subjects, Closed, Nodes
  <2>4. PICK n : n = s[2]
    OBVIOUS
  <2>5. Decide(D, <<r, n>>) \in Decisions /\ Decide(D, <<r, n>>).outcome = decisions[<<r, n>>].outcome
    BY <2>2, <2>3, <2>4, DecideAgrees
  <2> QED
    BY <2>3, <2>4, <2>5
<1>5. ASSUME NEW s \in Subjects, s[1] = r, ~here(s) PROVE D[s].outcome = decisions[s].outcome
  <2>1. decisions[s] = Undecided
    BY <1>5 DEF Inv, Order, AtClosed
  <2>2. s[1] > r - 1
    BY <1>3, <1>5
  <2>3. D[s] = Undecided
    BY <2>2 DEF Agrees
  <2> QED
    BY <2>1, <2>3
<1>6. ASSUME NEW s \in Subjects PROVE (s[1] <= r <=> s[1] = r \/ s[1] <= r - 1) /\ (s[1] > r => s[1] > r - 1 /\ s[1] # r)
  BY <1>3
<1> HIDE DEF here
<1>7. Phase(D, r) \in [Subjects -> Decisions]
  BY <1>1, <1>2, <1>4
<1>8. ASSUME NEW s \in Subjects, s[1] <= r PROVE Phase(D, r)[s].outcome = decisions[s].outcome
  <2>1. CASE here(s)
    BY <1>2, <1>4, <2>1
  <2>2. CASE ~here(s) /\ s[1] = r
    BY <1>2, <1>5, <2>2
  <2>3. CASE ~here(s) /\ s[1] <= r - 1
    BY <1>2, <2>3 DEF Agrees
  <2> QED
    BY <1>6, <1>8, <2>1, <2>2, <2>3
<1>9. ASSUME NEW s \in Subjects, s[1] > r PROVE Phase(D, r)[s] = Undecided
  <2>1. ~here(s) /\ s[1] > r - 1
    BY <1>6, <1>9 DEF here
  <2> QED
    BY <1>2, <2>1 DEF Agrees
<1> QED
  BY <1>7, <1>8, <1>9 DEF Agrees

\* The invariant gives the agreement, rule by rule in the order of the schedule.
LEMMA InvAgrees ==
  ASSUME Inv
  PROVE  EarlyDecisionsAgree
<1> SUFFICES ASSUME pc = "done", ~terminal
             PROVE  \A s \in Subjects : decisions[s].outcome = Reference[s].outcome
  BY DEF EarlyDecisionsAgree
<1>1. Len(Rules) \in Nat /\ Keys = 1 .. Len(Rules) /\ \A s \in Subjects : s[1] \in 1 .. Len(Rules)
  BY Bounds DEF Keys, Subjects
<1> DEFINE S == {r \in Nat : r <= Len(Rules) => Agrees(after[r], r)}
<1>2. 0 \in S
  <2>1. Nothing \in [Subjects -> Decisions]
    BY DEF Nothing, Decisions
  <2>2. \A s \in Subjects : Nothing[s] = Undecided /\ ~(s[1] <= 0)
    BY <1>1 DEF Nothing
  <2>3. Agrees(Nothing, 0)
    BY <2>1, <2>2 DEF Agrees
  <2> QED
    BY <2>3, AfterIs
<1>3. ASSUME NEW r \in Nat, r \in S PROVE r + 1 \in S
  <2> SUFFICES ASSUME r + 1 <= Len(Rules) PROVE Agrees(after[r + 1], r + 1)
    OBVIOUS
  <2>1. r + 1 \in Keys /\ (r + 1) - 1 = r /\ r <= Len(Rules)
    BY <1>1
  <2>2. Agrees(after[r], r)
    BY <1>3, <2>1
  <2>3. PICK k, D : k = r + 1 /\ D = after[r]
    OBVIOUS
  <2>4. k \in Keys /\ Agrees(D, k - 1) /\ after[k] = Phase(D, k)
    BY <2>1, <2>2, <2>3, AfterIs
  <2>5. Agrees(Phase(D, k), k)
    BY <2>4, PhaseAgrees
  <2> QED
    BY <2>3, <2>4, <2>5
<1> HIDE DEF S
<1>4. Nat \subseteq S
  BY <1>2, <1>3, Induction
<1>5. Agrees(after[Len(Rules)], Len(Rules))
  BY <1>1, <1>4 DEF S
<1>6. \A s \in Subjects : s[1] <= Len(Rules)
  BY <1>1
<1> QED
  BY <1>5, <1>6 DEF Agrees, Reference

\* For every schedule and every document, a session that finished without a
\* terminal cause decided every subject as one pass in the order of the schedule
\* over the finished document would: what was decided when a node closed is not
\* premature, and a memoized aggregate is not stale (evaluateRule, dependencies,
\* documentPrerequisite).
THEOREM EarlyDecisionsAreFinal == Spec => []EarlyDecisionsAgree
<1>1. Inv => EarlyDecisionsAgree
  BY InvAgrees
<1> QED
  BY <1>1, EvaluationInductive, PTL

=============================================================================
