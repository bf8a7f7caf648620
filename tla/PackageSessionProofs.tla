------------------------ MODULE PackageSessionProofs -----------------------
(***************************************************************************)
(* The four properties of PackageSession, for every package, catalog order *)
(* and number of documents.                                                *)
(*                                                                         *)
(* The invariant says why each decision stands: Justified makes it the one *)
(* its decided requirements and the evidence lead to, Counted ties it to   *)
(* the report, Early says that nothing but a pass, a failure or an         *)
(* inapplicability is decided before the boundary is sealed, and Prompt    *)
(* that nothing the evidence decides is left.  Two facts carry the proof.  *)
(* Evidence only grows (Later), and a check that is decisive before the    *)
(* seal is the same on all later evidence (CheckStays), which is what the  *)
(* roles' waiting for the sealed members is for.  And justified decisions  *)
(* are unique, because the catalog order puts requirements first           *)
(* (DecisionsAgree): whatever calls led here, they agree with one pass     *)
(* over all the evidence.                                                  *)
(*                                                                         *)
(* A pass is a recursive function over the order; what it leaves is shown  *)
(* with the least step at which it fails (Induction), once for all passes. *)
(***************************************************************************)
EXTENDS PackageSession, FiniteSetTheorems, WellFoundedInduction, TLAPS


-----------------------------------------------------------------------------
(* The inductive invariant                                                  *)

Outcomes == Decisive \cup {"unknown", "blocked"}
Roles == {"score", "part", "unknown"}

\* The evidence a boundary can hold; nothing is observed before it is opened.
EvidenceOK(e) ==
  /\ e \in [open : BOOLEAN, sealed : BOOLEAN, complete : BOOLEAN,
            members : {"open", "complete", "partial"},
            entries : SUBSET (Paths \cup {"container", "mimetype"}), late : BOOLEAN,
            mimetype : {None, "exact", "padded", "partial"},
            rootfile : {None} \cup [path : Paths, resource : Resources \cup {None}, entry : BOOLEAN],
            roles : {None} \cup [members : SUBSET Contexts, table : [Contexts -> Roles], scope : BOOLEAN],
            expansion : [Contexts -> {None, "open", "complete", "partial"}]]
  /\ ~e.open => ~e.sealed /\ e.entries = {} /\ e.rootfile = None /\ e.roles = None

\* A session's decisions and the outcomes it has counted.
Typed(st) == st \in [terminal : BOOLEAN, decisions : [Rules -> Outcomes \cup {None}],
                     recorded : [Rules -> Seq(Outcomes)], kept : Nat]

\* Every decision is the one its requirements and the evidence lead to, and
\* its requirements are decided.
Justified(known, e) ==
  \A r \in Rules : known[r] # None =>
    /\ HasSubject(r, e)
    /\ \A q \in Requires[r] : known[q] # None
    /\ known[r] = Decide(r, known, e)

\* A decision is counted once; an outcome whose decision could not be kept
\* was the last thing the session counted.
Counted(st) ==
  \A r \in Rules :
    IF st.decisions[r] # None THEN st.recorded[r] = <<st.decisions[r]>>
    ELSE st.recorded[r] = <<>> \/ (st.terminal /\ Len(st.recorded[r]) = 1)

PassOK(st, e) == Typed(st) /\ Justified(st.decisions, e) /\ Counted(st)

\* Only what no later evidence can change has been decided.
Early(st) == \A r \in Rules : st.decisions[r] \in Decisive \cup {None}

\* The unconditional rules of P that the evidence decides have been decided.
Prompt(st, e, P) ==
  ~st.terminal => \A r \in Rules \cap P :
    HasSubject(r, e) /\ Requires[r] = {} /\ Check(r, e) \in Decisive => st.decisions[r] # None

\* Every rule of P that has a subject has been decided.
Settled(st, e, P) ==
  ~st.terminal => \A r \in Rules \cap P : HasSubject(r, e) => st.decisions[r] # None

DecisionsOK ==
  /\ PassOK(Session, ev)
  /\ phase # "finished" => Prompt(Session, ev, PackageRules)
  /\ phase # "finished" /\ ~ev.sealed => Early(Session)
  /\ phase = "finished" => Settled(Session, ev, PackageRules)

\* Who holds what: the snapshots, the account and the session's own charge.
Live == {r \in Resources : snapshot[r] # "closed"}
OwnersOK ==
  /\ snapshot \in [Resources -> {"caller", "package", "closed"}]
  /\ retained \in Nat /\ (phase = "new" => retained = 0)
  /\ usage = retained + Cardinality(Live)

\* The documents the bundle relies on are required.
RequiredOK ==
  /\ required \subseteq Resources
  /\ rootDoc \in required \cup {None}
  /\ ev.rootfile # None => ev.rootfile.resource \in required \cup {None}

\* What finish returned, and what it left.
FinishedOK ==
  phase = "finished" =>
    /\ bundle = Satisfied(enumerationComplete(terminal), recorded)
    /\ retained = 0 /\ Owned = {}

SessionInv ==
  /\ given \in Inputs /\ phase \in {"new", "running", "finished"}
  /\ failure \in BOOLEAN
  /\ EvidenceOK(ev) /\ DecisionsOK /\ OwnersOK /\ RequiredOK /\ FinishedOK

-----------------------------------------------------------------------------
(* Rules and what they decide                                               *)

\* What the assumptions say of a given package and its rules.
LEMMA Catalog ==
  ASSUME given \in Inputs
  PROVE  /\ Order \in Seq(PackageRules) /\ Len(Order) \in Nat /\ DOMAIN Order = 1..Len(Order)
         /\ Rules \subseteq PackageRules
         /\ Rules = {Order[i] : i \in 1..Len(Order)}
         /\ \A r \in Rules : Requires[r] \subseteq Rules /\ Requires[r] \subseteq BoundaryRules
         /\ \A i \in 1..Len(Order) : Requires[Order[i]] \subseteq {Order[k] : k \in 1..(i - 1)}
<1>1. /\ Order \in Seq(PackageRules)
      /\ \A n \in DOMAIN Order : Requires[Order[n]] \subseteq {Order[k] : k \in 1..(n - 1)}
      /\ Requires \in [PackageRules -> SUBSET BoundaryRules]
  BY CatalogAssumption DEF Order
<1> DEFINE S == PackageRules
<1> HIDE DEF S
<1>2. Order \in Seq(S)
  BY <1>1 DEF S
<1>3. Len(Order) \in Nat /\ DOMAIN Order = 1..Len(Order) /\ \A i \in 1..Len(Order) : Order[i] \in S
  BY <1>2
<1>4. Rules = {Order[i] : i \in 1..Len(Order)}
  BY <1>3 DEF Rules
<1>5. Rules \subseteq S
  BY <1>3, <1>4
<1>6. ASSUME NEW i \in 1..Len(Order) PROVE {Order[k] : k \in 1..(i - 1)} \subseteq Rules
  <2>1. 1..(i - 1) \subseteq 1..Len(Order)
    BY <1>3
  <2> QED
    BY <1>4, <2>1
<1>7. \A r \in Rules : Requires[r] \subseteq Rules /\ Requires[r] \subseteq BoundaryRules
  <2> SUFFICES ASSUME NEW r \in Rules
               PROVE  Requires[r] \subseteq Rules /\ Requires[r] \subseteq BoundaryRules
    OBVIOUS
  <2>1. PICK i \in 1..Len(Order) : r = Order[i]
    BY <1>4
  <2>2. Requires[r] \subseteq Rules
    BY <1>1, <1>3, <1>6, <2>1
  <2>3. r \in PackageRules
    BY <1>5 DEF S
  <2> QED
    BY <1>1, <2>2, <2>3
<1> QED
  BY <1>1, <1>3, <1>4, <1>5, <1>7 DEF S

\* Not there is not a string.
LEMMA NoneIs ==
  /\ None \notin Outcomes /\ None \notin PackageRules /\ None \notin Resources
  /\ None \notin {"exact", "padded", "partial", "open", "complete"}
BY CatalogAssumption DEF Outcomes

\* Every check gives an outcome, and the first score's role decides it.
LEMMA CheckKinds ==
  ASSUME NEW e, EvidenceOK(e), NEW r \in PackageRules
  PROVE  Check(r, e) \in Outcomes
<1>1. firstScore(e) \in Outcomes \/ e.roles = None
  <2> SUFFICES ASSUME e.roles # None PROVE firstScore(e) \in Outcomes
    OBVIOUS
  <2> DEFINE firsts == {c \in Admitted(e) : e.rootfile # None /\ ResourceOf(c) = e.rootfile.resource
                                                              /\ PathOf(c) = e.rootfile.path}
             c0 == CHOOSE c \in firsts : TRUE
             role == IF Cardinality(firsts) = 1 /\ firsts \subseteq e.roles.members
                       THEN RoleOf(e, c0) ELSE "unknown"
  <2>1. role \in Roles
    <3> SUFFICES ASSUME Cardinality(firsts) = 1, firsts \subseteq e.roles.members
                 PROVE  RoleOf(e, c0) \in Roles
      BY DEF Roles
    <3>1. firsts # {}
      BY FS_EmptySet
    <3>2. c0 \in e.roles.members
      BY <3>1
    <3>3. e.roles \in [members : SUBSET Contexts, table : [Contexts -> Roles], scope : BOOLEAN]
      BY DEF EvidenceOK
    <3> HIDE DEF c0
    <3> QED
      BY <3>2, <3>3 DEF RoleOf
  <2>2. firstScore(e) = [score |-> "pass", part |-> "fail", unknown |-> "unknown"][role]
    BY DEF firstScore
  <2> HIDE DEF role
  <2> QED
    BY <2>1, <2>2 DEF Roles, Outcomes, Decisive
<1>2. scoreBeforeParts(e) \in Outcomes
  BY <1>1 DEF scoreBeforeParts, RolesUsable, Outcomes, Decisive
<1>3. containerPath(e) \in Outcomes
  BY DEF containerPath, Outcomes, Decisive
<1>4. mimetypeAdvice(e) \in Outcomes
  BY DEF mimetypeAdvice, Outcomes, Decisive
<1>5. packagePrefixDecision(e) \in Outcomes
  BY DEF packagePrefixDecision, Outcomes, Decisive
<1>6. rootfileDecision(e) \in Outcomes
  BY DEF rootfileDecision, Outcomes, Decisive
<1> QED
  BY <1>2, <1>3, <1>4, <1>5, <1>6 DEF Check, PackageRules, BoundaryRules

\* ... and so does every decision.
LEMMA DecideKinds ==
  ASSUME NEW e, EvidenceOK(e), NEW r \in PackageRules, NEW known
  PROVE  Decide(r, known, e) \in Outcomes
<1>1. prerequisites(r, known) \in {"unknown", "pass", "blocked"}
  BY DEF prerequisites
<1> QED
  BY <1>1, CheckKinds DEF Decide, Outcomes

\* The prerequisites read the required rules only.
LEMMA PrerequisitesSame ==
  ASSUME NEW r, NEW k1, NEW k2, \A q \in Requires[r] : k1[q] = k2[q]
  PROVE  prerequisites(r, k1) = prerequisites(r, k2)
<1>1. {k1[q] : q \in Requires[r]} = {k2[q] : q \in Requires[r]}
  OBVIOUS
<1> QED
  BY <1>1 DEF prerequisites

\* ... and so does a decision.
LEMMA DecideSame ==
  ASSUME NEW r, NEW k1, NEW k2, NEW e, \A q \in Requires[r] : k1[q] = k2[q]
  PROVE  Decide(r, k1, e) = Decide(r, k2, e)
BY PrerequisitesSame DEF Decide

\* A decisive outcome has its requirements decided and is the rule's own check.
LEMMA DecisiveIs ==
  ASSUME NEW r, NEW known, NEW e, Decide(r, known, e) \in Decisive
  PROVE  /\ prerequisites(r, known) = "pass" /\ Decide(r, known, e) = Check(r, e)
         /\ \A q \in Requires[r] : known[q] # None
<1>1. prerequisites(r, known) = "pass"
  BY DEF Decide, prerequisites, Decisive
<1>2. None \notin {known[q] : q \in Requires[r]}
  BY <1>1 DEF prerequisites
<1> QED
  BY <1>1, <1>2 DEF Decide

\* Without requirements the check decides.
LEMMA Unconditional ==
  ASSUME NEW r, NEW known, NEW e, Requires[r] = {}
  PROVE  Decide(r, known, e) = Check(r, e)
<1>1. {known[q] : q \in Requires[r]} = {}
  OBVIOUS
<1>2. prerequisites(r, known) = "pass"
  BY <1>1 DEF prerequisites
<1> QED
  BY <1>2 DEF Decide

-----------------------------------------------------------------------------
(* One rule of a pass                                                       *)

\* The session when a rule's step is refused, when its outcome was counted
\* and its decision could not be kept, and when it was recorded.
Halted(st) == [st EXCEPT !.terminal = TRUE]
Lost(st, r, d) == [st EXCEPT !.terminal = TRUE, !.recorded[r] = Append(@, d)]
Kept(st, r, d) ==
  [st EXCEPT !.decisions[r] = d, !.recorded[r] = Append(@, d), !.kept = @ + 1]

\* The four ways to try a rule: nothing to record, stopped before it is
\* counted, stopped after it is counted, recorded.
LEMMA TriedKinds ==
  ASSUME NEW st, NEW r, NEW rules, NEW e, NEW final \in BOOLEAN, NEW cut
  PROVE  \/ /\ Tried(st, r, rules, e, final, cut) = st
            /\ \/ st.terminal \/ r \notin rules \/ st.decisions[r] # None \/ ~HasSubject(r, e)
               \/ ~final /\ Decide(r, st.decisions, e) \notin Decisive
         \/ /\ ~st.terminal /\ r \in rules /\ st.decisions[r] = None /\ HasSubject(r, e)
            /\ final \/ Decide(r, st.decisions, e) \in Decisive
            /\ \/ /\ cut = <<r, "step">>
                  /\ Tried(st, r, rules, e, final, cut) = Halted(st)
               \/ /\ cut = <<r, "cache">>
                  /\ Tried(st, r, rules, e, final, cut) =
                       Lost(st, r, Decide(r, st.decisions, e))
               \/ Tried(st, r, rules, e, final, cut) =
                    Kept(st, r, Decide(r, st.decisions, e))
<1> DEFINE d == Decide(r, st.decisions, e)
<1>1. CASE st.terminal \/ r \notin rules \/ st.decisions[r] # None \/ ~HasSubject(r, e)
  BY <1>1 DEF Tried
<1>2. CASE ~(st.terminal \/ r \notin rules \/ st.decisions[r] # None \/ ~HasSubject(r, e))
  <2>1. Tried(st, r, rules, e, final, cut) = recordPrepared(st, r, d, final, cut)
    BY <1>2 DEF Tried
  <2> HIDE DEF d
  <2>2. CASE ~final /\ d \notin Decisive
    <3>1. recordPrepared(st, r, d, final, cut) = st
      BY <2>2 DEF recordPrepared
    <3> QED
      BY <2>1, <2>2, <3>1 DEF d
  <2>3. CASE (final \/ d \in Decisive) /\ cut = <<r, "step">>
    <3>1. recordPrepared(st, r, d, final, cut) = Halted(st)
      BY <2>3 DEF recordPrepared, Halted
    <3> QED
      BY <1>2, <2>1, <2>3, <3>1 DEF d
  <2>4. CASE (final \/ d \in Decisive) /\ cut = <<r, "cache">>
    <3>1. recordPrepared(st, r, d, final, cut)
            = Lost(st, r, d)
      BY <2>4 DEF recordPrepared, Lost
    <3> QED
      BY <1>2, <2>1, <2>4, <3>1 DEF d
  <2>5. CASE (final \/ d \in Decisive) /\ cut # <<r, "step">> /\ cut # <<r, "cache">>
    <3>1. recordPrepared(st, r, d, final, cut)
            = Kept(st, r, d)
      BY <2>5 DEF recordPrepared, Kept
    <3> QED
      BY <1>2, <2>1, <2>5, <3>1 DEF d
  <2> QED
    BY <2>2, <2>3, <2>4, <2>5
<1> QED
  BY <1>1, <1>2

\* The fields of a session.
LEMMA Fields ==
  ASSUME NEW st, Typed(st)
  PROVE  /\ st = [terminal |-> st.terminal, decisions |-> st.decisions,
                  recorded |-> st.recorded, kept |-> st.kept]
         /\ st.terminal \in BOOLEAN /\ st.decisions \in [Rules -> Outcomes \cup {None}]
         /\ st.recorded \in [Rules -> Seq(Outcomes)] /\ st.kept \in Nat
BY DEF Typed

\* Recording a rule whose requirements are decided keeps every decision
\* justified: no decided rule requires it.
LEMMA JustifiedMore ==
  ASSUME given \in Inputs, NEW e, NEW known \in [Rules -> Outcomes \cup {None}], Justified(known, e),
         NEW r \in Rules, known[r] = None, HasSubject(r, e),
         \A q \in Requires[r] : known[q] # None
  PROVE  Justified([known EXCEPT ![r] = Decide(r, known, e)], e)
<1> DEFINE more == [known EXCEPT ![r] = Decide(r, known, e)]
<1>1. more[r] = Decide(r, known, e) /\ \A q \in Rules : q # r => more[q] = known[q]
  OBVIOUS
<1> HIDE DEF more
<1>2. \A q \in Requires[r] : q \in Rules /\ q # r
  BY Catalog
<1>3. Decide(r, more, e) = Decide(r, known, e)
  <2>1. \A q \in Requires[r] : more[q] = known[q]
    BY <1>1, <1>2
  <2> QED
    BY <2>1, DecideSame
<1>4. ASSUME NEW s \in Rules, more[s] # None, s # r
      PROVE  HasSubject(s, e) /\ (\A q \in Requires[s] : more[q] # None) /\ more[s] = Decide(s, more, e)
  <2>1. known[s] # None /\ more[s] = known[s]
    BY <1>1, <1>4
  <2>2. HasSubject(s, e) /\ (\A q \in Requires[s] : known[q] # None) /\ known[s] = Decide(s, known, e)
    BY <2>1 DEF Justified
  <2>3. \A q \in Requires[s] : more[q] = known[q]
    BY <1>1, <2>2, Catalog
  <2>4. Decide(s, more, e) = Decide(s, known, e)
    BY <2>3, DecideSame
  <2> QED
    BY <2>1, <2>2, <2>3, <2>4
<1>5. (\A q \in Requires[r] : more[q] # None) /\ more[r] = Decide(r, more, e)
  BY <1>1, <1>2, <1>3
<1>6. Justified(more, e)
  BY <1>4, <1>5 DEF Justified
<1> QED
  BY <1>6 DEF more

\* The requirements of a rule that is about to be decided for good have been
\* decided.
Ready(st, r, final) == final /\ ~st.terminal => \A q \in Requires[r] : st.decisions[q] # None

\* What trying a rule leaves and what it adds.
LEMMA TryStep ==
  ASSUME given \in Inputs, NEW st, NEW e, EvidenceOK(e), PassOK(st, e), NEW r \in Rules, NEW rules,
         NEW final \in BOOLEAN, NEW cut, HasSubject(r, e) /\ r \in rules => Ready(st, r, final)
  PROVE  LET t == Tried(st, r, rules, e, final, cut) IN
         /\ PassOK(t, e)
         /\ \A q \in Rules : st.decisions[q] # None => t.decisions[q] # None
         /\ st.terminal => t.terminal
         /\ ~t.terminal /\ r \in rules /\ HasSubject(r, e)
              /\ (final \/ Decide(r, st.decisions, e) \in Decisive) => t.decisions[r] # None
         /\ ~final /\ Early(st) => Early(t)
         /\ cut = <<None, None>> => t.terminal = st.terminal
<1> DEFINE t == Tried(st, r, rules, e, final, cut)
           d == Decide(r, st.decisions, e)
<1>1. r \in PackageRules /\ d \in Outcomes /\ None \notin Outcomes /\ None \notin PackageRules
  BY Catalog, DecideKinds, NoneIs
<1>2. Typed(st) /\ Justified(st.decisions, e) /\ Counted(st)
  BY DEF PassOK
<1>6. /\ st = [terminal |-> st.terminal, decisions |-> st.decisions,
               recorded |-> st.recorded, kept |-> st.kept]
      /\ st.terminal \in BOOLEAN /\ st.decisions \in [Rules -> Outcomes \cup {None}]
      /\ st.recorded \in [Rules -> Seq(Outcomes)] /\ st.kept \in Nat
  BY <1>2, Fields
<1> DEFINE Goal ==
         /\ PassOK(t, e)
         /\ \A q \in Rules : st.decisions[q] # None => t.decisions[q] # None
         /\ st.terminal => t.terminal
         /\ ~t.terminal /\ r \in rules /\ HasSubject(r, e)
              /\ (final \/ d \in Decisive) => t.decisions[r] # None
         /\ ~final /\ Early(st) => Early(t)
         /\ cut = <<None, None>> => t.terminal = st.terminal
<1>3. ASSUME t = st,
             \/ st.terminal \/ r \notin rules \/ st.decisions[r] # None \/ ~HasSubject(r, e)
             \/ ~final /\ d \notin Decisive
      PROVE  Goal
  <2> HIDE DEF t, d
  <2> QED
    BY <1>3
<1>4. ASSUME ~st.terminal, r \in rules, st.decisions[r] = None, HasSubject(r, e),
             final \/ d \in Decisive,
             \/ /\ cut = <<r, "step">> /\ t = Halted(st)
             \/ /\ cut = <<r, "cache">>
                /\ t = Lost(st, r, d)
             \/ t = Kept(st, r, d)
      PROVE  Goal
  <2>0. st.recorded[r] = <<>>
    BY <1>2, <1>4 DEF Counted
  <2>1. \A q \in Requires[r] : st.decisions[q] # None
    BY <1>4, DecisiveIs DEF Ready
  <2> HIDE DEF t, d
  <2>2. Append(st.recorded[r], d) = <<d>> /\ <<d>> \in Seq(Outcomes) /\ Len(<<d>>) = 1
    BY <1>1, <2>0
  <2>3. CASE cut = <<r, "step">> /\ t = Halted(st)
    <3>1. t = [terminal |-> TRUE, decisions |-> st.decisions, recorded |-> st.recorded, kept |-> st.kept]
      BY <1>6, <2>3 DEF Halted
    <3>2. Typed(t) /\ t.terminal = TRUE /\ t.decisions = st.decisions /\ t.recorded = st.recorded
      BY <1>2, <3>1, Fields DEF Typed
    <3>3. Counted(t)
      BY <1>2, <3>2 DEF Counted
    <3>4. cut # <<None, None>>
      BY <1>1, <2>3
    <3>5. ~final /\ Early(st) => Early(t)
      BY <3>2 DEF Early
    <3> QED
      BY <1>2, <3>2, <3>3, <3>4, <3>5 DEF PassOK
  <2>4. CASE cut = <<r, "cache">> /\ t = Lost(st, r, d)
    <3>1. t = [terminal |-> TRUE, decisions |-> st.decisions,
               recorded |-> [st.recorded EXCEPT ![r] = <<d>>], kept |-> st.kept]
      BY <1>6, <2>2, <2>4 DEF Lost
    <3>2. /\ t.terminal = TRUE /\ t.decisions = st.decisions
          /\ t.recorded = [st.recorded EXCEPT ![r] = <<d>>] /\ t.kept = st.kept
      BY <3>1
    <3>3. t.recorded \in [Rules -> Seq(Outcomes)] /\ t.recorded[r] = <<d>>
          /\ \A q \in Rules : q # r => t.recorded[q] = st.recorded[q]
      BY <1>2, <2>2, <3>2, Fields
    <3>4. Typed(t)
      BY <1>2, <3>1, <3>3, Fields DEF Typed
    <3>5. Counted(t)
      BY <1>2, <1>4, <2>2, <3>2, <3>3 DEF Counted
    <3>6. cut # <<None, None>>
      BY <1>1, <2>4
    <3>7. ~final /\ Early(st) => Early(t)
      BY <3>2 DEF Early
    <3> QED
      BY <1>2, <3>2, <3>4, <3>5, <3>6, <3>7 DEF PassOK
  <2>5. CASE t = Kept(st, r, d)
    <3>1. t = [terminal |-> st.terminal, decisions |-> [st.decisions EXCEPT ![r] = d],
               recorded |-> [st.recorded EXCEPT ![r] = <<d>>], kept |-> st.kept + 1]
      BY <1>6, <2>2, <2>5 DEF Kept
    <3>2. /\ t.terminal = st.terminal /\ t.decisions = [st.decisions EXCEPT ![r] = d]
          /\ t.recorded = [st.recorded EXCEPT ![r] = <<d>>] /\ t.kept = st.kept + 1
      BY <3>1
    <3>3. t.recorded \in [Rules -> Seq(Outcomes)] /\ t.recorded[r] = <<d>>
          /\ \A q \in Rules : q # r => t.recorded[q] = st.recorded[q]
      BY <1>2, <2>2, <3>2, Fields
    <3>4. t.decisions \in [Rules -> Outcomes \cup {None}] /\ t.decisions[r] = d
          /\ \A q \in Rules : q # r => t.decisions[q] = st.decisions[q]
      BY <1>1, <1>2, <3>2, Fields
    <3>5. Typed(t)
      <4>1. st.kept + 1 \in Nat /\ st.terminal \in BOOLEAN
        BY <1>2, Fields
      <4> QED
        BY <3>1, <3>2, <3>3, <3>4, <4>1 DEF Typed
    <3>6. Counted(t)
      BY <1>1, <1>2, <3>2, <3>3, <3>4 DEF Counted
    <3>7. Justified(t.decisions, e)
      <4>1. Justified([st.decisions EXCEPT ![r] = Decide(r, st.decisions, e)], e)
        BY <1>2, <1>4, <1>6, <2>1, JustifiedMore
      <4> QED
        BY <3>2, <4>1 DEF d
    <3>8. ~final /\ Early(st) => Early(t)
      BY <1>4, <3>4 DEF Early
    <3> QED
      BY <1>1, <3>2, <3>4, <3>5, <3>6, <3>7, <3>8 DEF PassOK
  <2> QED
    BY <1>4, <2>3, <2>4, <2>5
<1>5. Goal
  <2>1. \/ /\ t = st
           /\ \/ st.terminal \/ r \notin rules \/ st.decisions[r] # None \/ ~HasSubject(r, e)
              \/ ~final /\ d \notin Decisive
        \/ /\ ~st.terminal /\ r \in rules /\ st.decisions[r] = None /\ HasSubject(r, e)
           /\ final \/ d \in Decisive
           /\ \/ /\ cut = <<r, "step">> /\ t = Halted(st)
              \/ /\ cut = <<r, "cache">>
                 /\ t = Lost(st, r, d)
              \/ t = Kept(st, r, d)
    BY TriedKinds
  <2> HIDE DEF Goal, t, d
  <2> QED
    BY <1>3, <1>4, <2>1
<1> QED
  BY <1>5

-----------------------------------------------------------------------------
(* A pass                                                                   *)

\* A nonempty set of numbers has a least element.
LEMMA LeastElement ==
  ASSUME NEW T, T \subseteq Nat, T # {}
  PROVE  \E x \in T : \A y \in T : x <= y
<1> DEFINE R == OpToRel(<, Nat)
<1>1. IsWellFoundedOn(R, Nat)
  BY NatLessThanWellFounded
<1>2. \A x, y \in Nat : x < y => <<x, y>> \in R
  BY DEF OpToRel
<1> HIDE DEF R
<1>3. PICK x \in T : \A y \in T : <<y, x>> \notin R
  BY <1>1, WFMin
<1>4. ASSUME NEW y \in T PROVE x <= y
  <2>1. x \in Nat /\ y \in Nat
    BY <1>3
  <2>2. ~(y < x)
    BY <1>2, <1>3, <2>1
  <2> QED
    BY <2>1, <2>2
<1> QED
  BY <1>4

\* Induction, as a fact about sets.
LEMMA Induction ==
  ASSUME NEW S, 0 \in S, \A n \in Nat : n \in S => n + 1 \in S
  PROVE  Nat \subseteq S
<1> SUFFICES ASSUME Nat \ S # {} PROVE FALSE
  OBVIOUS
<1>1. PICK x \in Nat \ S : \A y \in Nat \ S : x <= y
  BY LeastElement
<1>2. x # 0 /\ x - 1 \in Nat /\ x - 1 \notin Nat \ S
  BY <1>1
<1> QED
  BY <1>1, <1>2

\* The first n steps of a pass.
Steps(g, n, st, rules, e, final, cut) ==
  g = [i \in 0..n |-> IF i = 0 THEN st ELSE Tried(g[i - 1], Order[i], rules, e, final, cut)]

\* Every pass has its steps.
LEMMA StepsExist ==
  ASSUME NEW n \in Nat, NEW st, NEW rules, NEW e, NEW final, NEW cut
  PROVE  \E g : Steps(g, n, st, rules, e, final, cut)
<1> DEFINE Step(acc, i) == Tried(acc, Order[i], rules, e, final, cut)
           S == {k \in Nat : \E g : Steps(g, k, st, rules, e, final, cut)}
<1>0. ASSUME NEW g, NEW k
      PROVE  Steps(g, k, st, rules, e, final, cut)
               <=> g = [i \in 0..k |-> IF i = 0 THEN st ELSE Step(g[i - 1], i)]
  BY DEF Steps
<1> HIDE DEF Step
<1>1. 0 \in S
  <2> DEFINE g == [i \in 0..0 |-> st]
  <2>1. \A i \in 0..0 : i = 0
    OBVIOUS
  <2>2. g = [i \in 0..0 |-> IF i = 0 THEN st ELSE Step(g[i - 1], i)]
    BY <2>1
  <2>3. Steps(g, 0, st, rules, e, final, cut)
    BY <1>0, <2>2
  <2> QED
    BY <2>3
<1>2. ASSUME NEW k \in Nat, k \in S PROVE k + 1 \in S
  <2>1. PICK g : Steps(g, k, st, rules, e, final, cut)
    BY <1>2
  <2>0. g = [i \in 0..k |-> IF i = 0 THEN st ELSE Step(g[i - 1], i)]
    BY <1>0, <2>1
  <2> DEFINE h == [i \in 0..(k + 1) |-> IF i = k + 1 THEN Step(g[k], k + 1) ELSE g[i]]
  <2>2. ASSUME NEW i \in 0..(k + 1) PROVE h[i] = IF i = 0 THEN st ELSE Step(h[i - 1], i)
    <3>1. CASE i = k + 1
      <4>1. k \in 0..(k + 1) /\ k # k + 1 /\ i # 0 /\ i - 1 = k
        BY <3>1
      <4>2. h[k] = g[k]
        BY <4>1
      <4> QED
        BY <3>1, <4>1, <4>2
    <3>2. CASE i # k + 1
      <4>1. i \in 0..k /\ h[i] = g[i]
        BY <3>2
      <4>2. g[i] = IF i = 0 THEN st ELSE Step(g[i - 1], i)
        BY <2>0, <4>1
      <4>3. i # 0 => i - 1 \in 0..(k + 1) /\ i - 1 # k + 1
        BY <4>1
      <4>4. i # 0 => h[i - 1] = g[i - 1]
        BY <4>3
      <4> QED
        BY <4>1, <4>2, <4>4
    <3> QED
      BY <3>1, <3>2
  <2>3. h = [i \in 0..(k + 1) |-> h[i]]
    OBVIOUS
  <2> HIDE DEF h
  <2>4. h = [i \in 0..(k + 1) |-> IF i = 0 THEN st ELSE Step(h[i - 1], i)]
    BY <2>2, <2>3
  <2>5. Steps(h, k + 1, st, rules, e, final, cut)
    BY <1>0, <2>4
  <2> QED
    BY <2>5
<1> HIDE DEF S
<1>3. Nat \subseteq S
  BY <1>1, <1>2, Induction
<1> QED
  BY <1>3 DEF S

\* A pass is the last of its steps.
LEMMA EvaluateIs ==
  ASSUME given \in Inputs, NEW st, NEW rules, NEW e, NEW final, NEW cut
  PROVE  \E g : /\ g[0] = st
                /\ \A i \in 1..Len(Order) : g[i] = Tried(g[i - 1], Order[i], rules, e, final, cut)
                /\ Evaluate(st, rules, e, final, cut) = g[Len(Order)]
<1> DEFINE after == CHOOSE g : Steps(g, Len(Order), st, rules, e, final, cut)
<1>1. Len(Order) \in Nat
  BY Catalog
<1>2. Evaluate(st, rules, e, final, cut) = after[Len(Order)]
  BY DEF Evaluate, Steps
<1>3. Steps(after, Len(Order), st, rules, e, final, cut)
  BY <1>1, StepsExist
<1> HIDE DEF after
<1>4. after = [i \in 0..Len(Order) |->
                 IF i = 0 THEN st ELSE Tried(after[i - 1], Order[i], rules, e, final, cut)]
  BY <1>3 DEF Steps
<1>5. after[0] = st
  BY <1>1, <1>4
<1>6. \A i \in 1..Len(Order) : after[i] = Tried(after[i - 1], Order[i], rules, e, final, cut)
  BY <1>1, <1>4
<1> QED
  BY <1>2, <1>5, <1>6

\* The subject of a rule is in an open boundary, which is the subject of the
\* boundary rules.
LEMMA Subjects ==
  ASSUME NEW e, EvidenceOK(e), NEW r \in PackageRules
  PROVE  /\ HasSubject(r, e) => e.open
         /\ r \in BoundaryRules => (HasSubject(r, e) <=> e.open)
BY DEF EvidenceOK, HasSubject, PackageRules, BoundaryRules

\* The rules of a pass that its first i steps tried.
Seen(rules, i) == {r \in rules : \E j \in 1..i : Order[j] = r}

\* How far a pass has come: P are the rules the session had tried on this
\* evidence before it, Q those it had settled.
PassAt(st, acc, e, rules, final, cut, P, Q, i) ==
  /\ PassOK(acc, e)
  /\ Prompt(acc, e, P \cup Seen(rules, i))
  /\ final => Settled(acc, e, Q \cup Seen(rules, i))
  /\ ~final /\ Early(st) => Early(acc)
  /\ cut = <<None, None>> => acc.terminal = st.terminal

\* A pass that decides for good finds the boundary's rules settled, or is
\* the pass that settles them.
Closing(rules, final, Q) == final => rules = BoundaryRules \/ BoundaryRules \subseteq Q

\* One more step of a pass.
LEMMA PassStep ==
  ASSUME given \in Inputs, NEW st, NEW acc, NEW e, EvidenceOK(e), NEW rules,
         NEW final \in BOOLEAN, NEW cut, NEW P, NEW Q, Closing(rules, final, Q),
         NEW i \in 1..Len(Order), PassAt(st, acc, e, rules, final, cut, P, Q, i - 1)
  PROVE  PassAt(st, Tried(acc, Order[i], rules, e, final, cut), e, rules, final, cut, P, Q, i)
<1> DEFINE r == Order[i]
           t == Tried(acc, r, rules, e, final, cut)
<1>1. /\ Len(Order) \in Nat /\ r \in Rules /\ r \in PackageRules
      /\ Requires[r] \subseteq Rules /\ Requires[r] \subseteq BoundaryRules
      /\ Requires[r] \subseteq {Order[k] : k \in 1..(i - 1)}
      /\ Rules \subseteq PackageRules
  BY Catalog
<1>2. /\ PassOK(acc, e) /\ Prompt(acc, e, P \cup Seen(rules, i - 1))
      /\ final => Settled(acc, e, Q \cup Seen(rules, i - 1))
      /\ ~final /\ Early(st) => Early(acc)
      /\ cut = <<None, None>> => acc.terminal = st.terminal
  BY DEF PassAt
<1>3. Seen(rules, i) \subseteq Seen(rules, i - 1) \cup {r}
  BY <1>1 DEF Seen
<1>4. r \in Seen(rules, i) => r \in rules
  BY DEF Seen
<1> HIDE DEF r, t
<1>5. ASSUME HasSubject(r, e), r \in rules PROVE Ready(acc, r, final)
  <2> SUFFICES ASSUME final, ~acc.terminal, NEW q \in Requires[r] PROVE acc.decisions[q] # None
    BY DEF Ready
  <2>1. q \in Rules /\ q \in PackageRules /\ q \in BoundaryRules /\ HasSubject(q, e)
    BY <1>1, <1>5, Subjects
  <2>2. q \in Q \cup Seen(rules, i - 1)
    BY <1>1, <2>1 DEF Closing, Seen
  <2> QED
    BY <1>2, <2>1, <2>2 DEF Settled
<1>6. /\ PassOK(t, e)
      /\ \A q \in Rules : acc.decisions[q] # None => t.decisions[q] # None
      /\ acc.terminal => t.terminal
      /\ ~t.terminal /\ r \in rules /\ HasSubject(r, e)
           /\ (final \/ Decide(r, acc.decisions, e) \in Decisive) => t.decisions[r] # None
      /\ ~final /\ Early(acc) => Early(t)
      /\ cut = <<None, None>> => t.terminal = acc.terminal
  BY <1>1, <1>2, <1>5, TryStep DEF t
<1>7. Prompt(t, e, P \cup Seen(rules, i))
  <2> SUFFICES ASSUME ~t.terminal, NEW s \in Rules, s \in P \cup Seen(rules, i), HasSubject(s, e),
                      Requires[s] = {}, Check(s, e) \in Decisive
               PROVE  t.decisions[s] # None
    BY DEF Prompt
  <2>1. CASE s \in P \cup Seen(rules, i - 1)
    BY <1>2, <1>6, <2>1 DEF Prompt
  <2>2. CASE s = r /\ r \in rules
    <3>1. Decide(r, acc.decisions, e) \in Decisive
      BY <2>2, Unconditional
    <3> QED
      BY <1>6, <2>2, <3>1
  <2> QED
    BY <1>3, <1>4, <2>1, <2>2
<1>8. ASSUME final PROVE Settled(t, e, Q \cup Seen(rules, i))
  <2> SUFFICES ASSUME ~t.terminal, NEW s \in Rules, s \in Q \cup Seen(rules, i), HasSubject(s, e)
               PROVE  t.decisions[s] # None
    BY DEF Settled
  <2>1. CASE s \in Q \cup Seen(rules, i - 1)
    BY <1>2, <1>6, <1>8, <2>1 DEF Settled
  <2>2. CASE s = r /\ r \in rules
    BY <1>6, <1>8, <2>2
  <2> QED
    BY <1>3, <1>4, <2>1, <2>2
<1>9. PassAt(st, t, e, rules, final, cut, P, Q, i)
  BY <1>2, <1>6, <1>7, <1>8 DEF PassAt
<1> QED
  BY <1>9 DEF r, t

\* A pass that decides for good settles, another one need not.
Settling(final, st, e, Q) == final => Settled(st, e, Q)

\* What a pass has done: its rules are prompt, and settled when it decides for
\* good, and a pass that is not cut short does not stop the session.
PassDone(st, t, e, rules, final, cut, P, Q) ==
  /\ PassOK(t, e)
  /\ Prompt(t, e, P \cup rules)
  /\ Settling(final, t, e, Q \cup rules)
  /\ ~final /\ Early(st) => Early(t)
  /\ cut = <<None, None>> => t.terminal = st.terminal

\* What a pass leaves and what it adds.
LEMMA Pass ==
  ASSUME given \in Inputs, NEW st, NEW e, EvidenceOK(e), PassOK(st, e), NEW rules,
         NEW final \in BOOLEAN, NEW cut, NEW P, NEW Q, Closing(rules, final, Q),
         Prompt(st, e, P), Settling(final, st, e, Q)
  PROVE  PassDone(st, Evaluate(st, rules, e, final, cut), e, rules, final, cut, P, Q)
<1>1. PICK g : /\ g[0] = st
               /\ \A i \in 1..Len(Order) : g[i] = Tried(g[i - 1], Order[i], rules, e, final, cut)
               /\ Evaluate(st, rules, e, final, cut) = g[Len(Order)]
  BY EvaluateIs
<1>2. Len(Order) \in Nat /\ Rules = {Order[i] : i \in 1..Len(Order)}
  BY Catalog
<1> DEFINE At(i) == PassAt(st, g[i], e, rules, final, cut, P, Q, i)
           S == {i \in Nat : i <= Len(Order) => At(i)}
<1>3. 0 \in S
  <2>1. Seen(rules, 0) = {}
    BY DEF Seen
  <2>2. P \cup Seen(rules, 0) = P /\ Q \cup Seen(rules, 0) = Q
    BY <2>1
  <2>3. PassAt(st, st, e, rules, final, cut, P, Q, 0)
    BY <2>2 DEF PassAt, Settling
  <2> QED
    BY <1>1, <2>3
<1>4. ASSUME NEW n \in Nat, n \in S PROVE n + 1 \in S
  <2> SUFFICES ASSUME n + 1 <= Len(Order) PROVE At(n + 1)
    OBVIOUS
  <2>1. n + 1 \in 1..Len(Order) /\ (n + 1) - 1 = n /\ n <= Len(Order)
    BY <1>2
  <2>2. At(n)
    BY <1>4, <2>1
  <2>3. PassAt(st, g[n], e, rules, final, cut, P, Q, (n + 1) - 1)
    BY <2>1, <2>2
  <2>4. PassAt(st, Tried(g[n], Order[n + 1], rules, e, final, cut), e, rules, final, cut, P, Q, n + 1)
    BY <2>1, <2>3, PassStep
  <2>5. g[n + 1] = Tried(g[n], Order[n + 1], rules, e, final, cut)
    BY <1>1, <2>1
  <2> QED
    BY <2>4, <2>5
<1>5. Len(Order) \in S
  <2> HIDE DEF S
  <2> QED
    BY <1>2, <1>3, <1>4, Induction
<1>6. PassAt(st, Evaluate(st, rules, e, final, cut), e, rules, final, cut, P, Q, Len(Order))
  BY <1>1, <1>2, <1>5
<1>7. \A R : (R \cup rules) \cap Rules \subseteq R \cup Seen(rules, Len(Order))
  BY <1>2 DEF Seen
<1> DEFINE t == Evaluate(st, rules, e, final, cut)
<1> HIDE DEF t
<1>8. PassAt(st, t, e, rules, final, cut, P, Q, Len(Order))
  BY <1>6 DEF t
<1>9. Prompt(t, e, P \cup rules)
  <2>1. Prompt(t, e, P \cup Seen(rules, Len(Order)))
    BY <1>8 DEF PassAt
  <2> QED
    BY <1>7, <2>1 DEF Prompt
<1>10. ASSUME final PROVE Settled(t, e, Q \cup rules)
  <2>1. Settled(t, e, Q \cup Seen(rules, Len(Order)))
    BY <1>8, <1>10 DEF PassAt
  <2> QED
    BY <1>7, <2>1 DEF Settled
<1>11. PassDone(st, t, e, rules, final, cut, P, Q)
  BY <1>8, <1>9, <1>10 DEF PassAt, Settling, PassDone
<1> QED
  BY <1>11 DEF t

-----------------------------------------------------------------------------
(* Later evidence                                                           *)

\* What an observation of an open boundary may change.
Later(e, f) ==
  /\ e.open => f.open
  /\ e.entries \subseteq f.entries
  /\ "mimetype" \in e.entries => f.late = e.late
  /\ e.mimetype # None => f.mimetype = e.mimetype
  /\ e.rootfile # None => f.rootfile = e.rootfile
  /\ e.roles # None => f.roles = e.roles
  /\ e.members = "complete" => f.members = "complete" /\ Admitted(f) = Admitted(e)

\* Before the boundary is sealed, only usable roles decide the score's place.
LEMMA RolesDecide ==
  ASSUME NEW e, ~e.sealed, scoreBeforeParts(e) \in Decisive
  PROVE  /\ RolesUsable(e) /\ HasRole(e, "score") /\ HasRole(e, "part")
         /\ scoreBeforeParts(e) = firstScore(e)
<1>1. ~Enumerated(e)
  BY DEF Enumerated
<1>2. ~OnlyPrimary(e) /\ ~structuralScoreParts(e) /\ ~roleUniverseComplete(e)
  BY <1>1 DEF OnlyPrimary, structuralScoreParts, roleUniverseComplete
<1>3. CASE RolesUsable(e) /\ HasRole(e, "score") /\ HasRole(e, "part")
  BY <1>3 DEF scoreBeforeParts
<1>4. CASE ~(RolesUsable(e) /\ HasRole(e, "score") /\ HasRole(e, "part"))
  BY <1>2, <1>4 DEF scoreBeforeParts, Decisive
<1> QED
  BY <1>3, <1>4

\* The first rootfile's role needs the rootfile.
LEMMA FirstNeedsRootfile ==
  ASSUME NEW e, firstScore(e) \in Decisive
  PROVE  e.rootfile # None
<1> SUFFICES ASSUME e.rootfile = None PROVE FALSE
  OBVIOUS
<1>1. {c \in Admitted(e) : e.rootfile # None /\ ResourceOf(c) = e.rootfile.resource
                                             /\ PathOf(c) = e.rootfile.path} = {}
  OBVIOUS
<1>2. firstScore(e) = "unknown"
  BY <1>1, FS_EmptySet DEF firstScore
<1> QED
  BY <1>2 DEF Decisive

\* ... and reads the admitted contexts, the rootfile and the roles.
LEMMA FirstScoreSame ==
  ASSUME NEW e, NEW f, Admitted(f) = Admitted(e), f.rootfile = e.rootfile, f.roles = e.roles
  PROVE  firstScore(f) = firstScore(e)
BY DEF firstScore, RoleOf

\* A check that decides before the boundary is sealed decides the same on all
\* later evidence.
LEMMA CheckStays ==
  ASSUME NEW e, NEW f, ~e.sealed, Later(e, f), NEW r \in PackageRules,
         HasSubject(r, e), Check(r, e) \in Decisive
  PROVE  HasSubject(r, f) /\ Check(r, f) = Check(r, e)
<1>0. None \notin {"exact", "padded"}
  BY NoneIs
<1>1. CASE r = "container-path"
  <2>1. HasSubject(r, e) = e.open /\ HasSubject(r, f) = f.open
        /\ Check(r, e) = containerPath(e) /\ Check(r, f) = containerPath(f)
    BY <1>1 DEF HasSubject, Check
  <2>2. "container" \in e.entries
    BY <2>1 DEF containerPath, Enumerated, Decisive
  <2> QED
    BY <2>1, <2>2 DEF containerPath, Later
<1>2. CASE r = "mimetype-advice"
  <2>1. HasSubject(r, e) = e.open /\ HasSubject(r, f) = f.open
        /\ Check(r, e) = mimetypeAdvice(e) /\ Check(r, f) = mimetypeAdvice(f)
    BY <1>2 DEF HasSubject, Check
  <2>2. "mimetype" \in e.entries /\ (e.late \/ e.mimetype \in {"padded", "exact"})
    BY <2>1 DEF mimetypeAdvice, Enumerated, Decisive
  <2>3. "mimetype" \in f.entries /\ f.late = e.late
    BY <2>2 DEF Later
  <2>4. CASE e.late
    BY <2>1, <2>2, <2>3, <2>4 DEF mimetypeAdvice, Later
  <2>5. CASE e.mimetype \in {"padded", "exact"}
    <3>1. f.mimetype = e.mimetype
      BY <1>0, <2>5 DEF Later
    <3> QED
      BY <2>1, <2>2, <2>3, <3>1 DEF mimetypeAdvice, Later
  <2> QED
    BY <2>2, <2>4, <2>5
<1>3. CASE r = "score-before-parts"
  <2>1. HasSubject(r, e) = e.open /\ HasSubject(r, f) = f.open
        /\ Check(r, e) = scoreBeforeParts(e) /\ Check(r, f) = scoreBeforeParts(f)
    BY <1>3 DEF HasSubject, Check
  <2>2. RolesUsable(e) /\ HasRole(e, "score") /\ HasRole(e, "part")
        /\ scoreBeforeParts(e) = firstScore(e)
    BY <2>1, RolesDecide
  <2>3. f.rootfile = e.rootfile /\ f.roles = e.roles /\ Admitted(f) = Admitted(e)
        /\ f.members = "complete"
    BY <2>1, <2>2, FirstNeedsRootfile DEF RolesUsable, Later
  <2>4. RolesUsable(f) /\ HasRole(f, "score") /\ HasRole(f, "part")
    BY <2>2, <2>3 DEF RolesUsable, HasRole, RoleOf
  <2>5. scoreBeforeParts(f) = firstScore(f)
    BY <2>4 DEF scoreBeforeParts
  <2>6. firstScore(f) = firstScore(e)
    BY <2>3, FirstScoreSame
  <2> QED
    BY <2>1, <2>2, <2>5, <2>6 DEF Later
<1>4. CASE r = "mimetype-no-prefix"
  <2>1. Check(r, e) = packagePrefixDecision(e) /\ Check(r, f) = packagePrefixDecision(f)
        /\ "mimetype" \in e.entries /\ (HasSubject(r, f) <=> "mimetype" \in f.entries)
    BY <1>4 DEF Check, HasSubject
  <2>2. e.mimetype \in {"padded", "exact"}
    BY <2>1 DEF packagePrefixDecision, Decisive
  <2> QED
    BY <1>0, <2>1, <2>2 DEF packagePrefixDecision, Later
<1>5. CASE r = "first-root"
  <2>1. Check(r, e) = rootfileDecision(e) /\ Check(r, f) = rootfileDecision(f)
        /\ e.rootfile # None /\ (HasSubject(r, f) <=> f.rootfile # None)
    BY <1>5 DEF Check, HasSubject
  <2> QED
    BY <2>1 DEF rootfileDecision, Later
<1> QED
  BY <1>1, <1>2, <1>3, <1>4, <1>5 DEF PackageRules, BoundaryRules

\* What was decided early stays justified.
LEMMA StaysJustified ==
  ASSUME given \in Inputs, NEW st, NEW e, NEW f, PassOK(st, e), Early(st), ~e.sealed, Later(e, f)
  PROVE  PassOK(st, f)
<1>1. ASSUME NEW r \in Rules, st.decisions[r] # None
      PROVE  /\ HasSubject(r, f) /\ \A q \in Requires[r] : st.decisions[q] # None
             /\ st.decisions[r] = Decide(r, st.decisions, f)
  <2>1. /\ HasSubject(r, e) /\ \A q \in Requires[r] : st.decisions[q] # None
        /\ st.decisions[r] = Decide(r, st.decisions, e)
    BY <1>1 DEF PassOK, Justified
  <2>2. Decide(r, st.decisions, e) \in Decisive
    BY <1>1, <2>1 DEF Early
  <2>3. prerequisites(r, st.decisions) = "pass" /\ Decide(r, st.decisions, e) = Check(r, e)
    BY <2>2, DecisiveIs
  <2>4. r \in PackageRules
    BY Catalog
  <2>5. HasSubject(r, f) /\ Check(r, f) = Check(r, e)
    BY <2>1, <2>2, <2>3, <2>4, CheckStays
  <2> QED
    BY <2>1, <2>3, <2>5 DEF Decide
<1> QED
  BY <1>1 DEF PassOK, Justified

\* Evidence that tells a rule nothing new.
Untouched(r, e, f) ==
  HasSubject(r, f) /\ Check(r, f) \in Decisive => HasSubject(r, e) /\ Check(r, e) \in Decisive

\* What was prompt stays prompt for the rules that learnt nothing.
LEMMA StaysPrompt ==
  ASSUME NEW st, NEW e, NEW f, NEW P, NEW R, R \subseteq P, Prompt(st, e, P),
         \A r \in R : Untouched(r, e, f)
  PROVE  Prompt(st, f, R)
BY DEF Prompt, Untouched

-----------------------------------------------------------------------------
(* Observations                                                             *)

\* A pass that decides only what stays, as a name.
Soon == FALSE

\* The session before a call that is admitted.
LEMMA Before ==
  ASSUME SessionInv, Running, ~ev.sealed
  PROVE  /\ given \in Inputs /\ EvidenceOK(ev) /\ PassOK(Session, ev)
         /\ Prompt(Session, ev, PackageRules) /\ Early(Session)
BY DEF SessionInv, Running, DecisionsOK

\* The boundary's pass on later evidence, after what a call tried on its own.
LEMMA BoundaryPass ==
  ASSUME given \in Inputs, NEW st, NEW e, EvidenceOK(e), PassOK(st, e), Early(st), NEW cut, NEW P,
         PackageRules \subseteq P \cup BoundaryRules, Prompt(st, e, P)
  PROVE  LET t == evaluateBoundary(st, e, cut) IN
         PassOK(t, e) /\ Prompt(t, e, PackageRules) /\ (~e.sealed => Early(t))
<1> DEFINE t == Evaluate(st, BoundaryRules, e, e.sealed, cut)
<1>1. e.sealed \in BOOLEAN
  BY DEF EvidenceOK
<1>2. Closing(BoundaryRules, e.sealed, {}) /\ Settling(e.sealed, st, e, {})
  BY DEF Closing, Settling, Settled
<1>3. PassOK(t, e) /\ Prompt(t, e, P \cup BoundaryRules) /\ (~e.sealed /\ Early(st) => Early(t))
  <2>1. PassDone(st, t, e, BoundaryRules, e.sealed, cut, P, {})
    BY <1>1, <1>2, Pass
  <2> QED
    BY <2>1 DEF PassDone
<1> HIDE DEF t
<1>4. Prompt(t, e, PackageRules)
  BY <1>3 DEF Prompt
<1>5. evaluateBoundary(st, e, cut) = t
  BY DEF evaluateBoundary, t
<1> QED
  BY <1>3, <1>4, <1>5

\* An observation without rules of its own.
LEMMA ObservedBoundary ==
  ASSUME SessionInv, Running, ~ev.sealed, NEW e, EvidenceOK(e), Later(ev, e), NEW cut,
         \A r \in PackageRules \ BoundaryRules : Untouched(r, ev, e)
  PROVE  LET t == evaluateBoundary(Session, e, cut) IN
         PassOK(t, e) /\ Prompt(t, e, PackageRules) /\ (~e.sealed => Early(t))
<1> DEFINE P == PackageRules \ BoundaryRules
<1>1. PassOK(Session, e)
  BY Before, StaysJustified
<1>2. Prompt(Session, e, P)
  BY Before, StaysPrompt
<1>3. PackageRules \subseteq P \cup BoundaryRules
  OBVIOUS
<1> QED
  BY <1>1, <1>2, <1>3, Before, BoundaryPass

\* An observation that tries its own rules first.
LEMMA ObservedOwn ==
  ASSUME SessionInv, Running, ~ev.sealed, NEW e, EvidenceOK(e), Later(ev, e), NEW cut, NEW own,
         \A r \in PackageRules \ (BoundaryRules \cup own) : Untouched(r, ev, e)
  PROVE  LET t == evaluateBoundary(Evaluate(Session, own, e, Soon, cut), e, cut) IN
         PassOK(t, e) /\ Prompt(t, e, PackageRules) /\ (~e.sealed => Early(t))
<1> DEFINE R == PackageRules \ (BoundaryRules \cup own)
           t == Evaluate(Session, own, e, Soon, cut)
<1>1. PassOK(Session, e)
  BY Before, StaysJustified
<1>2. Prompt(Session, e, R)
  BY Before, StaysPrompt
<1>3. Soon \in BOOLEAN /\ ~Soon
  BY DEF Soon
<1>4. Closing(own, Soon, {}) /\ Settling(Soon, Session, e, {})
  BY <1>3 DEF Closing, Settling
<1>5. given \in Inputs /\ Early(Session)
  BY Before
<1>6. PassOK(t, e) /\ Prompt(t, e, R \cup own) /\ Early(t)
  <2>1. PassDone(Session, t, e, own, Soon, cut, R, {})
    BY <1>1, <1>2, <1>3, <1>4, <1>5, Pass
  <2> QED
    BY <1>3, <1>5, <2>1 DEF PassDone
<1>7. PackageRules \subseteq (R \cup own) \cup BoundaryRules
  OBVIOUS
<1> HIDE DEF t, R
<1>8. LET u == evaluateBoundary(t, e, cut) IN
      PassOK(u, e) /\ Prompt(u, e, PackageRules) /\ (~e.sealed => Early(u))
  BY <1>5, <1>6, <1>7, BoundaryPass
<1> QED
  BY <1>8 DEF t

\* A session that goes on with the evidence e and the decisions of st.
LEMMA DecisionsMove ==
  ASSUME NEW e, NEW st, EvidenceOK(e), PassOK(st, e), Prompt(st, e, PackageRules),
         ~e.sealed => Early(st), given' = given, phase' # "finished", ev' = e,
         terminal' = st.terminal, decisions' = st.decisions, recorded' = st.recorded
  PROVE  DecisionsOK' /\ EvidenceOK(ev)'
<1>2. Session' = [terminal |-> st.terminal, decisions |-> st.decisions, recorded |-> st.recorded, kept |-> 0]
  BY DEF Session
<1>3. Rules' = Rules
  BY DEF Rules, Order
<1>4. Typed(st) /\ Justified(st.decisions, e) /\ Counted(st)
  BY DEF PassOK
<1>5. Typed(Session)'
  <2>1. /\ st.terminal \in BOOLEAN /\ st.decisions \in [Rules -> Outcomes \cup {None}]
        /\ st.recorded \in [Rules -> Seq(Outcomes)] /\ 0 \in Nat
    BY <1>4, Fields
  <2> QED
    BY <1>2, <1>3, <2>1 DEF Typed
<1>6. Justified(Session.decisions, ev)'
  BY <1>2, <1>3, <1>4 DEF Justified
<1>7. Counted(Session)'
  BY <1>2, <1>3, <1>4 DEF Counted
<1>8. Prompt(Session, ev, PackageRules)'
  BY <1>2, <1>3 DEF Prompt
<1>9. (~ev.sealed => Early(Session))'
  BY <1>2, <1>3 DEF Early
<1> QED
  BY <1>5, <1>6, <1>7, <1>8, <1>9 DEF DecisionsOK, PassOK

\* A session that charges k for itself.
LEMMA OwnersMove ==
  ASSUME OwnersOK, NEW k \in Nat, usage' = usage + k, retained' = retained + k,
         snapshot' \in [Resources -> {"caller", "package", "closed"}], Live' = Live,
         phase' # "new"
  PROVE  OwnersOK'
<1>1. Live \subseteq Resources /\ IsFiniteSet(Resources)
  BY CatalogAssumption DEF Live
<1>2. Cardinality(Live) \in Nat
  BY <1>1, FS_Subset, FS_CardinalityType
<1>3. Cardinality(Live)' = Cardinality(Live)
  OBVIOUS
<1>4. retained \in Nat /\ usage = retained + Cardinality(Live)
  BY DEF OwnersOK
<1> QED
  BY <1>2, <1>3, <1>4 DEF OwnersOK

\* An admitted call keeps the invariant.
LEMMA AdmitStep ==
  ASSUME SessionInv, Running, NEW e, NEW st, Admit(e, st), EvidenceOK(e), PassOK(st, e),
         Prompt(st, e, PackageRules), ~e.sealed => Early(st),
         required' \subseteq Resources, required \subseteq required',
         e.rootfile # None => e.rootfile.resource \in required' \cup {None}
  PROVE  SessionInv'
<1>1. /\ ev' = e /\ usage' = usage + 1 + st.kept /\ retained' = retained + 1 + st.kept
      /\ terminal' = st.terminal /\ decisions' = st.decisions /\ recorded' = st.recorded
      /\ UNCHANGED <<phase, snapshot, given, adoptions, rootDoc, failure, bundle>>
      /\ phase = "running"
  BY DEF Admit, Recorded, Running
<1>2. DecisionsOK' /\ EvidenceOK(ev)'
  BY <1>1, DecisionsMove
<1>3. OwnersOK'
  <2>1. st.kept \in Nat
    BY Fields DEF PassOK
  <2>2. /\ OwnersOK /\ retained \in Nat /\ usage \in Nat
        /\ snapshot \in [Resources -> {"caller", "package", "closed"}]
    <3>1. Live \subseteq Resources /\ IsFiniteSet(Resources)
      BY CatalogAssumption DEF Live
    <3>2. Cardinality(Live) \in Nat
      BY <3>1, FS_Subset, FS_CardinalityType
    <3> QED
      BY <3>2 DEF SessionInv, OwnersOK
  <2>3. 1 + st.kept \in Nat /\ usage' = usage + (1 + st.kept) /\ retained' = retained + (1 + st.kept)
    BY <1>1, <2>1, <2>2
  <2>4. Live' = Live
    BY <1>1 DEF Live
  <2>5. snapshot' \in [Resources -> {"caller", "package", "closed"}]
    BY <1>1, <2>2
  <2> QED
    BY <1>1, <2>2, <2>3, <2>4, <2>5, OwnersMove
<1>4. RequiredOK'
  BY <1>1 DEF SessionInv, RequiredOK
<1>5. FinishedOK'
  BY <1>1 DEF FinishedOK
<1> QED
  BY <1>1, <1>2, <1>3, <1>4, <1>5 DEF SessionInv

-----------------------------------------------------------------------------
(* The calls that observe the package                                       *)

\* The package is opened: nothing can be decided yet.
LEMMA OpenStep ==
  ASSUME SessionInv, openPackage
  PROVE  SessionInv'
<1>1. Running /\ ~ev.open /\ Admit([ev EXCEPT !.open = TRUE], Session) /\ UNCHANGED required
  BY DEF openPackage
<1>2. EvidenceOK(ev)
  BY DEF SessionInv
<1>3. ~ev.sealed /\ ev.entries = {} /\ ev.rootfile = None /\ ev.roles = None
  BY <1>1, <1>2 DEF EvidenceOK
<1>4. PICK e : e = [ev EXCEPT !.open = TRUE]
  OBVIOUS
<1>5. /\ e.open = TRUE /\ e.sealed = ev.sealed /\ e.complete = ev.complete /\ e.members = ev.members
      /\ e.entries = ev.entries /\ e.late = ev.late /\ e.mimetype = ev.mimetype
      /\ e.rootfile = ev.rootfile /\ e.roles = ev.roles /\ e.expansion = ev.expansion
  BY <1>2, <1>4 DEF EvidenceOK
<1>6. EvidenceOK(e)
  BY <1>2, <1>4 DEF EvidenceOK
<1>7. Later(ev, e)
  BY <1>5 DEF Later, Admitted
<1>8. PassOK(Session, e)
  BY <1>1, <1>3, <1>7, Before, StaysJustified
<1>9. ASSUME NEW r \in PackageRules, HasSubject(r, e) PROVE Check(r, e) \notin Decisive
  <2>1. ~Enumerated(e)
    BY <1>3, <1>5 DEF Enumerated
  <2>2. containerPath(e) = "unknown" /\ mimetypeAdvice(e) = "unknown"
    BY <1>3, <1>5, <2>1 DEF containerPath, mimetypeAdvice
  <2>3. scoreBeforeParts(e) = "unknown"
    BY <1>3, <1>5, <2>1 DEF scoreBeforeParts, RolesUsable, structuralScoreParts, OnlyPrimary
  <2>4. r # "mimetype-no-prefix" /\ r # "first-root"
    BY <1>3, <1>5, <1>9 DEF HasSubject
  <2> QED
    BY <2>2, <2>3, <2>4 DEF Check, PackageRules, BoundaryRules, Decisive
<1>10. Prompt(Session, e, PackageRules)
  BY <1>9 DEF Prompt
<1>11. Early(Session)
  BY <1>1, <1>3, Before
<1>12. /\ required' \subseteq Resources /\ required \subseteq required'
       /\ e.rootfile # None => e.rootfile.resource \in required' \cup {None}
  BY <1>1, <1>3, <1>5 DEF SessionInv, RequiredOK
<1>13. Admit(e, Session)
  BY <1>1, <1>4
<1> QED
  BY <1>1, <1>6, <1>8, <1>10, <1>11, <1>12, <1>13, AdmitStep

\* The rules of the entries and of the rootfile read those alone.
LEMMA OwnRules ==
  ASSUME NEW e, NEW f
  PROVE  /\ ("mimetype" \in f.entries => "mimetype" \in e.entries) /\ f.mimetype = e.mimetype
              => Untouched("mimetype-no-prefix", e, f)
         /\ f.rootfile = e.rootfile => Untouched("first-root", e, f)
<1>1. \A x : Check("mimetype-no-prefix", x) = packagePrefixDecision(x)
  BY DEF Check
<1>2. \A x : Check("first-root", x) = rootfileDecision(x)
  BY DEF Check
<1>3. \A x : HasSubject("mimetype-no-prefix", x) <=> "mimetype" \in x.entries
  BY DEF HasSubject
<1>4. \A x : HasSubject("first-root", x) <=> x.rootfile # None
  BY DEF HasSubject
<1>5. f.mimetype = e.mimetype => packagePrefixDecision(f) = packagePrefixDecision(e)
  BY DEF packagePrefixDecision
<1>6. f.rootfile = e.rootfile => rootfileDecision(f) = rootfileDecision(e)
  BY DEF rootfileDecision
<1> QED
  BY <1>1, <1>2, <1>3, <1>4, <1>5, <1>6 DEF Untouched

\* The documents a bundle relies on, when a call leaves the rootfile alone.
LEMMA RequiredKept ==
  ASSUME SessionInv, UNCHANGED required, NEW e, e.rootfile = ev.rootfile
  PROVE  /\ required' \subseteq Resources /\ required \subseteq required'
         /\ e.rootfile # None => e.rootfile.resource \in required' \cup {None}
BY DEF SessionInv, RequiredOK

\* An entry: its own rule is tried if it is the mimetype, then the boundary's.
LEMMA EntryStep ==
  ASSUME SessionInv, NEW entry \in given.entries, observeEntry(entry[1], entry[2])
  PROVE  SessionInv'
<1> DEFINE name == entry[1]
           late == entry[2]
<1>0. name \in Paths \cup {"container", "mimetype"} /\ late \in BOOLEAN
  <2>1. given.entries \subseteq (Paths \cup {"container", "mimetype"}) \X BOOLEAN
    BY CatalogAssumption DEF SessionInv
  <2> QED
    BY <2>1
<1> HIDE DEF name, late
<1>1. Running /\ ev.open /\ ~ev.sealed /\ name \notin ev.entries /\ UNCHANGED required
  BY DEF observeEntry, name
<1>2. PICK cut \in Cuts :
        LET e == [ev EXCEPT !.entries = @ \cup {name}, !.late = IF name = "mimetype" THEN late ELSE @]
            own == IF name = "mimetype" THEN {"mimetype-no-prefix"} ELSE {}
        IN Admit(e, evaluateBoundary(Evaluate(Session, own, e, FALSE, cut), e, cut))
  BY DEF observeEntry, name, late
<1>3. PICK e : e = [ev EXCEPT !.entries = @ \cup {name}, !.late = IF name = "mimetype" THEN late ELSE @]
  OBVIOUS
<1>4. PICK own : own = IF name = "mimetype" THEN {"mimetype-no-prefix"} ELSE {}
  OBVIOUS
<1>5. PICK st : st = evaluateBoundary(Evaluate(Session, own, e, Soon, cut), e, cut)
  OBVIOUS
<1>6. Admit(e, st)
  BY <1>2, <1>3, <1>4, <1>5 DEF Soon
<1>7. EvidenceOK(ev)
  BY DEF SessionInv
<1>8. /\ e.open = ev.open /\ e.sealed = ev.sealed /\ e.complete = ev.complete /\ e.members = ev.members
      /\ e.entries = ev.entries \cup {name} /\ e.mimetype = ev.mimetype
      /\ e.late = IF name = "mimetype" THEN late ELSE ev.late
      /\ e.rootfile = ev.rootfile /\ e.roles = ev.roles /\ e.expansion = ev.expansion
  BY <1>3, <1>7 DEF EvidenceOK
<1>9. EvidenceOK(e)
  BY <1>0, <1>1, <1>3, <1>7 DEF EvidenceOK
<1>10. Later(ev, e)
  BY <1>1, <1>8 DEF Later, Admitted
<1>11. \A r \in PackageRules \ (BoundaryRules \cup own) : Untouched(r, ev, e)
  <2>1. name # "mimetype" => ("mimetype" \in e.entries => "mimetype" \in ev.entries)
    BY <1>8
  <2>2. "mimetype-no-prefix" \notin own => Untouched("mimetype-no-prefix", ev, e)
    BY <1>4, <1>8, <2>1, OwnRules
  <2>3. Untouched("first-root", ev, e)
    BY <1>8, OwnRules
  <2> QED
    BY <2>2, <2>3 DEF PackageRules
<1>12. PassOK(st, e) /\ Prompt(st, e, PackageRules) /\ (~e.sealed => Early(st))
  BY <1>1, <1>5, <1>9, <1>10, <1>11, ObservedOwn
<1> QED
  BY <1>1, <1>6, <1>8, <1>9, <1>12, RequiredKept, AdmitStep

\* The bytes of the mimetype: its own rule, then the boundary's.
LEMMA MimetypeStep ==
  ASSUME SessionInv, NEW bytes \in given.bytes, observeMimetype(bytes)
  PROVE  SessionInv'
<1>0. bytes \in {"exact", "padded", "partial"}
  BY CatalogAssumption DEF SessionInv
<1>1. /\ Running /\ ~ev.sealed /\ "mimetype" \in ev.entries /\ ev.mimetype = None
      /\ UNCHANGED required
  BY DEF observeMimetype
<1>2. PICK cut \in Cuts :
        LET e == [ev EXCEPT !.mimetype = bytes]
        IN Admit(e, evaluateBoundary(Evaluate(Session, {"mimetype-no-prefix"}, e, FALSE, cut), e, cut))
  BY DEF observeMimetype
<1>3. PICK e : e = [ev EXCEPT !.mimetype = bytes]
  OBVIOUS
<1>4. PICK own : own = {"mimetype-no-prefix"}
  OBVIOUS
<1>5. PICK st : st = evaluateBoundary(Evaluate(Session, own, e, Soon, cut), e, cut)
  OBVIOUS
<1>6. Admit(e, st)
  BY <1>2, <1>3, <1>4, <1>5 DEF Soon
<1>7. EvidenceOK(ev)
  BY DEF SessionInv
<1>8. /\ e.open = ev.open /\ e.sealed = ev.sealed /\ e.complete = ev.complete /\ e.members = ev.members
      /\ e.entries = ev.entries /\ e.late = ev.late /\ e.mimetype = bytes
      /\ e.rootfile = ev.rootfile /\ e.roles = ev.roles /\ e.expansion = ev.expansion
  BY <1>3, <1>7 DEF EvidenceOK
<1>9. EvidenceOK(e)
  BY <1>0, <1>3, <1>7 DEF EvidenceOK
<1>10. Later(ev, e)
  BY <1>1, <1>8 DEF Later, Admitted
<1>11. \A r \in PackageRules \ (BoundaryRules \cup own) : Untouched(r, ev, e)
  <2>1. Untouched("first-root", ev, e)
    BY <1>8, OwnRules
  <2> QED
    BY <1>4, <2>1 DEF PackageRules
<1>12. PassOK(st, e) /\ Prompt(st, e, PackageRules) /\ (~e.sealed => Early(st))
  BY <1>1, <1>5, <1>9, <1>10, <1>11, ObservedOwn
<1> QED
  BY <1>1, <1>6, <1>8, <1>9, <1>12, RequiredKept, AdmitStep

\* The first rootfile, whose document becomes a required one.
LEMMA RootfileStep ==
  ASSUME SessionInv, NEW r \in Resources \cup {None}, NEW entry \in BOOLEAN,
         observeRootfile(given.rootfile, r, entry)
  PROVE  SessionInv'
<1> DEFINE path == given.rootfile
<1>0. path \in Paths
  BY CatalogAssumption DEF SessionInv
<1> HIDE DEF path
<1>1. /\ Running /\ ev.open /\ ~ev.sealed /\ ev.rootfile = None
      /\ required' = required \cup ({r} \ {None})
  BY DEF observeRootfile
<1>2. PICK cut \in Cuts :
        LET e == [ev EXCEPT !.rootfile = [path |-> path, resource |-> r, entry |-> entry]]
        IN Admit(e, evaluateBoundary(Evaluate(Session, {"first-root"}, e, FALSE, cut), e, cut))
  BY DEF observeRootfile, path
<1>13. PICK root : root = [path |-> path, resource |-> r, entry |-> entry]
  OBVIOUS
<1>14. /\ root \in [path : Paths, resource : Resources \cup {None}, entry : BOOLEAN]
       /\ root.resource = r
  BY <1>0, <1>13
<1>3. PICK e : e = [ev EXCEPT !.rootfile = root]
  OBVIOUS
<1>4. PICK own : own = {"first-root"}
  OBVIOUS
<1>5. PICK st : st = evaluateBoundary(Evaluate(Session, own, e, Soon, cut), e, cut)
  OBVIOUS
<1>6. Admit(e, st)
  BY <1>2, <1>3, <1>4, <1>5, <1>13 DEF Soon
<1>7. EvidenceOK(ev)
  BY DEF SessionInv
<1>8. /\ e.open = ev.open /\ e.sealed = ev.sealed /\ e.complete = ev.complete /\ e.members = ev.members
      /\ e.entries = ev.entries /\ e.late = ev.late /\ e.mimetype = ev.mimetype
      /\ e.rootfile = root /\ e.roles = ev.roles /\ e.expansion = ev.expansion
  BY <1>3, <1>7 DEF EvidenceOK
<1>9. EvidenceOK(e)
  BY <1>1, <1>3, <1>7, <1>14 DEF EvidenceOK
<1>10. Later(ev, e)
  BY <1>1, <1>8 DEF Later, Admitted
<1>11. \A s \in PackageRules \ (BoundaryRules \cup own) : Untouched(s, ev, e)
  <2>1. Untouched("mimetype-no-prefix", ev, e)
    BY <1>8, OwnRules
  <2> QED
    BY <1>4, <2>1 DEF PackageRules
<1>12. PassOK(st, e) /\ Prompt(st, e, PackageRules) /\ (~e.sealed => Early(st))
  BY <1>1, <1>5, <1>9, <1>10, <1>11, ObservedOwn
<1>15. /\ required' \subseteq Resources /\ required \subseteq required'
       /\ e.rootfile # None => e.rootfile.resource \in required' \cup {None}
  BY <1>1, <1>8, <1>14 DEF SessionInv, RequiredOK
<1> QED
  BY <1>1, <1>6, <1>9, <1>12, <1>15, AdmitStep

\* A call that tries the boundary's rules alone: it leaves the entries, the
\* mimetype and the rootfile.
LEMMA BoundaryStep ==
  ASSUME SessionInv, Running, ev.open, ~ev.sealed, UNCHANGED required, NEW e, NEW cut,
         EvidenceOK(e), Later(ev, e), e.entries = ev.entries, e.mimetype = ev.mimetype,
         e.rootfile = ev.rootfile, Admit(e, evaluateBoundary(Session, e, cut))
  PROVE  SessionInv'
<1>1. PICK st : st = evaluateBoundary(Session, e, cut)
  OBVIOUS
<1>2. \A r \in PackageRules \ BoundaryRules : Untouched(r, ev, e)
  <2>1. Untouched("mimetype-no-prefix", ev, e) /\ Untouched("first-root", ev, e)
    BY OwnRules
  <2> QED
    BY <2>1 DEF PackageRules
<1>3. PassOK(st, e) /\ Prompt(st, e, PackageRules) /\ (~e.sealed => Early(st))
  BY <1>1, <1>2, ObservedBoundary
<1>4. Admit(e, st)
  BY <1>1
<1> QED
  BY <1>3, <1>4, RequiredKept, AdmitStep

\* The seal: the boundary's rules are decided for good.
LEMMA SealStep ==
  ASSUME SessionInv, NEW complete \in BOOLEAN, sealEnumeration(complete)
  PROVE  SessionInv'
<1>1. Running /\ ev.open /\ ~ev.sealed /\ UNCHANGED required
  BY DEF sealEnumeration
<1>2. PICK e : e = [ev EXCEPT !.sealed = TRUE, !.complete = complete]
  OBVIOUS
<1>3. PICK cut \in Cuts : Admit(e, evaluateBoundary(Session, e, cut))
  BY <1>2 DEF sealEnumeration
<1>4. EvidenceOK(ev)
  BY DEF SessionInv
<1>5. /\ e.open = ev.open /\ e.members = ev.members
      /\ e.entries = ev.entries /\ e.late = ev.late /\ e.mimetype = ev.mimetype
      /\ e.rootfile = ev.rootfile /\ e.roles = ev.roles /\ e.expansion = ev.expansion
  BY <1>2, <1>4 DEF EvidenceOK
<1>6. EvidenceOK(e)
  BY <1>1, <1>2, <1>4 DEF EvidenceOK
<1>7. Later(ev, e)
  BY <1>5 DEF Later, Admitted
<1> QED
  BY <1>1, <1>3, <1>5, <1>6, <1>7, BoundaryStep

\* The provider's roles: they decide nothing before the members are sealed.
LEMMA RolesStep ==
  ASSUME SessionInv, NEW answer \in given.answers, observeRoles(answer)
  PROVE  SessionInv'
<1>0. answer[1] \in [Contexts -> Roles] /\ answer[2] \in BOOLEAN
  <2>1. given.answers \subseteq [Contexts -> Roles] \X BOOLEAN
    BY CatalogAssumption DEF SessionInv, Roles
  <2> QED
    BY <2>1
<1>1. Running /\ ev.open /\ ~ev.sealed /\ UNCHANGED required /\ ev.roles = None
  BY DEF observeRoles
<1>2. PICK answered : answered = [members |-> Admitted(ev), table |-> answer[1], scope |-> answer[2]]
  OBVIOUS
<1>3. answered \in [members : SUBSET Contexts, table : [Contexts -> Roles], scope : BOOLEAN]
  <2>1. Admitted(ev) \in SUBSET Contexts
    BY DEF Admitted
  <2> QED
    BY <1>0, <1>2, <2>1
<1>4. PICK e : e = [ev EXCEPT !.roles = answered]
  OBVIOUS
<1>5. PICK cut \in Cuts : Admit(e, evaluateBoundary(Session, e, cut))
  BY <1>2, <1>4 DEF observeRoles
<1>6. EvidenceOK(ev)
  BY DEF SessionInv
<1>7. /\ e.open = ev.open /\ e.members = ev.members
      /\ e.entries = ev.entries /\ e.late = ev.late /\ e.mimetype = ev.mimetype
      /\ e.rootfile = ev.rootfile /\ e.expansion = ev.expansion
  BY <1>4, <1>6 DEF EvidenceOK
<1>8. EvidenceOK(e)
  BY <1>1, <1>3, <1>4, <1>6 DEF EvidenceOK
<1>9. Later(ev, e)
  BY <1>1, <1>7 DEF Later, Admitted
<1> QED
  BY <1>1, <1>5, <1>7, <1>8, <1>9, BoundaryStep

\* The seal of the members, which makes the roles count.
LEMMA MembersStep ==
  ASSUME SessionInv, NEW complete \in BOOLEAN, sealResourceMembers(complete)
  PROVE  SessionInv'
<1>1. Running /\ ev.open /\ ~ev.sealed /\ UNCHANGED required /\ ev.members = "open"
  BY DEF sealResourceMembers
<1>2. PICK e : e = [ev EXCEPT !.members = IF complete THEN "complete" ELSE "partial"]
  OBVIOUS
<1>3. PICK cut \in Cuts : Admit(e, evaluateBoundary(Session, e, cut))
  BY <1>2 DEF sealResourceMembers
<1>4. EvidenceOK(ev)
  BY DEF SessionInv
<1>5. /\ e.open = ev.open
      /\ e.entries = ev.entries /\ e.late = ev.late /\ e.mimetype = ev.mimetype
      /\ e.rootfile = ev.rootfile /\ e.roles = ev.roles /\ e.expansion = ev.expansion
  BY <1>2, <1>4 DEF EvidenceOK
<1>6. EvidenceOK(e)
  BY <1>1, <1>2, <1>4 DEF EvidenceOK
<1>7. Later(ev, e)
  BY <1>1, <1>5 DEF Later
<1> QED
  BY <1>1, <1>3, <1>5, <1>6, <1>7, BoundaryStep

-----------------------------------------------------------------------------
(* Documents                                                                *)

\* Expansions alone decide no rule: the roles count once the members are
\* complete, and then no context is added.
LEMMA ExpansionTellsNothing ==
  ASSUME NEW e, NEW f, ~e.sealed, NEW r \in PackageRules,
         f.open = e.open, f.sealed = e.sealed, f.members = e.members,
         f.entries = e.entries, f.late = e.late, f.mimetype = e.mimetype, f.rootfile = e.rootfile,
         f.roles = e.roles, e.members = "complete" => Admitted(f) = Admitted(e)
  PROVE  Untouched(r, e, f)
<1> SUFFICES ASSUME HasSubject(r, f), Check(r, f) \in Decisive
             PROVE  HasSubject(r, e) /\ Check(r, e) \in Decisive
  BY DEF Untouched
<1>1. ~f.sealed /\ Later(f, e)
  BY DEF Later
<1> QED
  BY <1>1, CheckStays

\* Nothing is decided by a call that changes an expansion.
LEMMA ExpansionMove ==
  ASSUME SessionInv, Running, ~ev.sealed, NEW c \in Contexts, NEW x \in {"open", "complete", "partial"},
         NEW e, e = [ev EXCEPT !.expansion[c] = x],
         ev.members = "complete" => ev.expansion[c] # None
  PROVE  /\ EvidenceOK(e) /\ PassOK(Session, e) /\ Prompt(Session, e, PackageRules) /\ Early(Session)
         /\ e.rootfile = ev.rootfile
<1>1. EvidenceOK(ev)
  BY DEF SessionInv
<1>2. x # None
  BY NoneIs
<1>3. PICK y : y = [ev.expansion EXCEPT ![c] = x]
  OBVIOUS
<1>4. e = [ev EXCEPT !.expansion = y]
  BY <1>3
<1>5. y \in [Contexts -> {None, "open", "complete", "partial"}]
      /\ ({d \in Contexts : y[d] # None} = {d \in Contexts : ev.expansion[d] # None} \cup {c})
  BY <1>1, <1>2, <1>3 DEF EvidenceOK
<1>6. /\ e.open = ev.open /\ e.sealed = ev.sealed /\ e.complete = ev.complete /\ e.members = ev.members
      /\ e.entries = ev.entries /\ e.late = ev.late /\ e.mimetype = ev.mimetype
      /\ e.rootfile = ev.rootfile /\ e.roles = ev.roles /\ e.expansion = y
  BY <1>1, <1>4 DEF EvidenceOK
<1>7. EvidenceOK(e)
  BY <1>1, <1>4, <1>5 DEF EvidenceOK
<1>8. ev.members = "complete" => Admitted(e) = Admitted(ev)
  BY <1>5, <1>6 DEF Admitted
<1>9. Later(ev, e)
  BY <1>6, <1>8 DEF Later
<1>10. PassOK(Session, e) /\ Early(Session)
  BY <1>9, Before, StaysJustified
<1>11. \A r \in PackageRules : Untouched(r, ev, e)
  BY <1>6, <1>8, ExpansionTellsNothing
<1>12. Prompt(Session, e, PackageRules)
  BY <1>11, Before, StaysPrompt
<1> QED
  BY <1>6, <1>7, <1>10, <1>12

\* The seal of one context's expansion.
LEMMA ExpansionStep ==
  ASSUME SessionInv, NEW c \in given.contexts, NEW complete \in BOOLEAN,
         sealResourceExpansion(c, complete)
  PROVE  SessionInv'
<1>1. PICK x : x = IF complete THEN "complete" ELSE "partial"
  OBVIOUS
<1>2. c \in Contexts /\ x \in {"open", "complete", "partial"}
  BY <1>1, CatalogAssumption DEF SessionInv
<1>3. Running /\ ~ev.sealed /\ ev.expansion[c] = "open" /\ UNCHANGED required
  BY DEF sealResourceExpansion
<1>4. PICK e : e = [ev EXCEPT !.expansion[c] = x]
  OBVIOUS
<1>5. Admit(e, Session)
  BY <1>1, <1>4 DEF sealResourceExpansion
<1>6. ev.expansion[c] # None
  BY <1>3, NoneIs
<1>7. /\ EvidenceOK(e) /\ PassOK(Session, e) /\ Prompt(Session, e, PackageRules) /\ Early(Session)
      /\ e.rootfile = ev.rootfile
  BY <1>2, <1>3, <1>4, <1>6, ExpansionMove
<1> QED
  BY <1>3, <1>5, <1>7, RequiredKept, AdmitStep

\* An adoption, which may not add a context to sealed members.
LEMMA AdoptStep ==
  ASSUME SessionInv, NEW c \in given.contexts, NEW root \in BOOLEAN, adoptResource(c, root)
  PROVE  SessionInv'
<1>1. PICK x : x = IF ev.expansion[c] = None THEN "open" ELSE ev.expansion[c]
  OBVIOUS
<1>2. c \in Contexts /\ ResourceOf(c) \in Resources /\ EvidenceOK(ev)
  BY CatalogAssumption DEF SessionInv
<1>3. x \in {"open", "complete", "partial"}
  BY <1>1, <1>2 DEF EvidenceOK
<1>4. /\ Running /\ ~ev.sealed /\ (ev.members # "open" => ev.expansion[c] # None)
      /\ rootDoc' = (IF root THEN ResourceOf(c) ELSE rootDoc)
      /\ required' = (IF root THEN required \cup {ResourceOf(c)} ELSE required)
      /\ usage' = usage + 1 /\ retained' = retained + 1
      /\ UNCHANGED <<phase, terminal, snapshot, given, decisions, recorded, failure, bundle>>
  BY DEF adoptResource
<1>5. PICK e : e = [ev EXCEPT !.expansion[c] = x]
  OBVIOUS
<1>6. ev' = e
  BY <1>1, <1>5 DEF adoptResource
<1>7. /\ EvidenceOK(e) /\ PassOK(Session, e) /\ Prompt(Session, e, PackageRules) /\ Early(Session)
      /\ e.rootfile = ev.rootfile
  BY <1>2, <1>3, <1>4, <1>5, ExpansionMove
<1>8. DecisionsOK' /\ EvidenceOK(ev)'
  <2>1. PICK st : st = Session
    OBVIOUS
  <2>2. terminal' = st.terminal /\ decisions' = st.decisions /\ recorded' = st.recorded
    BY <1>4, <2>1 DEF Session
  <2>3. phase' # "finished"
    BY <1>4 DEF Running
  <2> QED
    BY <1>4, <1>6, <1>7, <2>1, <2>2, <2>3, DecisionsMove
<1>9. OwnersOK'
  <2>1. Live' = Live /\ 1 \in Nat /\ OwnersOK /\ phase' # "new"
        /\ snapshot' \in [Resources -> {"caller", "package", "closed"}]
    BY <1>4 DEF Live, Running, SessionInv, OwnersOK
  <2> QED
    BY <1>4, <2>1, OwnersMove
<1>10. RequiredOK'
  BY <1>2, <1>4, <1>6, <1>7 DEF SessionInv, RequiredOK
<1>11. FinishedOK'
  BY <1>4 DEF FinishedOK, Running
<1> QED
  BY <1>4, <1>8, <1>9, <1>10, <1>11 DEF SessionInv

\* A call that decides nothing and leaves the evidence, whether it stops the
\* session or not.
LEMMA DecisionsKept ==
  ASSUME SessionInv, UNCHANGED <<given, ev, decisions, recorded>>, terminal' \in {terminal, TRUE},
         phase # "finished", phase' # "finished"
  PROVE  DecisionsOK' /\ EvidenceOK(ev)'
<1>1. PICK st : st = [Session EXCEPT !.terminal = terminal']
  OBVIOUS
<1>2. PassOK(Session, ev) /\ Prompt(Session, ev, PackageRules) /\ (~ev.sealed => Early(Session))
      /\ EvidenceOK(ev)
  BY DEF SessionInv, DecisionsOK
<1>3. /\ Session.terminal = terminal /\ Session.decisions = decisions /\ Session.recorded = recorded
      /\ Session.kept = 0
      /\ st = [terminal |-> terminal', decisions |-> decisions, recorded |-> recorded, kept |-> 0]
  BY <1>1 DEF Session
<1>4. st.terminal = terminal' /\ st.decisions = decisions /\ st.recorded = recorded
  BY <1>3
<1>5. Typed(Session) /\ Justified(decisions, ev) /\ Counted(Session)
  BY <1>2, <1>3 DEF PassOK
<1>6. Typed(st)
  <2>1. terminal \in BOOLEAN /\ terminal' \in BOOLEAN
        /\ decisions \in [Rules -> Outcomes \cup {None}]
        /\ recorded \in [Rules -> Seq(Outcomes)] /\ 0 \in Nat
    BY <1>3, <1>5, Fields
  <2> QED
    BY <1>3, <2>1 DEF Typed
<1>7. Counted(st)
  BY <1>3, <1>4, <1>5 DEF Counted
<1>8. PassOK(st, ev) /\ Prompt(st, ev, PackageRules) /\ (~ev.sealed => Early(st))
  BY <1>2, <1>3, <1>4, <1>5, <1>6, <1>7 DEF PassOK, Prompt, Early
<1>9. PICK e : e = ev
  OBVIOUS
<1> QED
  BY <1>2, <1>4, <1>8, <1>9, DecisionsMove

\* The calls that leave the evidence and the decisions.
LEMMA QuietStep ==
  ASSUME SessionInv,
         \/ begin \/ Refuse \/ RefuseAdmitted
         \/ \E r \in Resources, need \in given.needs : addResource(r, need) \/ addResourceAgain(r, need)
         \/ \E r \in Resources : recordResourceFailure(r)
  PROVE  SessionInv'
<1>0. OwnersOK /\ RequiredOK /\ EvidenceOK(ev) /\ given \in Inputs /\ retained \in Nat /\ 0 \in Nat /\ 1 \in Nat
      /\ usage \in Int /\ snapshot \in [Resources -> {"caller", "package", "closed"}]
      /\ failure \in BOOLEAN /\ phase \in {"new", "running", "finished"}
  <2>1. Live \subseteq Resources /\ IsFiniteSet(Resources)
    BY CatalogAssumption DEF Live
  <2>2. Cardinality(Live) \in Nat
    BY <2>1, FS_Subset, FS_CardinalityType
  <2> QED
    BY <2>2 DEF SessionInv, OwnersOK
<1>1. /\ UNCHANGED <<given, ev, decisions, recorded, rootDoc, bundle>>
      /\ terminal' \in {terminal, TRUE} /\ failure' \in {failure, TRUE}
      /\ phase # "finished" /\ phase' = "running"
  BY DEF begin, Refuse, RefuseAdmitted, addResource, addResourceAgain, recordResourceFailure, Running
<1>2. DecisionsOK' /\ EvidenceOK(ev)'
  BY <1>1, DecisionsKept
<1>3. required \subseteq required' /\ required' \subseteq Resources
  BY <1>0 DEF RequiredOK, begin, Refuse, RefuseAdmitted, addResource, addResourceAgain,
     recordResourceFailure
<1>4. RequiredOK'
  BY <1>0, <1>1, <1>3 DEF RequiredOK
<1>5. FinishedOK'
  BY <1>1 DEF FinishedOK
<1>6. \E k \in {0, 1} : usage' = usage + k /\ retained' = retained + k
  BY <1>0 DEF OwnersOK, begin, Refuse, RefuseAdmitted, addResource, addResourceAgain,
     recordResourceFailure
<1>7. Live' = Live /\ snapshot' \in [Resources -> {"caller", "package", "closed"}]
  <2>1. CASE UNCHANGED snapshot
    BY <1>0, <2>1 DEF Live
  <2>2. ASSUME NEW r \in Resources, snapshot[r] = "caller",
               snapshot' = [snapshot EXCEPT ![r] = "package"]
        PROVE  Live' = Live /\ snapshot' \in [Resources -> {"caller", "package", "closed"}]
    <3>1. snapshot' \in [Resources -> {"caller", "package", "closed"}]
      BY <1>0, <2>2
    <3>2. \A s \in Resources : snapshot'[s] # "closed" <=> snapshot[s] # "closed"
      BY <1>0, <2>2
    <3> QED
      BY <3>1, <3>2 DEF Live
  <2> QED
    BY <2>1, <2>2 DEF begin, Refuse, RefuseAdmitted, addResource, addResourceAgain,
       recordResourceFailure
<1>8. OwnersOK'
  BY <1>0, <1>1, <1>6, <1>7, OwnersMove
<1> QED
  BY <1>0, <1>1, <1>2, <1>4, <1>5, <1>8 DEF SessionInv

-----------------------------------------------------------------------------
(* Closing and finishing                                                    *)

\* Nothing that decides has changed.
LEMMA Frozen ==
  ASSUME DecisionsOK, UNCHANGED <<phase, terminal, given, ev, decisions, recorded>>
  PROVE  DecisionsOK'
<1>1. Session' = Session /\ Rules' = Rules
  BY DEF Session, Rules, Order
<1>2. PassOK(Session, ev)'
  <2>1. Typed(Session) /\ Justified(Session.decisions, ev) /\ Counted(Session)
    BY DEF DecisionsOK, PassOK
  <2>2. Typed(Session)'
    BY <1>1, <2>1 DEF Typed
  <2>3. Justified(Session.decisions, ev)'
    BY <1>1, <2>1 DEF Justified
  <2>4. Counted(Session)'
    BY <1>1, <2>1 DEF Counted
  <2> QED
    BY <2>2, <2>3, <2>4 DEF PassOK
<1>3. Prompt(Session, ev, PackageRules) => Prompt(Session, ev, PackageRules)'
  BY <1>1 DEF Prompt
<1>4. Settled(Session, ev, PackageRules) => Settled(Session, ev, PackageRules)'
  BY <1>1 DEF Settled
<1>5. Early(Session) => Early(Session)'
  BY <1>1 DEF Early
<1> QED
  BY <1>2, <1>3, <1>4, <1>5 DEF DecisionsOK

\* A verdict reads nothing that changes after it was given.
LEMMA VerdictKept ==
  ASSUME UNCHANGED <<terminal, given, ev, recorded, required, failure, bundle>>,
         bundle = Satisfied(enumerationComplete(terminal), recorded)
  PROVE  bundle' = Satisfied(enumerationComplete(terminal), recorded)'
<1>1. Rules' = Rules
  BY DEF Rules, Order
<1>2. enumerationComplete(terminal)' = enumerationComplete(terminal)
  BY DEF enumerationComplete
<1> QED
  BY <1>1, <1>2 DEF Satisfied, ReportSatisfied

\* The live snapshots can be counted.
LEMMA LiveIsFinite == Live \subseteq Resources /\ IsFiniteSet(Live) /\ Cardinality(Live) \in Nat
<1>1. Live \subseteq Resources /\ IsFiniteSet(Resources)
  BY CatalogAssumption DEF Live
<1> QED
  BY <1>1, FS_Subset, FS_CardinalityType

\* A caller closes the snapshot it still owns.
LEMMA CloseStep ==
  ASSUME SessionInv, NEW r \in Resources, Close(r)
  PROVE  SessionInv'
<1>1. /\ snapshot[r] = "caller" /\ snapshot' = [snapshot EXCEPT ![r] = "closed"] /\ usage' = usage - 1
      /\ UNCHANGED <<phase, terminal, retained, given, required, ev, adoptions, rootDoc, decisions,
                     recorded, failure, bundle>>
  BY DEF Close
<1>2. snapshot \in [Resources -> {"caller", "package", "closed"}]
  BY DEF SessionInv, OwnersOK
<1>3. DecisionsOK'
  BY <1>1, Frozen DEF SessionInv
<1>4. OwnersOK'
  <2>1. snapshot' \in [Resources -> {"caller", "package", "closed"}]
    BY <1>1, <1>2
  <2>2. Live' = Live \ {r} /\ r \in Live
    BY <1>1, <1>2 DEF Live
  <2>3. Cardinality(Live \ {r}) = Cardinality(Live) - 1
    BY <2>2, LiveIsFinite, FS_RemoveElement
  <2>4. Cardinality(Live)' = Cardinality(Live) - 1
    BY <2>2, <2>3
  <2>5. retained \in Nat /\ (phase = "new" => retained = 0) /\ usage = retained + Cardinality(Live)
    BY DEF SessionInv, OwnersOK
  <2>6. usage' = retained' + Cardinality(Live)'
    BY <1>1, <2>4, <2>5, LiveIsFinite
  <2> QED
    BY <1>1, <2>1, <2>5, <2>6 DEF OwnersOK
<1>5. RequiredOK' /\ EvidenceOK(ev)'
  BY <1>1 DEF SessionInv, RequiredOK
<1>6. FinishedOK'
  <2> SUFFICES ASSUME phase = "finished"
               PROVE  /\ bundle' = Satisfied(enumerationComplete(terminal), recorded)'
                      /\ retained' = 0 /\ Owned' = {}
    BY <1>1 DEF FinishedOK
  <2>1. bundle = Satisfied(enumerationComplete(terminal), recorded) /\ retained = 0 /\ Owned = {}
    BY DEF SessionInv, FinishedOK
  <2>2. bundle' = Satisfied(enumerationComplete(terminal), recorded)'
    BY <1>1, <2>1, VerdictKept
  <2>3. Owned' = {}
    BY <1>1, <1>2, <2>1 DEF Owned
  <2> QED
    BY <1>1, <2>1, <2>2, <2>3
<1> QED
  BY <1>1, <1>3, <1>4, <1>5, <1>6 DEF SessionInv

\* A pass that decides for good: what it needs and what it gives.
LastReady(st, e, rules, Q) ==
  PassOK(st, e) /\ Settled(st, e, Q) /\ (rules = BoundaryRules \/ BoundaryRules \subseteq Q)
LastDone(st, t, e, cut, Q) ==
  PassOK(t, e) /\ Settled(t, e, Q) /\ (cut = <<None, None>> => t.terminal = st.terminal)

\* A pass of finish settles its rules.
LEMMA LastPass ==
  ASSUME given \in Inputs, NEW e, EvidenceOK(e), NEW st, NEW rules, NEW cut, NEW Q,
         LastReady(st, e, rules, Q)
  PROVE  LastDone(st, Evaluate(st, rules, e, TRUE, cut), e, cut, Q \cup rules)
<1>1. PICK last \in BOOLEAN : last = TRUE
  OBVIOUS
<1>2. PICK no : no = {}
  OBVIOUS
<1>3. PassOK(st, e) /\ Prompt(st, e, no)
  BY <1>2 DEF LastReady, Prompt
<1>4. Closing(rules, last, Q) /\ Settling(last, st, e, Q)
  BY DEF Closing, Settling, LastReady
<1>5. PICK t : t = Evaluate(st, rules, e, last, cut)
  OBVIOUS
<1>6. /\ PassOK(t, e) /\ Settling(last, t, e, Q \cup rules)
      /\ cut = <<None, None>> => t.terminal = st.terminal
  <2>1. PassDone(st, Evaluate(st, rules, e, last, cut), e, rules, last, cut, no, Q)
    BY <1>3, <1>4, Pass
  <2> QED
    BY <1>5, <2>1 DEF PassDone
<1>7. LastDone(st, t, e, cut, Q \cup rules)
  BY <1>1, <1>6 DEF LastDone, Settling
<1>8. t = Evaluate(st, rules, e, TRUE, cut)
  BY <1>1, <1>5
<1> QED
  BY <1>7, <1>8

\* The last passes settle every rule.
LEMMA FinalPasses ==
  ASSUME given \in Inputs, NEW e, EvidenceOK(e), NEW st, PassOK(st, e), NEW cut
  PROVE  LET t == finalPasses(st, e, cut) IN
         /\ PassOK(t, e) /\ Settled(t, e, PackageRules)
         /\ cut = <<None, None>> => t.terminal = st.terminal
<1>1. PICK t1 : t1 = Evaluate(st, BoundaryRules, e, TRUE, cut)
  OBVIOUS
<1>2. PICK own : own = {"mimetype-no-prefix"}
  OBVIOUS
<1>3. PICK t2 : t2 = Evaluate(t1, own, e, TRUE, cut)
  OBVIOUS
<1>4. PICK root : root = {"first-root"}
  OBVIOUS
<1>5. PICK t3 : t3 = Evaluate(t2, root, e, TRUE, cut)
  OBVIOUS
<1>6. finalPasses(st, e, cut) = t3
  BY <1>1, <1>2, <1>3, <1>4, <1>5 DEF finalPasses
<1>7. PICK no : no = {}
  OBVIOUS
<1>8. LastDone(st, t1, e, cut, no \cup BoundaryRules)
  <2>1. LastReady(st, e, BoundaryRules, no)
    BY <1>7 DEF LastReady, Settled
  <2> QED
    BY <1>1, <2>1, LastPass
<1>9. LastDone(t1, t2, e, cut, BoundaryRules \cup own)
  <2>1. LastReady(t1, e, own, BoundaryRules)
    BY <1>7, <1>8 DEF LastReady, LastDone, Settled
  <2> QED
    BY <1>3, <2>1, LastPass
<1>10. LastDone(t2, t3, e, cut, (BoundaryRules \cup own) \cup root)
  <2>1. LastReady(t2, e, root, BoundaryRules \cup own)
    BY <1>9 DEF LastReady, LastDone
  <2> QED
    BY <1>5, <2>1, LastPass
<1>11. (BoundaryRules \cup own) \cup root = PackageRules
  BY <1>2, <1>4 DEF PackageRules
<1> QED
  BY <1>6, <1>8, <1>9, <1>10, <1>11 DEF LastDone

\* finish decides what is left, computes the verdict and gives everything back.
LEMMA FinishStep ==
  ASSUME SessionInv, NEW cause \in BOOLEAN, finish(cause)
  PROVE  SessionInv'
<1>1. /\ phase = "running" /\ phase' = "finished" /\ cleanup
      /\ UNCHANGED <<given, required, ev, adoptions, rootDoc, failure>>
  BY DEF finish
<1>2. PICK cut \in Cuts :
        LET st == finalPasses([Session EXCEPT !.terminal = @ \/ cause], ev, cut)
            enumeration == enumerationComplete(st.terminal)
        IN Recorded(st) /\ bundle' = Satisfied(enumeration, st.recorded)
  BY DEF finish
<1>3. PICK s : s = [Session EXCEPT !.terminal = @ \/ cause]
  OBVIOUS
<1>4. PICK st : st = finalPasses(s, ev, cut)
  OBVIOUS
<1>5. /\ terminal' = st.terminal /\ decisions' = st.decisions /\ recorded' = st.recorded
      /\ bundle' = Satisfied(enumerationComplete(st.terminal), st.recorded)
  BY <1>2, <1>3, <1>4 DEF Recorded
<1>6. given \in Inputs /\ EvidenceOK(ev) /\ PassOK(Session, ev)
  BY DEF SessionInv, DecisionsOK
<1>7. PassOK(s, ev)
  <2>1. /\ Session.terminal = terminal /\ Session.decisions = decisions
        /\ Session.recorded = recorded /\ Session.kept = 0
        /\ s = [terminal |-> terminal \/ cause, decisions |-> decisions,
                recorded |-> recorded, kept |-> 0]
    BY <1>3 DEF Session
  <2>2. Typed(Session) /\ Justified(decisions, ev) /\ Counted(Session)
    BY <1>6, <2>1 DEF PassOK
  <2>3. terminal \in BOOLEAN /\ decisions \in [Rules -> Outcomes \cup {None}]
        /\ recorded \in [Rules -> Seq(Outcomes)] /\ 0 \in Nat
    BY <2>1, <2>2, Fields
  <2>4. Typed(s)
    BY <2>1, <2>3 DEF Typed
  <2>5. s.decisions = decisions /\ s.recorded = recorded /\ (terminal => s.terminal)
    BY <2>1
  <2>6. Counted(s)
    BY <2>1, <2>2, <2>5 DEF Counted
  <2> QED
    BY <2>2, <2>4, <2>5, <2>6 DEF PassOK
<1>8. PassOK(st, ev) /\ Settled(st, ev, PackageRules)
  BY <1>4, <1>6, <1>7, FinalPasses
<1>9. DecisionsOK'
  <2>1. Session' = [terminal |-> st.terminal, decisions |-> st.decisions, recorded |-> st.recorded, kept |-> 0]
    BY <1>5 DEF Session
  <2>2. Rules' = Rules
    BY <1>1 DEF Rules, Order
  <2>3. Typed(st) /\ Justified(st.decisions, ev) /\ Counted(st)
    BY <1>8 DEF PassOK
  <2>4. Typed(Session)'
    <3>1. /\ st.terminal \in BOOLEAN /\ st.decisions \in [Rules -> Outcomes \cup {None}]
          /\ st.recorded \in [Rules -> Seq(Outcomes)] /\ 0 \in Nat
      BY <2>3, Fields
    <3> QED
      BY <2>1, <2>2, <3>1 DEF Typed
  <2>5. Justified(Session.decisions, ev)'
    BY <1>1, <2>1, <2>2, <2>3 DEF Justified
  <2>6. Counted(Session)'
    BY <2>1, <2>2, <2>3 DEF Counted
  <2>7. Settled(Session, ev, PackageRules)'
    BY <1>1, <1>8, <2>1, <2>2 DEF Settled
  <2> QED
    BY <1>1, <2>4, <2>5, <2>6, <2>7 DEF DecisionsOK, PassOK
<1>10. snapshot \in [Resources -> {"caller", "package", "closed"}]
  BY DEF SessionInv, OwnersOK
<1>11. /\ usage' = usage - Cardinality(Owned) - retained /\ retained' = 0
       /\ snapshot' = [r \in Resources |-> IF r \in Owned THEN "closed" ELSE snapshot[r]]
  BY <1>1 DEF cleanup
<1>12. snapshot' \in [Resources -> {"caller", "package", "closed"}]
       /\ \A r \in Resources : snapshot'[r] = IF r \in Owned THEN "closed" ELSE snapshot[r]
  BY <1>10, <1>11
<1>13. Owned' = {} /\ Live' = Live \ Owned /\ Owned \subseteq Live
  BY <1>12 DEF Owned, Live
<1>14. OwnersOK'
  <2>1. Cardinality(Live \ Owned) = Cardinality(Live) - Cardinality(Owned)
        /\ Cardinality(Owned) \in Nat
    <3>1. IsFiniteSet(Owned)
      BY <1>13, LiveIsFinite, FS_Subset
    <3>2. Live \cap Owned = Owned
      BY <1>13
    <3>3. Cardinality(Live \ Owned) = Cardinality(Live) - Cardinality(Live \cap Owned)
      BY <3>1, LiveIsFinite, FS_Difference
    <3> QED
      BY <3>1, <3>2, <3>3, FS_CardinalityType
  <2>2. Cardinality(Live)' = Cardinality(Live) - Cardinality(Owned)
    BY <1>13, <2>1
  <2>3. retained \in Nat /\ usage = retained + Cardinality(Live)
    BY DEF SessionInv, OwnersOK
  <2>4. usage' = retained' + Cardinality(Live)'
    BY <1>11, <2>1, <2>2, <2>3, LiveIsFinite
  <2> QED
    BY <1>1, <1>11, <1>12, <2>4 DEF OwnersOK
<1>15. RequiredOK' /\ EvidenceOK(ev)'
  BY <1>1 DEF SessionInv, RequiredOK
<1>16. FinishedOK'
  <2>1. Rules' = Rules
    BY <1>1 DEF Rules, Order
  <2>2. enumerationComplete(terminal)' = enumerationComplete(st.terminal)
    BY <1>1, <1>5 DEF enumerationComplete
  <2>3. Satisfied(enumerationComplete(terminal), recorded)'
          = Satisfied(enumerationComplete(st.terminal), st.recorded)
    BY <1>1, <1>5, <2>1, <2>2 DEF Satisfied, ReportSatisfied
  <2> QED
    BY <1>5, <1>11, <1>13, <2>3 DEF FinishedOK
<1> QED
  BY <1>1, <1>9, <1>14, <1>15, <1>16 DEF SessionInv

-----------------------------------------------------------------------------
(* The invariant                                                            *)

\* A new session.
LEMMA InitSession == Init => SessionInv
<1> SUFFICES ASSUME Init PROVE SessionInv
  OBVIOUS
<1>1. /\ phase = "new" /\ terminal = FALSE /\ usage = Cardinality(Resources) /\ retained = 0
      /\ snapshot = [r \in Resources |-> "caller"] /\ given \in Inputs /\ required = {}
      /\ ev = NoEvidence /\ rootDoc = None /\ decisions = [rule \in Rules |-> None]
      /\ recorded = [rule \in Rules |-> <<>>] /\ failure = FALSE
  BY DEF Init
<1>2. EvidenceOK(ev)
  <2>1. ev = [open |-> FALSE, sealed |-> FALSE, complete |-> FALSE, members |-> "open",
              entries |-> {}, late |-> FALSE, mimetype |-> None, rootfile |-> None, roles |-> None,
              expansion |-> [c \in Contexts |-> None]]
    BY <1>1 DEF NoEvidence
  <2>2. [c \in Contexts |-> None] \in [Contexts -> {None, "open", "complete", "partial"}]
    OBVIOUS
  <2> QED
    BY <2>1, <2>2 DEF EvidenceOK
<1>3. ~ev.open
  BY <1>1 DEF NoEvidence
<1>4. /\ Session.terminal = FALSE /\ Session.decisions = decisions /\ Session.recorded = recorded
      /\ Session = [terminal |-> FALSE, decisions |-> decisions, recorded |-> recorded, kept |-> 0]
  BY <1>1 DEF Session
<1>5. Typed(Session)
  <2>1. decisions \in [Rules -> Outcomes \cup {None}] /\ recorded \in [Rules -> Seq(Outcomes)]
    BY <1>1
  <2> QED
    BY <1>4, <2>1 DEF Typed
<1>6. \A r \in Rules : decisions[r] = None /\ recorded[r] = <<>>
  BY <1>1
<1>7. PassOK(Session, ev) /\ Early(Session)
  BY <1>4, <1>5, <1>6 DEF PassOK, Justified, Counted, Early
<1>8. Prompt(Session, ev, PackageRules)
  BY <1>2, <1>3, Subjects DEF Prompt
<1>9. DecisionsOK
  BY <1>1, <1>7, <1>8 DEF DecisionsOK
<1>10. OwnersOK
  <2>1. Live = Resources /\ snapshot \in [Resources -> {"caller", "package", "closed"}]
    BY <1>1 DEF Live
  <2>2. Cardinality(Live) \in Nat
    BY LiveIsFinite
  <2> QED
    BY <1>1, <2>1, <2>2 DEF OwnersOK
<1>11. RequiredOK
  BY <1>1 DEF RequiredOK, NoEvidence
<1>12. FinishedOK
  BY <1>1 DEF FinishedOK
<1> QED
  BY <1>1, <1>2, <1>9, <1>10, <1>11, <1>12 DEF SessionInv

\* One step per call of the session.
LEMMA SessionStep == SessionInv /\ [Next]_vars => SessionInv'
<1> SUFFICES ASSUME SessionInv, [Next]_vars PROVE SessionInv'
  OBVIOUS
<1>1. CASE UNCHANGED vars
  <2>1. UNCHANGED <<phase, terminal, usage, retained, snapshot, given, required, ev, rootDoc,
                    decisions, recorded, failure, bundle>>
    BY <1>1 DEF vars
  <2>2. DecisionsOK'
    BY <2>1, Frozen DEF SessionInv
  <2>3. OwnersOK' /\ RequiredOK' /\ EvidenceOK(ev)' /\ Owned' = Owned
    BY <2>1 DEF SessionInv, OwnersOK, Live, RequiredOK, Owned
  <2>4. FinishedOK'
    BY <2>1, <2>3, VerdictKept DEF SessionInv, FinishedOK
  <2> QED
    BY <2>1, <2>2, <2>3, <2>4 DEF SessionInv
<1>2. CASE \/ begin \/ Refuse \/ RefuseAdmitted
           \/ \E r \in Resources, need \in given.needs : addResource(r, need) \/ addResourceAgain(r, need)
           \/ \E r \in Resources : recordResourceFailure(r)
  BY <1>2, QuietStep
<1>3. CASE openPackage
  BY <1>3, OpenStep
<1>4. CASE \E entry \in given.entries : observeEntry(entry[1], entry[2])
  BY <1>4, EntryStep
<1>5. CASE \E bytes \in given.bytes : observeMimetype(bytes)
  BY <1>5, MimetypeStep
<1>6. CASE \E r \in Resources \cup {None}, entry \in BOOLEAN : observeRootfile(given.rootfile, r, entry)
  BY <1>6, RootfileStep
<1>7. CASE \E complete \in BOOLEAN : sealEnumeration(complete) \/ sealResourceMembers(complete)
  BY <1>7, SealStep, MembersStep
<1>8. CASE \E answer \in given.answers : observeRoles(answer)
  BY <1>8, RolesStep
<1>9. CASE \E c \in given.contexts, root \in BOOLEAN : adoptResource(c, root)
  BY <1>9, AdoptStep
<1>10. CASE \E c \in given.contexts, complete \in BOOLEAN : sealResourceExpansion(c, complete)
  BY <1>10, ExpansionStep
<1>11. CASE \E r \in Resources : Close(r)
  BY <1>11, CloseStep
<1>12. CASE \E cause \in BOOLEAN : finish(cause)
  BY <1>12, FinishStep
<1> QED
  BY <1>1, <1>2, <1>3, <1>4, <1>5, <1>6, <1>7, <1>8, <1>9, <1>10, <1>11, <1>12 DEF Next

\* SessionInv is an inductive invariant of a package session: its evidence and
\* decisions are well typed, every decision is justified by what was observed,
\* and the account is charged for what lives.
THEOREM SessionInductive == Spec => []SessionInv
BY InitSession, SessionStep, PTL DEF Spec

\* Every live snapshot is charged once, and a finished session holds nothing,
\* for every order of transfers, failures and closes.
THEOREM SnapshotsHaveOneOwner == Spec => []SoleOwner
<1>1. SessionInv => SoleOwner
  BY DEF SessionInv, OwnersOK, Live, FinishedOK, SoleOwner
<1> QED
  BY <1>1, SessionInductive, PTL

-----------------------------------------------------------------------------
(* The reference                                                            *)

\* A single pass over the evidence is justified and leaves no rule with a
\* subject undecided.
Total(known, e) == \A r \in Rules : HasSubject(r, e) => known[r] # None

\* The reference is such a pass.
LEMMA ReferenceIs ==
  ASSUME given \in Inputs, EvidenceOK(ev)
  PROVE  /\ Justified(Reference, ev) /\ Total(Reference, ev)
         /\ Reference \in [Rules -> Outcomes \cup {None}]
<1>1. PICK st : st = [terminal |-> FALSE, decisions |-> [rule \in Rules |-> None],
                      recorded |-> [rule \in Rules |-> <<>>], kept |-> 0]
  OBVIOUS
<1>2. PICK cut : cut = <<None, None>>
  OBVIOUS
<1>3. /\ st.terminal = FALSE /\ st.decisions = [rule \in Rules |-> None]
      /\ st.recorded = [rule \in Rules |-> <<>>]
  BY <1>1
<1>4. Typed(st)
  <2>1. [rule \in Rules |-> None] \in [Rules -> Outcomes \cup {None}]
        /\ [rule \in Rules |-> <<>>] \in [Rules -> Seq(Outcomes)]
    OBVIOUS
  <2> QED
    BY <1>1, <2>1 DEF Typed
<1>5. PassOK(st, ev)
  BY <1>3, <1>4 DEF PassOK, Justified, Counted
<1>6. PICK t : t = finalPasses(st, ev, cut)
  OBVIOUS
<1>7. PassOK(t, ev) /\ Settled(t, ev, PackageRules) /\ t.terminal = st.terminal
  BY <1>2, <1>5, <1>6, FinalPasses
<1>8. Reference = t.decisions
  BY <1>1, <1>2, <1>6 DEF Reference
<1>9. Rules \subseteq PackageRules
  BY Catalog
<1>10. Total(t.decisions, ev)
  BY <1>3, <1>7, <1>9 DEF Settled, Total
<1>11. t.decisions \in [Rules -> Outcomes \cup {None}]
  BY <1>7 DEF PassOK, Typed
<1> QED
  BY <1>7, <1>8, <1>10, <1>11 DEF PassOK

\* Justified decisions are unique: requirements come first in the order.
LEMMA DecisionsAgree ==
  ASSUME given \in Inputs, NEW e, NEW D, NEW R, Justified(D, e), Justified(R, e), Total(R, e)
  PROVE  \A r \in Rules : D[r] # None => D[r] = R[r]
<1> DEFINE Bad == {i \in 1..Len(Order) : D[Order[i]] # None /\ D[Order[i]] # R[Order[i]]}
<1>1. /\ Len(Order) \in Nat /\ Rules = {Order[i] : i \in 1..Len(Order)}
      /\ \A i \in 1..Len(Order) : Requires[Order[i]] \subseteq {Order[k] : k \in 1..(i - 1)}
  BY Catalog
<1>2. Bad = {}
  <2> SUFFICES ASSUME Bad # {} PROVE FALSE
    OBVIOUS
  <2>1. Bad \subseteq Nat
    BY <1>1
  <2>2. PICK i \in Bad : \A j \in Bad : i <= j
    BY <2>1, LeastElement
  <2> DEFINE r == Order[i]
  <2>3. i \in 1..Len(Order) /\ r \in Rules /\ D[r] # None /\ D[r] # R[r]
    BY <1>1
  <2>4. \A k \in 1..(i - 1) : k \in 1..Len(Order) /\ k \notin Bad
    <3> SUFFICES ASSUME NEW k \in 1..(i - 1) PROVE k \in 1..Len(Order) /\ k \notin Bad
      OBVIOUS
    <3>1. i \in Nat /\ k \in Nat /\ ~(i <= k) /\ k \in 1..Len(Order)
      BY <1>1, <2>3
    <3> QED
      BY <2>2, <3>1
  <2>5. /\ HasSubject(r, e) /\ D[r] = Decide(r, D, e)
        /\ \A q \in Requires[r] : D[q] # None
    BY <2>3 DEF Justified
  <2>6. R[r] = Decide(r, R, e)
    BY <2>3, <2>5 DEF Total, Justified
  <2>7. \A q \in Requires[r] : D[q] = R[q]
    <3> SUFFICES ASSUME NEW q \in Requires[r] PROVE D[q] = R[q]
      OBVIOUS
    <3>1. PICK k \in 1..(i - 1) : q = Order[k]
      BY <1>1, <2>3
    <3>2. k \in 1..Len(Order) /\ k \notin Bad
      BY <2>4
    <3> QED
      BY <2>5, <3>1, <3>2
  <2> HIDE DEF r
  <2>8. Decide(r, D, e) = Decide(r, R, e)
    BY <2>7, DecideSame
  <2> QED
    BY <2>3, <2>5, <2>6, <2>8
<1> QED
  BY <1>1, <1>2

\* What the invariant says of the decisions and the reference.
LEMMA Agreement ==
  ASSUME SessionInv
  PROVE  /\ \A r \in Rules : decisions[r] # None => decisions[r] = Reference[r]
         /\ \A r \in Rules : Reference[r] # None =>
              HasSubject(r, ev) /\ (Requires[r] = {} => Reference[r] = Check(r, ev))
         /\ phase = "finished" /\ ~terminal => decisions = Reference
<1>1. /\ given \in Inputs /\ EvidenceOK(ev) /\ PassOK(Session, ev)
      /\ phase = "finished" => Settled(Session, ev, PackageRules)
  BY DEF SessionInv, DecisionsOK
<1>2. Session.decisions = decisions /\ Session.terminal = terminal
  BY DEF Session
<1>3. Justified(decisions, ev)
  BY <1>1, <1>2 DEF PassOK
<1>4. PICK R : R = Reference
  OBVIOUS
<1>5. Justified(R, ev) /\ Total(R, ev) /\ R \in [Rules -> Outcomes \cup {None}]
  BY <1>1, <1>4, ReferenceIs
<1>6. \A r \in Rules : decisions[r] # None => decisions[r] = R[r]
  BY <1>1, <1>3, <1>5, DecisionsAgree
<1>7. \A r \in Rules : R[r] # None => HasSubject(r, ev) /\ (Requires[r] = {} => R[r] = Check(r, ev))
  BY <1>5, Unconditional DEF Justified
<1>8. ASSUME phase = "finished", ~terminal, NEW r \in Rules PROVE decisions[r] = R[r]
  <2>1. HasSubject(r, ev) => decisions[r] # None
    BY <1>1, <1>2, <1>8, Catalog DEF Settled
  <2> QED
    BY <1>6, <1>7, <2>1
<1>9. decisions \in [Rules -> Outcomes \cup {None}]
  BY <1>1, <1>2 DEF PassOK, Typed
<1>10. phase = "finished" /\ ~terminal => decisions = R
  BY <1>5, <1>8, <1>9
<1> QED
  BY <1>4, <1>6, <1>7, <1>10

\* What was counted, seen from the variables.
LEMMA CountedIs ==
  ASSUME SessionInv, NEW r \in Rules
  PROVE  /\ decisions[r] \in Outcomes \cup {None} /\ recorded[r] \in Seq(Outcomes)
         /\ decisions[r] # None => recorded[r] = <<decisions[r]>>
         /\ decisions[r] = None => recorded[r] = <<>> \/ (terminal /\ Len(recorded[r]) = 1)
<1>1. Typed(Session) /\ Counted(Session)
  BY DEF SessionInv, DecisionsOK, PassOK
<1>2. Session.decisions = decisions /\ Session.terminal = terminal /\ Session.recorded = recorded
  BY DEF Session
<1>3. decisions \in [Rules -> Outcomes \cup {None}] /\ recorded \in [Rules -> Seq(Outcomes)]
  BY <1>1, <1>2 DEF Typed
<1> QED
  BY <1>1, <1>2, <1>3 DEF Counted

-----------------------------------------------------------------------------
(* What a session reports                                                   *)

\* What a package session has decided at any time is what a single pass over
\* the evidence collected so far decides, and an untroubled finish has decided
\* all of it.
THEOREM EarlyPackageDecisionsAreFinal == Spec => []EarlyDecisionsAgree
<1>1. SessionInv => EarlyDecisionsAgree
  BY Agreement DEF EarlyDecisionsAgree
<1> QED
  BY <1>1, SessionInductive, PTL

\* While a package session runs, every unconditional rule its evidence decides
\* has been counted, and no rule is ever counted twice.
THEOREM NothingIsDeferred == Spec => []NothingDeferred
<1>1. ASSUME SessionInv PROVE NothingDeferred
  <2>1. given \in Inputs /\ (phase # "finished" => Prompt(Session, ev, PackageRules))
    BY <1>1 DEF SessionInv, DecisionsOK
  <2>2. Rules \subseteq PackageRules
    BY <2>1, Catalog
  <2>3. None \notin Decisive
    BY NoneIs DEF Outcomes
  <2>4. Session.decisions = decisions /\ Session.terminal = terminal
    BY DEF Session
  <2>5. PICK R : R = Reference
    OBVIOUS
  <2>6. /\ \A r \in Rules : decisions[r] # None => decisions[r] = R[r]
        /\ \A r \in Rules : R[r] # None => HasSubject(r, ev) /\ (Requires[r] = {} => R[r] = Check(r, ev))
    BY <1>1, <2>5, Agreement
  <2>7. ASSUME phase = "running", ~terminal, NEW r \in Rules, Requires[r] = {}, R[r] \in Decisive
        PROVE  recorded[r] = <<R[r]>>
    <3>1. HasSubject(r, ev) /\ Check(r, ev) \in Decisive
      BY <2>3, <2>6, <2>7
    <3>2. decisions[r] # None
      BY <2>1, <2>2, <2>4, <2>7, <3>1 DEF Prompt
    <3> QED
      BY <1>1, <2>6, <3>2, CountedIs
  <2>8. ASSUME NEW r \in Rules PROVE Len(recorded[r]) <= 1
    <3>1. recorded[r] = <<decisions[r]>> \/ recorded[r] = <<>> \/ Len(recorded[r]) = 1
      BY <1>1, CountedIs
    <3>2. Len(<<decisions[r]>>) = 1 /\ Len(<<>>) = 0
      OBVIOUS
    <3>3. Len(recorded[r]) \in {0, 1}
      BY <3>1, <3>2, Zenon
    <3> QED
      BY <3>3
  <2> QED
    BY <2>5, <2>7, <2>8 DEF NothingDeferred
<1> QED
  BY <1>1, SessionInductive, PTL

\* A rule counted once, or not at all, is good when its decision is.
LEMMA GoodCount ==
  ASSUME SessionInv, ~terminal, NEW r \in Rules
  PROVE  ToSet(recorded[r]) \subseteq {"pass", "not-applicable"}
           <=> (decisions[r] # None => decisions[r] \in {"pass", "not-applicable"})
<1>1. CASE decisions[r] # None
  <2>1. recorded[r] = <<decisions[r]>>
    BY <1>1, CountedIs
  <2>2. ToSet(recorded[r]) = {decisions[r]}
    BY <2>1 DEF ToSet
  <2> QED
    BY <1>1, <2>2
<1>2. CASE decisions[r] = None
  <2>1. recorded[r] = <<>>
    BY <1>2, CountedIs
  <2>2. ToSet(recorded[r]) = {}
    BY <2>1 DEF ToSet
  <2> QED
    BY <1>2, <2>2
<1> QED
  BY <1>1, <1>2

\* The documents a bundle relies on are the required ones.
LEMMA ReliesOn ==
  ASSUME SessionInv
  PROVE  required \subseteq given.satisfied
           <=> (IF ev.rootfile = None THEN {} ELSE {ev.rootfile.resource}) \cup {rootDoc} \cup required
                 \subseteq given.satisfied \cup {None}
<1>1. required \subseteq Resources /\ rootDoc \in required \cup {None} /\ None \notin required
  BY NoneIs DEF SessionInv, RequiredOK
<1>2. ev.rootfile # None => ev.rootfile.resource \in required \cup {None}
  BY DEF SessionInv, RequiredOK
<1> QED
  BY <1>1, <1>2

\* A finished session's bundle is satisfied exactly when nothing was refused,
\* everything was enumerated, the blocking rules pass on all the evidence and
\* the documents relied on are satisfied.
THEOREM BundlesAreSound == Spec => []BundleSound
<1>1. ASSUME SessionInv PROVE BundleSound
  <2>1. PICK R : R = Reference
    OBVIOUS
  <2> DEFINE Relied == (IF ev.rootfile = None THEN {} ELSE {ev.rootfile.resource})
                          \cup {rootDoc} \cup required \subseteq given.satisfied \cup {None}
             Good == \A r \in Rules \ Advisory : R[r] # None => R[r] \in {"pass", "not-applicable"}
             Closed == \A c \in Admitted(ev) : ev.expansion[c] = "complete"
  <2>2. required \subseteq given.satisfied <=> Relied
    BY <1>1, ReliesOn
  <2>3. phase = "finished" => bundle = Satisfied(enumerationComplete(terminal), recorded)
    BY <1>1 DEF SessionInv, FinishedOK
  <2>4. ASSUME phase = "finished", ~terminal
        PROVE  Good <=> \A r \in Rules \ Advisory : ToSet(recorded[r]) \subseteq {"pass", "not-applicable"}
    <3>1. decisions = R
      BY <1>1, <2>1, <2>4, Agreement
    <3> QED
      BY <1>1, <2>4, <3>1, GoodCount
  <2>5. Satisfied(enumerationComplete(terminal), recorded)
          <=> /\ ~terminal /\ ~failure /\ Enumerated(ev) /\ Closed
              /\ \A r \in Rules \ Advisory : ToSet(recorded[r]) \subseteq {"pass", "not-applicable"}
              /\ required \subseteq given.satisfied
    BY DEF Satisfied, ReportSatisfied, enumerationComplete
  <2>6. Satisfied(enumerationComplete(terminal), recorded) \in BOOLEAN
    BY DEF Satisfied
  <2> HIDE DEF Relied, Good, Closed
  <2>7. phase = "finished" => (bundle <=> ~terminal /\ ~failure /\ Enumerated(ev) /\ Closed /\ Good /\ Relied)
    BY <2>2, <2>3, <2>4, <2>5, <2>6
  <2> QED
    BY <2>1, <2>7 DEF BundleSound, Relied, Good, Closed
<1> QED
  BY <1>1, SessionInductive, PTL
=============================================================================
