--------------------------- MODULE PackageSession ---------------------------
(***************************************************************************)
(* PackageSession (validation/package_session.go, package_evaluate.go,     *)
(* package_expansion.go, package_report.go): the coordinator that collects *)
(* what an adapter observed of one package (entries, mimetype bytes,       *)
(* rootfile, roles), takes over the snapshots of its documents, and        *)
(* decides the package rules.  A rule is tried after every observation and *)
(* what it can decide early is recorded at once, so that a later           *)
(* cancellation cannot lose it; the rest is decided when the boundary is   *)
(* sealed or the session finishes.                                         *)
(*                                                                         *)
(* Every refused call is terminal.  Any charge may be refused and the      *)
(* context may be done at any check, so a refusal is a choice.  One root   *)
(* package with one rootfile; its documents have no outgoing links (they   *)
(* are in ResourceGraph).  Every retained value counts 1.                  *)
(***************************************************************************)
EXTENDS Integers, FiniteSets, Sequences, SequencesExt

CONSTANTS
  Resources,    \* assessed documents
  Contexts,     \* <<resource, archive path, base URI>> of the possible adoptions
  Requires,     \* rule -> the boundary rules it requires
  Inputs,       \* the packages and profiles to assess
  MaxAdoptions, \* bound on the adoptions of a session
  None          \* not there

BoundaryRules == {"container-path", "mimetype-advice", "score-before-parts"}
PackageRules == BoundaryRules \cup {"mimetype-no-prefix", "first-root"}
Decisive == {"pass", "fail", "not-applicable"}
ResourceOf(c) == c[1]
PathOf(c) == c[2]
Paths == {PathOf(c) : c \in Contexts}
Advisory == {"mimetype-advice"}     \* RoleAdvisory: never blocks acceptance

ASSUME CatalogAssumption ==
  /\ IsFiniteSet(Resources)
  /\ None \notin Resources \cup PackageRules \cup Decisive
                 \cup {"unknown", "blocked", "open", "complete", "partial", "exact", "padded"}
  /\ \A c \in Contexts : ResourceOf(c) \in Resources
  /\ Requires \in [PackageRules -> SUBSET BoundaryRules]
  /\ MaxAdoptions \in Nat
  /\ \A i \in Inputs :
       /\ i.contexts \subseteq Contexts /\ i.rootfile \in Paths
       /\ i.satisfied \subseteq Resources
       /\ i.needs \subseteq BOOLEAN /\ i.bytes \subseteq {"exact", "padded", "partial"}
       /\ i.entries \subseteq (Paths \cup {"container", "mimetype"}) \X BOOLEAN
       /\ i.answers \subseteq [Contexts -> {"score", "part", "unknown"}] \X BOOLEAN
       /\ i.order \in Seq(PackageRules)
       /\ \A n \in DOMAIN i.order :
            Requires[i.order[n]] \subseteq {i.order[k] : k \in 1..(n - 1)}

VARIABLES
  phase,      \* "new", "running" or "finished"
  terminal,   \* s.terminal # nil
  usage,      \* buffered bytes in use on the shared account
  retained,   \* s.retained
  snapshot,   \* who owns each document's snapshot: "caller", "package", "closed"
  given,      \* the input: its order (the profile's rules in catalog order), entries
              \* (<<name, not the first one>>), contexts and path of the rootfile, the
              \* satisfied documents, the bytes of the mimetype, the role provider's
              \* answers (<<table, complete>>), and needs (whether a caller may transfer
              \* a document it does not require)
  required,   \* the resources whose report the bundle needs
  ev,         \* the evidence admitted, NoEvidence at first
  adoptions,  \* the number of adoptions
  rootDoc,    \* the resource of the root adoption, or None
  decisions,  \* rule -> its recorded decision, or None
  recorded,   \* rule -> the outcomes counted in the report
  failure,    \* a resource failure summary is stored
  bundle      \* whether the bundle finish returned is satisfied, or None

vars == <<phase, terminal, usage, retained, snapshot, given, required, ev, adoptions, rootDoc,
          decisions, recorded, failure, bundle>>

Order == given.order
Rules == {Order[i] : i \in DOMAIN Order}

NoEvidence ==
  [open |-> FALSE, sealed |-> FALSE, complete |-> FALSE,       \* the boundary, its enumeration
   members |-> "open",                                         \* sealResourceMembers
   entries |-> {}, late |-> FALSE, mimetype |-> None,          \* late: the mimetype is not first; its bytes
   rootfile |-> None, roles |-> None,
   expansion |-> [c \in Contexts |-> None]]

Admitted(e) == {c \in Contexts : e.expansion[c] # None}
Enumerated(e) == e.sealed /\ e.complete

-----------------------------------------------------------------------------
(* What the rules decide from the evidence e                                *)

containerPath(e) ==
  IF "container" \in e.entries THEN "pass" ELSE IF Enumerated(e) THEN "fail" ELSE "unknown"

mimetypeAdvice(e) ==
  IF "mimetype" \notin e.entries
    THEN IF Enumerated(e) THEN "fail" ELSE "unknown"
    ELSE IF e.late \/ e.mimetype = "padded" THEN "fail"
         ELSE IF e.mimetype = "exact" THEN "pass" ELSE "unknown"

packagePrefixDecision(e) ==
  IF e.mimetype = "padded" THEN "fail" ELSE IF e.mimetype = "exact" THEN "pass" ELSE "unknown"

\* A resolved rootfile names a document with a musical root: no other resource
\* is admitted here.
rootfileDecision(e) == IF e.rootfile.resource # None THEN "pass" ELSE "fail"

RoleOf(e, c) == e.roles.table[c]
HasRole(e, role) == \E c \in e.roles.members : RoleOf(e, c) = role

\* Every adopted context and every entry but mimetype was in the request.
roleUniverseComplete(e) ==
  /\ Enumerated(e)
  /\ Admitted(e) \subseteq e.roles.members
  /\ e.entries \ {"mimetype"} \subseteq {PathOf(c) : c \in e.roles.members}

\* Nothing but the container, the mimetype and the first rootfile's entry.
OnlyPrimary(e) ==
  /\ Enumerated(e) /\ e.rootfile # None
  /\ e.entries \subseteq {"container", "mimetype", e.rootfile.path}

\* No role was stated and the enumerated package holds a single document.
structuralScoreParts(e) ==
  /\ e.roles = None \/ \A c \in e.roles.members : RoleOf(e, c) = "unknown"
  /\ OnlyPrimary(e)

\* Whether the only member at the first rootfile's path is a score.
firstScore(e) ==
  LET firsts == {c \in Admitted(e) : e.rootfile # None /\ ResourceOf(c) = e.rootfile.resource
                                                       /\ PathOf(c) = e.rootfile.path}
      role == IF Cardinality(firsts) = 1 /\ firsts \subseteq e.roles.members
                THEN RoleOf(e, CHOOSE c \in firsts : TRUE) ELSE "unknown"
  IN [score |-> "pass", part |-> "fail", unknown |-> "unknown"][role]

\* Defect: the roles count before the member inventory is sealed.
RolesAnswered(e) == e.roles # None

\* The roles count once no member can be added any more.
RolesUsable(e) == e.roles # None /\ e.members = "complete"

scoreBeforeParts(e) ==
  IF RolesUsable(e) /\ HasRole(e, "score") /\ HasRole(e, "part") THEN firstScore(e)
  ELSE IF \/ RolesUsable(e) /\ e.roles.scope /\ ~HasRole(e, "unknown") /\ roleUniverseComplete(e)
          \/ structuralScoreParts(e)
          \/ OnlyPrimary(e) /\ e.rootfile.resource # None /\ e.rootfile.entry
         THEN "not-applicable"
  ELSE "unknown"

Check(rule, e) ==
  CASE rule = "container-path" -> containerPath(e)
    [] rule = "mimetype-advice" -> mimetypeAdvice(e)
    [] rule = "score-before-parts" -> scoreBeforeParts(e)
    [] rule = "mimetype-no-prefix" -> packagePrefixDecision(e)
    [] rule = "first-root" -> rootfileDecision(e)

\* The subject of the rule has been admitted.
HasSubject(rule, e) ==
  CASE rule = "mimetype-no-prefix" -> "mimetype" \in e.entries
    [] rule = "first-root" -> e.rootfile # None
    [] OTHER -> e.open

\* A missing predecessor is pending, one that neither passed nor was not
\* applicable blocks.
prerequisites(rule, known) ==
  LET outcomes == {known[r] : r \in Requires[rule]}
  IN IF None \in outcomes THEN "unknown"
     ELSE IF outcomes \subseteq {"pass", "not-applicable"} THEN "pass" ELSE "blocked"

Decide(rule, known, e) ==
  IF prerequisites(rule, known) = "pass" THEN Check(rule, e) ELSE prerequisites(rule, known)

-----------------------------------------------------------------------------
(* Recording decisions: passes in catalog order                             *)

Session == [terminal |-> terminal, decisions |-> decisions, recorded |-> recorded, kept |-> 0]

\* Where a pass may be stopped: at a rule's step charge, or at the charge of
\* its cached decision, when the outcome has been counted.
Cuts == (Rules \X {"step", "cache"}) \cup {<<None, None>>}

recordPrepared(st, rule, d, final, cut) ==
  CASE ~final /\ d \notin Decisive -> st
    [] (final \/ d \in Decisive) /\ cut = <<rule, "step">> -> [st EXCEPT !.terminal = TRUE]
    [] (final \/ d \in Decisive) /\ cut = <<rule, "cache">> ->
         [st EXCEPT !.terminal = TRUE, !.recorded[rule] = Append(@, d)]
    [] OTHER -> [st EXCEPT !.decisions[rule] = d, !.recorded[rule] = Append(@, d), !.kept = @ + 1]

\* One rule of a pass: those already decided are left alone.
Tried(acc, rule, rules, e, final, cut) ==
  IF acc.terminal \/ rule \notin rules \/ acc.decisions[rule] # None \/ ~HasSubject(rule, e)
    THEN acc
    ELSE recordPrepared(acc, rule, Decide(rule, acc.decisions, e), final, cut)

\* The rules of a set in catalog order.
Evaluate(st, rules, e, final, cut) ==
  LET after[i \in 0..Len(Order)] ==
        IF i = 0 THEN st ELSE Tried(after[i - 1], Order[i], rules, e, final, cut)
  IN after[Len(Order)]

evaluateBoundary(st, e, cut) == Evaluate(st, BoundaryRules, e, e.sealed, cut)

Recorded(st) ==
  /\ terminal' = st.terminal
  /\ decisions' = st.decisions
  /\ recorded' = st.recorded

-----------------------------------------------------------------------------
(* Ingress                                                                  *)

Running == phase = "running" /\ ~terminal

\* A call that was admitted: its evidence and what evaluating it recorded.
Admit(e, st) ==
  /\ ev' = e
  /\ usage' = usage + 1 + st.kept
  /\ retained' = retained + 1 + st.kept
  /\ Recorded(st)
  /\ UNCHANGED <<phase, snapshot, given, adoptions, rootDoc, failure, bundle>>

begin ==
  /\ phase = "new"
  /\ phase' = "running"
  /\ usage' = usage + 1
  /\ retained' = 1
  /\ UNCHANGED <<terminal, snapshot, given, required, ev, adoptions, rootDoc, decisions, recorded,
                 failure, bundle>>

\* A call refused before it changed anything: malformed, out of order, out
\* of budget or cancelled.
Refuse ==
  /\ Running
  /\ terminal' = TRUE
  /\ UNCHANGED <<phase, usage, retained, snapshot, given, required, ev, adoptions, rootDoc,
                 decisions, recorded, failure, bundle>>

\* An observation whose identity turns out to be taken once it was admitted.
RefuseAdmitted ==
  /\ Running
  /\ ev.open /\ ~ev.sealed
  /\ terminal' = TRUE
  /\ usage' = usage + 1
  /\ retained' = retained + 1
  /\ UNCHANGED <<phase, snapshot, given, required, ev, adoptions, rootDoc, decisions, recorded,
                 failure, bundle>>

openPackage ==
  /\ Running
  /\ ~ev.open
  /\ Admit([ev EXCEPT !.open = TRUE], Session)
  /\ UNCHANGED required

observeEntry(name, late) ==
  /\ Running
  /\ ev.open /\ ~ev.sealed
  /\ name \notin ev.entries
  /\ \E cut \in Cuts :
       LET e == [ev EXCEPT !.entries = @ \cup {name}, !.late = IF name = "mimetype" THEN late ELSE @]
           own == IF name = "mimetype" THEN {"mimetype-no-prefix"} ELSE {}
       IN Admit(e, evaluateBoundary(Evaluate(Session, own, e, FALSE, cut), e, cut))
  /\ UNCHANGED required

observeMimetype(bytes) ==
  /\ Running
  /\ ~ev.sealed
  /\ "mimetype" \in ev.entries /\ ev.mimetype = None
  /\ \E cut \in Cuts :
       LET e == [ev EXCEPT !.mimetype = bytes]
       IN Admit(e, evaluateBoundary(Evaluate(Session, {"mimetype-no-prefix"}, e, FALSE, cut), e, cut))
  /\ UNCHANGED required

observeRootfile(path, r, entry) ==
  /\ Running
  /\ ev.open /\ ~ev.sealed
  /\ ev.rootfile = None
  /\ r # None => snapshot[r] = "package"
  /\ entry => path \in ev.entries
  /\ \E cut \in Cuts :
       LET e == [ev EXCEPT !.rootfile = [path |-> path, resource |-> r, entry |-> entry]]
       IN Admit(e, evaluateBoundary(Evaluate(Session, {"first-root"}, e, FALSE, cut), e, cut))
  /\ required' = required \cup ({r} \ {None})

sealEnumeration(complete) ==
  /\ Running
  /\ ev.open /\ ~ev.sealed
  /\ \E cut \in Cuts :
       LET e == [ev EXCEPT !.sealed = TRUE, !.complete = complete]
       IN Admit(e, evaluateBoundary(Session, e, cut))
  /\ UNCHANGED required

observeRoles(answer) ==
  /\ Running
  /\ ev.open /\ ~ev.sealed
  /\ ev.roles = None
  /\ \E cut \in Cuts :
       LET e == [ev EXCEPT !.roles = [members |-> Admitted(ev), table |-> answer[1], scope |-> answer[2]]]
       IN Admit(e, evaluateBoundary(Session, e, cut))
  /\ UNCHANGED required

-----------------------------------------------------------------------------
(* Documents and their expansions                                           *)

\* The snapshot changes hands; nothing is charged for it again.
addResource(r, need) ==
  /\ Running
  /\ snapshot[r] = "caller"
  /\ snapshot' = [snapshot EXCEPT ![r] = "package"]
  /\ required' = IF need THEN required \cup {r} ELSE required
  /\ usage' = usage + 1
  /\ retained' = retained + 1
  /\ UNCHANGED <<phase, terminal, given, ev, adoptions, rootDoc, decisions, recorded, failure, bundle>>

\* The same snapshot a second time is the same resource.
addResourceAgain(r, need) ==
  /\ Running
  /\ snapshot[r] = "package"
  /\ required' = IF need THEN required \cup {r} ELSE required
  /\ UNCHANGED <<phase, terminal, usage, retained, snapshot, given, ev, adoptions, rootDoc,
                 decisions, recorded, failure, bundle>>

\* An adoption opens the expansion of its context, or is an alias of it.
adoptResource(c, root) ==
  /\ Running
  /\ adoptions < MaxAdoptions
  /\ ev.open /\ ~ev.sealed
  /\ snapshot[ResourceOf(c)] = "package"
  /\ ev.members # "open" => ev.expansion[c] # None
  /\ root => rootDoc = None /\ ev.expansion[c] = None
  /\ ev' = [ev EXCEPT !.expansion[c] = IF @ = None THEN "open" ELSE @]
  /\ adoptions' = adoptions + 1
  /\ rootDoc' = IF root THEN ResourceOf(c) ELSE rootDoc
  /\ required' = IF root THEN required \cup {ResourceOf(c)} ELSE required
  /\ usage' = usage + 1
  /\ retained' = retained + 1
  /\ UNCHANGED <<phase, terminal, snapshot, given, decisions, recorded, failure, bundle>>

sealResourceExpansion(c, complete) ==
  /\ Running
  /\ ~ev.sealed
  /\ ev.expansion[c] = "open"
  /\ Admit([ev EXCEPT !.expansion[c] = IF complete THEN "complete" ELSE "partial"], Session)
  /\ UNCHANGED required

\* Defect: sealing the members does not try the boundary's rules again.
SealMembersOnly(complete) ==
  /\ Running
  /\ ev.open /\ ~ev.sealed
  /\ ev.members = "open"
  /\ complete => \A c \in Admitted(ev) : ev.expansion[c] = "complete"
  /\ Admit([ev EXCEPT !.members = IF complete THEN "complete" ELSE "partial"], Session)
  /\ UNCHANGED required

sealResourceMembers(complete) ==
  /\ Running
  /\ ev.open /\ ~ev.sealed
  /\ ev.members = "open"
  /\ complete => \A c \in Admitted(ev) : ev.expansion[c] = "complete"
  /\ \E cut \in Cuts :
       LET e == [ev EXCEPT !.members = IF complete THEN "complete" ELSE "partial"]
       IN Admit(e, evaluateBoundary(Session, e, cut))
  /\ UNCHANGED required

\* The prepaid summary of a document that could not be transferred: allowed
\* after a terminal error; the full report is kept when it can still be charged.
recordResourceFailure(r) ==
  /\ phase = "running"
  /\ ~failure
  /\ snapshot[r] # "package"
  /\ \E keep \in IF terminal THEN {0} ELSE {0, 1} :
       /\ usage' = usage + keep
       /\ retained' = retained + keep
  /\ failure' = TRUE
  /\ terminal' = TRUE
  /\ UNCHANGED <<phase, snapshot, given, required, ev, adoptions, rootDoc, decisions, recorded, bundle>>

\* ResourceSnapshot.Close by its caller; refused once the package owns it.
Close(r) ==
  /\ snapshot[r] = "caller"
  /\ snapshot' = [snapshot EXCEPT ![r] = "closed"]
  /\ usage' = usage - 1
  /\ UNCHANGED <<phase, terminal, retained, given, required, ev, adoptions, rootDoc, decisions,
                 recorded, failure, bundle>>

-----------------------------------------------------------------------------
(* finish                                                                   *)

\* The last passes: boundary, entries, then the rootfile rules.
finalPasses(st, e, cut) ==
  Evaluate(Evaluate(Evaluate(st, BoundaryRules, e, TRUE, cut),
                    {"mimetype-no-prefix"}, e, TRUE, cut), {"first-root"}, e, TRUE, cut)

\* Defect: an adoption whose expansion was never sealed does not matter.
SealedOnly(stopped) == ~stopped /\ Enumerated(ev)

enumerationComplete(stopped) ==
  /\ ~stopped
  /\ Enumerated(ev)
  /\ \A c \in Admitted(ev) : ev.expansion[c] = "complete"

\* Report.Satisfied of the package report: complete, and no blocking outcome.
ReportSatisfied(enumeration, counted) ==
  /\ enumeration
  /\ \A rule \in Rules \ Advisory : ToSet(counted[rule]) \subseteq {"pass", "not-applicable"}

\* AssessmentBundle.Satisfied.
Satisfied(enumeration, counted) ==
  /\ enumeration /\ ~failure /\ ReportSatisfied(enumeration, counted)
  /\ required \subseteq given.satisfied

Owned == {r \in Resources : snapshot[r] = "package"}

\* Defect: the transferred snapshots are left to their callers.
cleanupRetained ==
  /\ usage' = usage - retained
  /\ retained' = 0
  /\ UNCHANGED snapshot

cleanup ==
  /\ usage' = usage - Cardinality(Owned) - retained
  /\ retained' = 0
  /\ snapshot' = [r \in Resources |-> IF r \in Owned THEN "closed" ELSE snapshot[r]]

\* The input is complete when the run has no error to report as the cause.
finish(cause) ==
  /\ phase = "running"
  /\ \E cut \in Cuts :
       LET st == finalPasses([Session EXCEPT !.terminal = @ \/ cause], ev, cut)
           enumeration == enumerationComplete(st.terminal)
       IN /\ Recorded(st)
          /\ bundle' = Satisfied(enumeration, st.recorded)
  /\ cleanup
  /\ phase' = "finished"
  /\ UNCHANGED <<given, required, ev, adoptions, rootDoc, failure>>

-----------------------------------------------------------------------------

Init ==
  /\ phase = "new" /\ terminal = FALSE
  /\ usage = Cardinality(Resources)   \* the snapshots the child sessions left
  /\ retained = 0
  /\ snapshot = [r \in Resources |-> "caller"]
  /\ given \in Inputs
  /\ required = {} /\ ev = NoEvidence /\ adoptions = 0 /\ rootDoc = None
  /\ decisions = [rule \in Rules |-> None]
  /\ recorded = [rule \in Rules |-> <<>>]
  /\ failure = FALSE /\ bundle = None

Next ==
  \/ begin \/ Refuse \/ RefuseAdmitted \/ openPackage
  \/ \E entry \in given.entries : observeEntry(entry[1], entry[2])
  \/ \E bytes \in given.bytes : observeMimetype(bytes)
  \/ \E r \in Resources \cup {None}, entry \in BOOLEAN : observeRootfile(given.rootfile, r, entry)
  \/ \E complete \in BOOLEAN : sealEnumeration(complete) \/ sealResourceMembers(complete)
  \/ \E answer \in given.answers : observeRoles(answer)
  \/ \E r \in Resources, need \in given.needs : addResource(r, need) \/ addResourceAgain(r, need)
  \/ \E c \in given.contexts, root \in BOOLEAN : adoptResource(c, root)
  \/ \E c \in given.contexts, complete \in BOOLEAN : sealResourceExpansion(c, complete)
  \/ \E r \in Resources : recordResourceFailure(r) \/ Close(r)
  \/ \E cause \in BOOLEAN : finish(cause)

Spec == Init /\ [][Next]_vars

-----------------------------------------------------------------------------
(* Properties                                                               *)

\* What one pass over all the evidence of the moment decides.
Reference ==
  finalPasses([terminal |-> FALSE, decisions |-> [rule \in Rules |-> None],
               recorded |-> [rule \in Rules |-> <<>>], kept |-> 0], ev, <<None, None>>).decisions

\* A decision recorded early is the one a single pass over everything observed
\* since would make: no later entry, adoption, role or seal can contradict it,
\* and a session that finishes untroubled has decided exactly what that pass
\* decides.
EarlyDecisionsAgree ==
  LET all == Reference
  IN /\ \A rule \in Rules : decisions[rule] # None => decisions[rule] = all[rule]
     /\ phase = "finished" /\ ~terminal => decisions = all

\* As long as the session has not been stopped, every unconditional rule the
\* evidence decides is already counted: whatever stops the session later, an
\* established failure is in the report, once.
NothingDeferred ==
  /\ phase = "running" /\ ~terminal =>
       LET all == Reference
       IN \A rule \in Rules : Requires[rule] = {} /\ all[rule] \in Decisive =>
                                recorded[rule] = <<all[rule]>>
  /\ \A rule \in Rules : Len(recorded[rule]) <= 1

\* A bundle is satisfied exactly when nothing was refused and no document
\* failed, the enumeration and every adopted context are complete, every
\* blocking rule passes on all the evidence, and every document the rootfile,
\* the root adoption or the caller relies on has a satisfied report.
BundleSound ==
  LET all == Reference IN
  phase = "finished" =>
    (bundle <=>
       /\ ~terminal /\ ~failure
       /\ Enumerated(ev) /\ \A c \in Admitted(ev) : ev.expansion[c] = "complete"
       /\ \A rule \in Rules \ Advisory :
            all[rule] # None => all[rule] \in {"pass", "not-applicable"}
       /\ (IF ev.rootfile = None THEN {} ELSE {ev.rootfile.resource}) \cup {rootDoc} \cup required
            \subseteq given.satisfied \cup {None})

\* The account is charged for the session's own storage and for every live
\* snapshot once, whoever owns it; a finished session has given back all it
\* held and closed every snapshot it had taken over, and no refused transfer
\* has cost a caller its snapshot.
SoleOwner ==
  /\ usage = retained + Cardinality({r \in Resources : snapshot[r] # "closed"})
  /\ phase = "finished" => retained = 0 /\ Owned = {}
=============================================================================
