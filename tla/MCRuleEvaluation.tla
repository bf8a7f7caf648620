-------------------------- MODULE MCRuleEvaluation --------------------------
(* Five rules over documents of at most two nodes: a local rule; one that     *)
(* requires it at its own node and at its parent; a document rule that        *)
(* requires it everywhere; a document rule outside the verdict that requires  *)
(* that one and the second everywhere; and one whose implementation is        *)
(* unavailable. A selector's evidence may be invalid because of a rule of     *)
(* another session, a predicate's for no cause.                               *)
EXTENDS RuleEvaluation

Requires(rule, relation) == [rule |-> rule, relation |-> relation]

MCRules ==
  <<[scope |-> "node", normative |-> TRUE, available |-> TRUE, final |-> FALSE, requires |-> {}],
    [scope |-> "node", normative |-> TRUE, available |-> TRUE, final |-> FALSE,
     requires |-> {Requires(1, "same-node"), Requires(1, "parent")}],
    [scope |-> "document", normative |-> TRUE, available |-> TRUE, final |-> TRUE,
     requires |-> {Requires(1, "document")}],
    [scope |-> "document", normative |-> FALSE, available |-> TRUE, final |-> FALSE,
     requires |-> {Requires(2, "document"), Requires(3, "same-node")}],
    [scope |-> "document", normative |-> FALSE, available |-> FALSE, final |-> FALSE, requires |-> {}]>>

MCSelections == {Applies, Decision("not-applicable"), [outcome |-> "blocked", cause |-> <<9, 1>>]}
MCPlanAnswers == {Decision("pass"), Decision("fail"), Decision("blocked")}

=============================================================================
