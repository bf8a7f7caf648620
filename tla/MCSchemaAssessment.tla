------------------------- MODULE MCSchemaAssessment -------------------------
(***************************************************************************)
(* A root with two children, the first of which has a child: the smallest  *)
(* document with an unmatched subtree below a skipped, unavailable or      *)
(* failing node, and with a node before another that is no ancestor of it. *)
(***************************************************************************)
EXTENDS SchemaAssessment

MCParent == <<0, 1, 2, 1>>

MCScalarAnswers == <<{"valid"}, {"valid", "bare"}, {"valid"}, {"valid"}>>

MCContentAnswers ==
  <<{"valid", "invalid", "dtd"}, {"valid", "invalid"}, {"valid", "dtd"}, {"valid", "invalid"}>>

=============================================================================
