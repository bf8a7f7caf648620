-------------------------- MODULE MCWindowedSession --------------------------
(* A root at position 1 with one child at position 2, and the summaries at     *)
(* position 3.  The buffer has room for every candidate.                       *)
EXTENDS WindowedSession

MCTurns == <<1, 2, 1, 3>>

MCRuleSize == [r1 |-> 1]

MCSessions ==
  {[positions |-> 1..3, findings |-> {[rule |-> "r1", size |-> 1]}, diagnostics |-> 3, diagnosticBytes |-> 9,
    bufferedBytes |-> 30, used |-> [count |-> 0, bytes |-> 0], arrivals |-> 3]}

=============================================================================
