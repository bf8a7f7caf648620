----------------------------- MODULE OutcomeMap -----------------------------
(***************************************************************************)
(* What the outcome table of a rule promises (validation/outcome_bits.go): *)
(* a map from node IDs to successful outcomes, in which an absent entry is *)
(* never mistaken for a result. An insertion may be refused.               *)
(***************************************************************************)
CONSTANTS IDs, Results, None

VARIABLE map

Init == map = [id \in IDs |-> None]

set(id, v) ==
  /\ map[id] = None
  /\ map' = [map EXCEPT ![id] = v]

Next == \E id \in IDs, v \in Results : set(id, v)

Spec == Init /\ [][Next]_map

=============================================================================
