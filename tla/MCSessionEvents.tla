--------------------------- MODULE MCSessionEvents ---------------------------
(***************************************************************************)
(* Two kinds of session: the protocol on every document of three nodes,    *)
(* without storage; and the gauges on one node, with other sessions that   *)
(* hold and return a part of the account.  The gauges do not depend on the *)
(* document, so no session needs both.                                     *)
(***************************************************************************)
EXTENDS SessionEvents, TLC

MCOthers == {[depth |-> 0, bytes |-> 0], [depth |-> 1, bytes |-> 2]}
MCEnds == {[children |-> FALSE, attributes |-> FALSE], [children |-> FALSE, attributes |-> TRUE],
           [children |-> TRUE, attributes |-> TRUE]}
MCSymmetry == Permutations(IDs)

Protocol ==
  /\ retained = 0 /\ otherBytes = 0 /\ marks = <<>> /\ work = MaxWork
  /\ \A id \in IDs : model[id] # "clean"
Gauges ==
  /\ Len(sequence) <= 1
  /\ \A id \in IDs : model[id] # "children" /\ attributes[id] = {}

\* Bound: the sessions explored.
Explored == Protocol \/ Gauges

=============================================================================
