----------------------- MODULE MCDictionaryAssessment -----------------------
(***************************************************************************)
(* Three concurrent calls, each on its own account: one has room for its   *)
(* set and a lease, one for the set only, and one for neither.  At most    *)
(* two of them borrow the cached set at a time.  And two users of a set,   *)
(* its view and a view of that view, on one account that is too small for  *)
(* all three.                                                              *)
(***************************************************************************)
EXTENDS DictionaryAssessment

Users == {"u1", "u2"}
MCProcs == {"p1", "p2", "p3"} \cup Users
MCAccountOf == [p \in Procs |-> IF p \in Users THEN "users" ELSE p]
MCLimit == [a \in Accounts |-> CASE a = "p1" -> 4 [] a = "p2" -> 3 [] a = "p3" -> 2
                                 [] a = "users" -> 8 [] OTHER -> 9]
MCPrograms == {[p \in Procs |-> IF p \in Users THEN "done" ELSE "load"],
               [p \in Procs |-> IF p \in Users THEN "user" ELSE "done"]}

=============================================================================
