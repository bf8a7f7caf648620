--------------------------- MODULE MCNavigation ---------------------------
(***************************************************************************)
(* Every part of up to five rows with repeats, and of six inside an outer  *)
(* one; of up to four with jumps, and of five that begin with a sound or a *)
(* segno; of up to four that mixes them.                                   *)
(***************************************************************************)
EXTENDS Navigation

Row(kind) == [kind |-> kind, label |-> None, guard |-> None, times |-> None,
              afterJump |-> None, control |-> None, tempo |-> None]
Sound(value, guard) == [Row("sound") EXCEPT !.tempo = value, !.guard = guard]
Back(times) == [Row("backward") EXCEPT !.times = times]
Named(kind, guard) == [Row(kind) EXCEPT !.label = "x", !.guard = guard]

Repeating == {Sound("fast", None), Sound("slow", {1}), Row("forward"), Back(2), Back(3), Back(Unknown)}
Jumping == {Sound("fast", None), Sound("slow", {2}), Named("segno", None), Named("coda", None),
            Row("dacapo"), Named("dalsegno", {1, 2}), Named("tocoda", None), Named("tocoda", {1}),
            [Row("fine") EXCEPT !.guard = {2}]}
Mixed == {Sound("fast", Unknown), Row("forward"), Back(2), Back(0), Row("dacapo"), Row("ending"), Row("fine"),
          [Row("coda") EXCEPT !.label = Unknown], Named("tocoda", {1}), [Row("note") EXCEPT !.guard = {1}],
          [Back(2) EXCEPT !.control = Unknown], [Row("forward") EXCEPT !.control = Unknown]}

MCDocuments ==
  UNION {[1 .. n -> Repeating] : n \in 1 .. 5} \cup
  {<<Row("forward")>> \o middle \o <<Back(2)>> : middle \in [1 .. 4 -> Repeating]} \cup
  UNION {[1 .. n -> Jumping] : n \in 1 .. 4} \cup
  {<<first>> \o rest : first \in {Sound("fast", None), Named("segno", None)}, rest \in [1 .. 4 -> Jumping]} \cup
  UNION {[1 .. n -> Mixed] : n \in 1 .. 4}
=============================================================================
