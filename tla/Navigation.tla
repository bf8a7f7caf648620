----------------------------- MODULE Navigation -----------------------------
(***************************************************************************)
(* Repeats and jumps of one part (validation/context_navigation.go and     *)
(* context_navigation_machine.go): navigationBuildEdges finds targets and  *)
(* pass domains, runNavigation executes the rows and records what is       *)
(* played.  A row is a note, a sound, a marker or a control in the proved  *)
(* order of the part, with its time-only guard, its label and its tempo.   *)
(*                                                                         *)
(* Evidence that is not known is Unknown, absent evidence is None.  Tempo  *)
(* stands for dynamics and pizzicato too, which follow the same rules;     *)
(* play, instruments and listening are left out.  A traversal stops at     *)
(* every ending, so the attributes that navigationBuildEdges derives for   *)
(* the repeats of endings are left out.                                    *)
(***************************************************************************)
EXTENDS Integers, Sequences, FiniteSets, FiniteSetsExt, SequencesExt

CONSTANTS
  Documents,      \* sequences of rows: what navigationReadRows and
                  \* navigationOrder give for one part
  None, Unknown

VARIABLES
  rows,        \* the rows of the part
  pc,          \* the row to execute
  frames,      \* open repeat regions, each with its pass
  epoch,       \* D.C. and D.S. jumps taken
  tempo,       \* the tempo in force
  traversal,   \* out.Traversal
  status       \* running, complete, unknown (out.Complete) or refused

vars == <<rows, pc, frames, epoch, tempo, traversal, status>>

-----------------------------------------------------------------------------
(* navigationReadRows and navigationBuildEdges                              *)

Of(kinds) == {i \in DOMAIN rows : rows[i].kind \in kinds}

hasRepeat == Of({"forward", "backward"}) # {}
hasEnding == Of({"ending"}) # {}
hasDS == Of({"dalsegno"}) # {}
hasJump == Of({"dacapo", "dalsegno", "tocoda"}) # {}

\* D.C. and D.S. are taken on the first pass, to coda on the second.
navigationDefaultGuard(row) ==
  IF row.guard # None THEN row.guard
  ELSE IF row.kind \in {"dacapo", "dalsegno"} THEN {1}
  ELSE IF row.kind = "tocoda" THEN {2} ELSE None

\* Backward repeats take the latest forward repeat that is still open.
RepeatStarts ==
  LET Pair(acc, i) ==
        IF rows[i].kind = "forward" THEN [acc EXCEPT !.stack = Append(@, i)]
        ELSE IF rows[i].kind = "backward" /\ acc.stack # <<>>
          THEN [stack |-> Front(acc.stack), target |-> [acc.target EXCEPT ![i] = Last(acc.stack)]]
        ELSE acc
  IN FoldLeft(Pair, [stack |-> <<>>, target |-> [i \in DOMAIN rows |-> Unknown]],
              [i \in DOMAIN rows |-> i]).target

\* D.S. and to coda need one marker of their name, in the right direction,
\* and no marker whose name is unavailable.
MarkerTarget(i) ==
  LET kind == IF rows[i].kind = "dalsegno" THEN "segno" ELSE "coda"
      named == {j \in Of({kind}) : rows[j].label = rows[i].label}
  IN IF \/ rows[i].label = Unknown
        \/ \E j \in Of({kind}) : rows[j].label = Unknown
        \/ Cardinality(named) # 1
        \/ \E j \in named : IF kind = "segno" THEN j >= i ELSE j <= i
     THEN Unknown ELSE CHOOSE j \in named : TRUE

Target(i) ==
  CASE rows[i].kind = "backward" -> RepeatStarts[i]
    [] rows[i].kind = "dacapo" -> 1
    [] rows[i].kind \in {"dalsegno", "tocoda"} -> MarkerTarget(i)
    [] OTHER -> Unknown

PassDomain(i) ==
  LET jumps == Of({"dacapo", "dalsegno"})
      section == ~hasRepeat /\ ~hasEnding /\ Cardinality(jumps) = 1
                   /\ \A j \in jumps : Target(j) # Unknown
  IN IF section THEN IF \E j \in jumps : i \in Target(j) .. j THEN "movement" ELSE "unknown"
     ELSE IF ~hasRepeat /\ ~hasEnding /\ ~hasDS /\ Cardinality(jumps) <= 1 THEN "movement"
     ELSE IF hasRepeat /\ ~hasEnding /\ ~hasJump THEN "repeat" ELSE "unknown"

-----------------------------------------------------------------------------
(* One event of runNavigation, up to its switch                             *)

Event == rows[pc]

Opened ==
  IF Event.kind = "forward" /\ (frames = <<>> \/ Last(frames).start # pc)
    THEN Append(frames, [start |-> pc, pass |-> 1]) ELSE frames

\* The pass of the event, or 0.
Pass ==
  CASE PassDomain(pc) = "movement" /\ Opened = <<>> -> epoch + 1
    [] PassDomain(pc) = "repeat" /\ Len(Opened) = 1 -> Opened[1].pass
    [] OTHER -> 0

navigationPassApplies(guard, pass) ==
  IF guard = None THEN "yes"
  ELSE IF guard = Unknown \/ pass = 0 THEN "unknown"
  ELSE IF pass \in guard THEN "yes" ELSE "no"

Played == navigationPassApplies(navigationDefaultGuard(Event), Pass)

navigationConditionalValue(value, played) ==
  IF played = "no" \/ value = None THEN None ELSE IF played = "yes" THEN value ELSE Unknown

TempoNow ==
  LET value == navigationConditionalValue(Event.tempo, Played)
  IN IF value = None THEN tempo ELSE value

Record ==
  /\ traversal' = Append(traversal, [source |-> pc, pass |-> Pass, played |-> Played, tempo |-> TempoNow])
  /\ UNCHANGED rows

\* Defect: the tempo in force is carried to the target.
carryReentry(t) == t

\* A tempo in force does not survive a jump. (What is left out differs: play and
\* listening become unknown outright, and an instrument's unchanged initial
\* declaration survives.)
invalidateReentry(t) == IF t = None THEN None ELSE Unknown

Advance(open) ==
  /\ pc' = pc + 1 /\ frames' = open /\ tempo' = TempoNow
  /\ UNCHANGED <<epoch, status>>

Reenter(target, open, jumps) ==
  /\ pc' = target /\ frames' = open /\ epoch' = jumps /\ tempo' = invalidateReentry(TempoNow)
  /\ UNCHANGED status

\* out.Complete is unknown and the traversal ends here.
Stop ==
  /\ status' = "unknown" /\ frames' = Opened /\ tempo' = TempoNow
  /\ UNCHANGED <<pc, epoch>>

-----------------------------------------------------------------------------
(* The switch                                                               *)

Running == status = "running" /\ pc <= Len(rows)

Controlled(kinds) == Running /\ Event.control # Unknown /\ Event.kind \in kinds

\* The event's evidence does not say what it is.
Uncontrolled == Running /\ Event.control = Unknown /\ Record /\ Stop

Continue ==
  /\ Controlled({"note", "sound", "segno", "coda", "forward"})
  /\ Record /\ Advance(Opened)

\* After a jump a repeat that does not apply then is passed over.
PassedOver == epoch > 0 /\ Event.afterJump = "no"

\* The region of this repeat is the innermost open one and its count is known.
Resolved ==
  /\ epoch > 0 => Event.afterJump = "yes"
  /\ frames # <<>> /\ Target(pc) = Last(frames).start
  /\ Event.times \notin {None, Unknown, 0}

\* Defect: the count of a repeat is one more than its passes.
RepeatsToo == Event.times >= Last(frames).pass

Repeats == Event.times > Last(frames).pass

RepeatAgain ==
  /\ Controlled({"backward"}) /\ ~PassedOver /\ Resolved /\ Repeats
  /\ Record /\ Reenter(Target(pc), [frames EXCEPT ![Len(frames)].pass = @ + 1], epoch)

RepeatDone ==
  /\ Controlled({"backward"})
  /\ ~PassedOver => Resolved /\ ~Repeats
  /\ Record /\ Advance(IF frames = <<>> THEN frames ELSE Front(frames))

RepeatUnresolved ==
  /\ Controlled({"backward"}) /\ ~PassedOver /\ ~Resolved
  /\ Record /\ Stop

Jumps == {"dacapo", "dalsegno", "tocoda"}

JumpNotDue ==
  /\ Controlled(Jumps \cup {"fine"}) /\ Played = "no"
  /\ Record /\ Advance(Opened)

\* No target, an undecided guard, or a fine: its effect is not established.
JumpUnresolved ==
  /\ Controlled(Jumps \cup {"fine"}) /\ Played # "no"
  /\ Event.kind \in Jumps /\ Target(pc) # Unknown => Played = "unknown"
  /\ Record /\ Stop

Jump ==
  /\ Controlled(Jumps) /\ Played = "yes" /\ Target(pc) # Unknown
  /\ Record /\ Reenter(Target(pc), <<>>, IF Event.kind = "tocoda" THEN epoch ELSE epoch + 1)

Ending == Controlled({"ending"}) /\ Record /\ Stop

Finish ==
  /\ status = "running" /\ pc > Len(rows) /\ status' = "complete"
  /\ UNCHANGED <<rows, pc, frames, epoch, tempo, traversal>>

\* A budget or the context refuses a step: the result is dropped.
Refuse ==
  /\ status = "running" /\ status' = "refused"
  /\ UNCHANGED <<rows, pc, frames, epoch, tempo, traversal>>

Init ==
  /\ rows \in Documents
  /\ pc = 1 /\ frames = <<>> /\ epoch = 0 /\ tempo = None
  /\ traversal = <<>> /\ status = "running"

Next ==
  \/ Uncontrolled \/ Continue
  \/ RepeatAgain \/ RepeatDone \/ RepeatUnresolved
  \/ JumpNotDue \/ JumpUnresolved \/ Jump
  \/ Ending \/ Finish \/ Refuse

Spec == Init /\ [][Next]_vars

-----------------------------------------------------------------------------
(* Reference: the performance a reader of the part would write out.  Open   *)
(* marks the point from which the notation does not say what is played.     *)

At(i, pass) == <<[source |-> i, pass |-> pass]>>
Open == At(0, 0)

\* Only documents with one kind of structure number their passes.
Plain == ~hasEnding /\ ~(hasRepeat /\ hasJump)

Applies(i, pass) == navigationPassApplies(navigationDefaultGuard(rows[i]), pass)

\* What follows event i on this pass is open.
Undecided(i, pass) ==
  \/ rows[i].control = Unknown \/ rows[i].kind = "ending"
  \/ rows[i].kind = "fine" /\ Applies(i, pass) # "no"
  \/ /\ rows[i].kind \in Jumps
     /\ Applies(i, pass) # "no"
     /\ Target(i) = Unknown \/ Applies(i, pass) = "unknown"

\* The region between f and b is balanced and stays above its start.
Closes(f, b) ==
  LET Count(kind, last) == Cardinality({i \in f .. last : rows[i].kind = kind})
  IN /\ f < b /\ rows[f].kind = "forward" /\ rows[b].kind = "backward"
     /\ Count("forward", b) = Count("backward", b)
     /\ \A i \in f .. b - 1 : Count("forward", i) > Count("backward", i)

\* The events from i to last inside regions with these passes.  An open
\* forward repeat is a region that reaches to the end and is played once.
RECURSIVE Unfold(_, _, _), Rounds(_, _, _, _)
Unfold(i, last, passes) ==
  LET Number(p) == IF Plain /\ Len(p) = 1 THEN p[1] ELSE 0
      ends == {b \in i .. last : Closes(i, b)}
      inner == Append(passes, 1)
  IN IF i > last THEN <<>>
     ELSE IF rows[i].kind = "forward" /\ rows[i].control = Unknown THEN At(i, Number(inner)) \o Open
     ELSE IF ends # {} THEN LET b == Min(ends) IN Rounds(i, b, passes, 1) \o Unfold(b + 1, last, passes)
     ELSE IF rows[i].kind = "forward" THEN At(i, Number(inner)) \o Unfold(i + 1, last, inner)
     ELSE At(i, Number(passes)) \o
            (IF Undecided(i, Number(passes)) \/ rows[i].kind = "backward" THEN Open ELSE <<>>) \o
            Unfold(i + 1, last, passes)

\* Round n of the region from f to b and the rounds after it.
Rounds(f, b, passes, n) ==
  LET inner == Append(passes, n)
      number == IF Plain /\ Len(inner) = 1 THEN n ELSE 0
      times == rows[b].times
  IN At(f, number) \o Unfold(f + 1, b - 1, inner) \o At(b, number) \o
       (IF times \in {None, Unknown, 0} \/ rows[b].control = Unknown THEN Open
        ELSE IF n < times THEN Rounds(f, b, passes, n + 1) ELSE <<>>)

\* The part without repeats is played in laps, each begun by a D.C. or D.S.
Section ==
  LET jumps == Of({"dacapo", "dalsegno"})
  IN IF ~Plain \/ Cardinality(jumps) > 1 THEN {}
     ELSE IF jumps = {} THEN DOMAIN rows
     ELSE LET j == CHOOSE k \in jumps : TRUE IN IF Target(j) = Unknown THEN {} ELSE Target(j) .. j

LapPass(i, lap) == IF i \in Section THEN lap ELSE 0

\* Lap by lap, the events that no taken to coda leaps over.
RECURSIVE OnLap(_, _)
OnLap(i, lap) ==
  /\ i \in DOMAIN rows
  /\ lap > 1 => i >= Min(Section)
  /\ \A c \in Of({"tocoda"}) :
       Target(c) # Unknown /\ c < i /\ i < Target(c) /\ Applies(c, LapPass(c, lap)) = "yes" => ~OnLap(c, lap)

RECURSIVE Laps(_)
Laps(lap) ==
  LET on == {i \in DOMAIN rows : OnLap(i, lap)}
      returns == {i \in on \cap Of({"dacapo", "dalsegno"}) :
                    Target(i) # Unknown /\ Applies(i, LapPass(i, lap)) = "yes"}
      open == {i \in on : Undecided(i, LapPass(i, lap))}
      end == Min(returns \cup open \cup {Len(rows)})
      played == SetToSortSeq({i \in on : i <= end}, <)
  IN [k \in DOMAIN played |-> At(played[k], LapPass(played[k], lap))[1]] \o
       (IF end \in open THEN Open ELSE IF end \in returns THEN Laps(lap + 1) ELSE <<>>)

Performance == IF hasRepeat THEN Unfold(1, Len(rows), <<>>) ELSE Laps(1)

-----------------------------------------------------------------------------
(* Properties                                                               *)

\* A traversal is a beginning of the performance, event by event and pass by
\* pass; a complete one is all of it, and one that ends as unknown ends where
\* the notation leaves open what follows.  A refused traversal is dropped.
UnfoldingExact ==
  LET played == [i \in DOMAIN traversal |-> [source |-> traversal[i].source, pass |-> traversal[i].pass]]
      performance == Performance
  IN status # "refused" =>
     /\ IsPrefix(played, performance)
     /\ status = "complete" => played = performance
     /\ status = "unknown" => IsPrefix(played \o Open, performance)

\* A known tempo was set by an event that was played, with no jump since and
\* no other event with a tempo that may have been played since.
TempoEarned ==
  traversal # <<>> =>
    LET n == Len(traversal)
        now == traversal[n].tempo
        Own(k) == rows[traversal[k].source].tempo
    IN now \notin {None, Unknown} =>
         \E k \in 1 .. n :
           /\ Own(k) = now /\ traversal[k].played = "yes"
           /\ \A m \in k + 1 .. n :
                /\ traversal[m].source = traversal[m - 1].source + 1
                /\ Own(m) = None \/ traversal[m].played = "no"
=============================================================================
