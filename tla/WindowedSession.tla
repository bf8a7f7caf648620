--------------------------- MODULE WindowedSession ---------------------------
(***************************************************************************)
(* A session under the windowed strategy (validation/session.go), which    *)
(* "until it lands ... evaluates exactly as buffered": it takes the        *)
(* positions in the order of the buffered engine, and only its accumulator *)
(* differs, which defers the findings.  In that order a schema node has    *)
(* its turn when the traversal enters it and again after its children      *)
(* (session_schema.go), and the summaries come last.                       *)
(***************************************************************************)
EXTENDS ReportAccumulator

CONSTANT
  Turns          \* the positions in the order the session takes them

VARIABLE
  turn           \* the number of the current one

windowedVars == <<reportVars, turn>>

InitWindowed ==
  /\ InitReport
  /\ turn = 1
  /\ at = Turns[1]

\* The next position: a child is entered, a node is recorded again after its
\* children, or the session goes on to the next stage.
TakeTurn ==
  /\ turn < Len(Turns)
  /\ Visit(Turns[turn + 1])
  /\ turn' = turn + 1

\* A finding at the current position; the report is not truncated yet.
Find(finding) ==
  /\ truncations = {}
  /\ deferDiagnostic(finding)
  /\ UNCHANGED turn

\* flushSourceDTDSummaries truncates for an omitted summary, after the others.
OmitSummary ==
  /\ turn = Len(Turns)
  /\ truncateDiagnostics
  /\ UNCHANGED turn

\* Finish stores the report, after an interruption or after the last turn.
Finish ==
  /\ phase = "interrupted" \/ turn = Len(Turns)
  /\ storePending
  /\ UNCHANGED turn

NextWindowed ==
  \/ TakeTurn
  \/ \E finding \in session.findings : Find(finding)
  \/ OmitSummary
  \/ Finish

SpecWindowed == InitWindowed /\ [][NextWindowed]_windowedVars

-----------------------------------------------------------------------------
(* Properties.                                                             *)

\* What the repository says of the two strategies: the windowed one assesses
\* every document exactly as the buffered one (windowed_strategy_test.go), and
\* deferring "still reports exactly what the buffered engine stores" (report.go,
\* deferDiagnostic). The buffered engine stores the findings as they arrive; the
\* code sorts the deferred ones by key, and these orders differ where a node is
\* recorded again after its children.
WindowedEqualsBuffered ==
  LET stored == FoldLeft(storeDiagnostic, NothingStored, arrivals)
  IN phase = "finished" => report = [stored EXCEPT !.truncated = @ \/ truncations # {}]

=============================================================================
