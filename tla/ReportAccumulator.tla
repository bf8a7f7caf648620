------------------------- MODULE ReportAccumulator -------------------------
(***************************************************************************)
(* The deferred diagnostic store of validation/report.go. An engine that   *)
(* evaluates positions out of document order keeps its findings by key     *)
(* until it finishes, and drops those that two diagnostic quotas would not *)
(* let a buffered accumulator store if they came in key order.             *)
(*                                                                         *)
(* A finding key is <<position, order>>: the position is the rank of       *)
(* (stage, phase, trigger), the order numbers the findings of one visit to *)
(* a position.  A session returns to a position (a schema node is recorded *)
(* when it is entered and again after its children), and then numbers from *)
(* 0 again: two findings can have one key.                                 *)
(* A finding is its key, its rule and the size of its decision and         *)
(* location; the first stored finding of a rule also pays for the rule's   *)
(* metadata.                                                               *)
(***************************************************************************)
EXTENDS Integers, Sequences, SequencesExt, FiniteSetsExt

CONSTANTS
  RuleSize,            \* rule -> size of its metadata
  Sessions,            \* the documents and accounts of the sessions to check
  FirstCapacity,       \* capacity of the first pending array
  SlotBytes,           \* pendingFindingSlotBytes
  PendingRuleBytes     \* pendingRuleBytes

ASSUME SizeAssumption ==
  /\ \A rule \in DOMAIN RuleSize : RuleSize[rule] \in Nat
  /\ {FirstCapacity, SlotBytes, PendingRuleBytes} \subseteq Nat \ {0}
  /\ \A s \in Sessions :
       /\ s.findings \subseteq [rule : DOMAIN RuleSize, size : Nat \ {0}] /\ s.positions \subseteq Nat \ {0}
       /\ {s.diagnostics, s.diagnosticBytes, s.bufferedBytes, s.arrivals} \subseteq Nat \ {0}
       /\ s.used \in [count : 0..s.diagnostics, bytes : 0..s.diagnosticBytes]

VARIABLES
  session,       \* positions (in document order), the findings that can arise there, the
                 \* limits on diagnostics, their bytes and buffered bytes, what earlier
                 \* sessions used of the first two, and the bound on arrivals
  at,            \* the position the session is evaluating
  lastArrival,   \* the key of the latest finding
  acc,           \* the pending candidates and the simulation of their storage
  capacity,      \* capacity of the pending array
  buffered,      \* this accumulator's charge on the buffered-bytes gauge
  report,        \* what is stored: findings, rules, truncation and quota usage
  phase,         \* "open", "interrupted" (an error made the session terminal), "finished"
  arrivals,      \* history: the findings in the order they arrived, without the refused one
  truncations    \* history: the keys truncated from outside

reportVars == <<session, at, lastArrival, acc, capacity, buffered, report, phase, arrivals, truncations>>

MaxDiagnostics == session.diagnostics
MaxDiagnosticBytes == session.diagnosticBytes
MaxBufferedBytes == session.bufferedBytes
UsedByOthers == session.used

NoKey == <<>>

less(k, l) == k[1] < l[1] \/ (k[1] = l[1] /\ k[2] < l[2])

\* nextKey: the findings of one visit keep the order they arrive in. A visit
\* that follows one to another position starts again at 0.
nextKey ==
  <<at, IF lastArrival # NoKey /\ lastArrival[1] = at THEN lastArrival[2] + 1 ELSE 0>>

Charged(x) == x.size + PendingRuleBytes

-----------------------------------------------------------------------------
(* Storing: what the buffered accumulator does with one finding.           *)

NothingStored ==
  [findings |-> <<>>, rules |-> {}, truncated |-> FALSE, used |-> UsedByOthers]

StorageSize(x, known) == x.size + IF x.rule \in known THEN 0 ELSE RuleSize[x.rule]

\* storeDiagnostic, storeDiagnosticAt and the quota check of chargeDiagnostic.
storeDiagnostic(r, x) ==
  LET size == StorageSize(x, r.rules) IN
  IF r.truncated THEN r
  ELSE IF \/ size > MaxDiagnosticBytes - r.used.bytes
          \/ 1 > MaxDiagnostics - r.used.count
    THEN [r EXCEPT !.truncated = TRUE]
    ELSE [r EXCEPT !.findings = Append(@, x), !.rules = @ \cup {x.rule},
                   !.used = [count |-> @.count + 1, bytes |-> @.bytes + size]]

-----------------------------------------------------------------------------
(* Simulating: how much of the pending prefix the buffered accumulator     *)
(* would store. n candidates are accounted for in size, count and rules.   *)

Unsimulated(a) == [a EXCEPT !.n = 0, !.size = 0, !.count = 0, !.rules = {}, !.stale = FALSE]

\* Drop the candidates at or after key and release their charge.
Drop(a, key) ==
  LET kept == SelectSeq(a.pending, LAMBDA x : less(x.key, key))
  IN [a EXCEPT !.cutoff = key, !.pending = kept,
               !.bytes = FoldLeft(LAMBDA sum, x : sum + Charged(x), 0, kept)]

RECURSIVE setCutoff(_, _)

\* simulate: extend the simulated prefix, and cut at the first candidate that
\* would not be stored.
simulate(a) ==
  LET Known(i) == a.rules \cup {a.pending[j].rule : j \in a.n + 1 .. i}
      Total(i) == a.size + SumFunction([j \in a.n + 1 .. i |-> StorageSize(a.pending[j], Known(j - 1))])
      Stores(i) == /\ a.count + i - a.n <= MaxDiagnostics - UsedByOthers.count
                   /\ Total(i) <= MaxDiagnosticBytes - UsedByOthers.bytes
      last == Max({i \in a.n .. Len(a.pending) : i = a.n \/ Stores(i)})
      done == [a EXCEPT !.n = last, !.size = Total(last), !.count = @ + last - a.n,
                        !.rules = Known(last)]
  IN IF last = Len(a.pending) THEN done ELSE setCutoff(done, a.pending[last + 1].key)

\* setCutoff: a cutoff only moves earlier. When it drops candidates of the
\* simulated prefix (one with the key of the cutoff, at least), the remaining
\* ones are simulated again.
setCutoff(a, key) ==
  IF a.cutoff # NoKey /\ ~less(key, a.cutoff) THEN a
  ELSE LET d == Drop(a, key)
       IN IF Len(d.pending) < a.n THEN simulate(Unsimulated(d)) ELSE d

\* Defect: an insertion before the simulated prefix goes unnoticed.
insertPendingNeverStale(a, x) ==
  LET place == Len(SelectSeq(a.pending, LAMBDA y : ~less(x.key, y.key)))
  IN simulate([a EXCEPT !.pending = InsertAt(@, place + 1, x), !.bytes = @ + Charged(x)])

\* The second half of deferDiagnostic: insert in key order, after equal keys, then
\* simulate now, or in batches once an insertion made the simulated prefix stale.
insertPending(a, x) ==
  LET place == Len(SelectSeq(a.pending, LAMBDA y : ~less(x.key, y.key)))
      b == [a EXCEPT !.pending = InsertAt(@, place + 1, x), !.bytes = @ + Charged(x),
                     !.stale = @ \/ place < a.n]
  IN IF ~b.stale THEN simulate(b)
     ELSE IF Len(b.pending) > 2 * MaxDiagnostics \/ b.bytes > 2 * MaxDiagnosticBytes
       THEN simulate(Unsimulated(b))
       ELSE b

-----------------------------------------------------------------------------
(* The session's steps.                                                    *)

InitReport ==
  /\ session \in Sessions
  /\ at \in session.positions
  /\ lastArrival = NoKey
  /\ acc = [pending |-> <<>>, bytes |-> 0, cutoff |-> NoKey,
            n |-> 0, size |-> 0, count |-> 0, rules |-> {}, stale |-> FALSE]
  /\ capacity = 0
  /\ buffered = 0
  /\ report = NothingStored
  /\ phase = "open"
  /\ arrivals = <<>>
  /\ truncations = {}

\* The engine moves to another position, in any order and also back to one it
\* has left.
Visit(position) ==
  /\ phase = "open"
  /\ position # at
  /\ at' = position
  /\ UNCHANGED <<session, lastArrival, acc, capacity, buffered, report, phase, arrivals, truncations>>

\* reservePendingSlot: the array doubles when it is full. The new one is charged
\* before the old one is released.
GrownCapacity == IF Len(acc.pending) < capacity THEN capacity
                 ELSE IF capacity = 0 THEN FirstCapacity ELSE 2 * capacity

SlotRefused ==
  /\ GrownCapacity # capacity
  /\ buffered + GrownCapacity * SlotBytes > MaxBufferedBytes

AfterSlot == buffered + (GrownCapacity - capacity) * SlotBytes

\* deferDiagnostic for a finding at the current position.
deferDiagnostic(finding) ==
  LET x == [key |-> nextKey, rule |-> finding.rule, size |-> finding.size]
      dropped == acc.cutoff # NoKey /\ ~less(x.key, acc.cutoff)
      after == insertPending(acc, x)
  IN /\ phase = "open"
     /\ Len(arrivals) < session.arrivals
     /\ lastArrival' = x.key
     /\ UNCHANGED <<session, at, report, truncations>>
     /\ \/ /\ dropped
           /\ arrivals' = Append(arrivals, x)
           /\ UNCHANGED <<acc, capacity, buffered, phase>>
        \/ /\ ~dropped /\ x.size > MaxDiagnosticBytes
           /\ arrivals' = Append(arrivals, x)
           /\ acc' = setCutoff(acc, x.key)
           /\ buffered' = buffered - acc.bytes + acc'.bytes
           /\ UNCHANGED <<capacity, phase>>
        \/ /\ ~dropped /\ x.size <= MaxDiagnosticBytes /\ SlotRefused
           /\ phase' = "interrupted"
           /\ UNCHANGED <<acc, capacity, buffered, arrivals>>
        \/ /\ ~dropped /\ x.size <= MaxDiagnosticBytes /\ ~SlotRefused
           /\ capacity' = GrownCapacity
           /\ IF AfterSlot + Charged(x) > MaxBufferedBytes
                THEN /\ phase' = "interrupted"
                     /\ buffered' = AfterSlot
                     /\ UNCHANGED <<acc, arrivals>>
                ELSE /\ arrivals' = Append(arrivals, x)
                     /\ acc' = after
                     /\ buffered' = AfterSlot - acc.bytes + after.bytes
                     /\ UNCHANGED phase

\* truncateDiagnostics: storage is truncated at the current position. A session
\* truncates at most once, for diagnostic summaries it could not keep.
truncateDiagnostics ==
  /\ phase = "open"
  /\ truncations = {}
  /\ acc' = setCutoff(acc, nextKey)
  /\ buffered' = buffered - acc.bytes + acc'.bytes
  /\ truncations' = truncations \cup {nextKey}
  /\ UNCHANGED <<session, at, lastArrival, capacity, report, phase, arrivals>>

\* storePending, called by finish: releases the whole charge, then stores the
\* candidates in key order until one truncates the report.
storePending ==
  /\ phase \in {"open", "interrupted"}
  /\ phase' = "finished"
  /\ buffered' = buffered - (acc.bytes + capacity * SlotBytes)
  /\ LET stored == FoldLeft(storeDiagnostic, NothingStored, acc.pending)
     IN report' = [stored EXCEPT !.truncated = @ \/ acc.cutoff # NoKey]
  /\ acc' = [acc EXCEPT !.pending = <<>>, !.bytes = 0]
  /\ capacity' = 0
  /\ UNCHANGED <<session, at, lastArrival, arrivals, truncations>>

NextReport ==
  \/ \E position \in session.positions : Visit(position)
  \/ \E finding \in session.findings : deferDiagnostic(finding)
  \/ truncateDiagnostics
  \/ storePending

SpecReport == InitReport /\ [][NextReport]_reportVars

-----------------------------------------------------------------------------
(* Properties.                                                             *)

\* The findings before a truncation from outside, in key order; equal keys keep
\* their arrival order.
Sorted ==
  LET before == {i \in DOMAIN arrivals : \A key \in truncations : less(arrivals[i].key, key)}
      first(i, j) == less(arrivals[i].key, arrivals[j].key) \/ (arrivals[i].key = arrivals[j].key /\ i < j)
      order == SetToSortSeq(before, first)
  IN [i \in DOMAIN order |-> arrivals[order[i]]]

\* What a buffered accumulator stores of them, one after the other.
BufferedReport ==
  LET stored == FoldLeft(storeDiagnostic, NothingStored, Sorted)
  IN [stored EXCEPT !.truncated = @ \/ truncations # {}]

\* The findings that this report keeps when the first finding it cannot store
\* takes the ones with the same key with it.
BeforeCutoff ==
  LET stored == BufferedReport.findings
      refused == SubSeq(Sorted, Len(stored) + 1, Len(Sorted))
  IN IF refused = <<>> THEN stored ELSE SelectSeq(stored, LAMBDA x : less(x.key, Head(refused).key))

\* No two findings have one key, as when every position is visited once.
KeysDistinct == \A i, j \in DOMAIN arrivals : arrivals[i].key = arrivals[j].key => i = j

\* The deferred report is what a buffered accumulator stores of the findings in
\* key order (findings, rules, truncation flag and quota usage), whatever order
\* the positions are visited in and also after a buffer refusal interrupted the
\* session. With keys that arrive twice it may lack findings that share the key
\* of the first one that cannot be stored, and no others (setCutoff,
\* storePending).
DeferredEqualsSorted ==
  phase = "finished" =>
    /\ KeysDistinct => report = BufferedReport
    /\ IsPrefix(BeforeCutoff, report.findings) /\ IsPrefix(report.findings, BufferedReport.findings)
    /\ report = [FoldLeft(storeDiagnostic, NothingStored, report.findings)
                   EXCEPT !.truncated = BufferedReport.truncated]

\* While no insertion has made the simulation stale, the candidates are exactly
\* the findings before the first one that cannot be stored now: none is dropped
\* too early and none is kept that cannot be stored (simulate, setCutoff).
PendingExact ==
  (phase # "finished" /\ ~acc.stale) => acc.pending = BeforeCutoff

\* The gauge holds the charge of the live candidates and of one array, and
\* nothing once the report is stored (reservePendingSlot, setCutoff,
\* storePending).
GaugeBalanced ==
  buffered = FoldLeft(LAMBDA sum, x : sum + Charged(x), 0, acc.pending) + capacity * SlotBytes

\* Out-of-order findings never keep more than twice the diagnostic quota
\* pending (the batches of deferDiagnostic).
PendingBounded == Len(acc.pending) <= 2 * MaxDiagnostics

\* What deferring does to a report: the finished one is the buffered storage of
\* the findings sorted by key, the candidates before it are what that report
\* would hold now, at most twice the quota of them wait, and the gauge pays for
\* exactly these.
DeferralExact == DeferredEqualsSorted /\ PendingExact /\ PendingBounded /\ GaugeBalanced

=============================================================================
