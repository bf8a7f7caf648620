--------------------------- MODULE BudgetAccount ---------------------------
(***************************************************************************)
(* The resource account of validation/budgets.go: one Account is shared by *)
(* an assessment and its children, and every method holds its mutex while  *)
(* it reads or writes usage, so each method is one action here.            *)
(*                                                                         *)
(* Three things make the account hard: the default rule-step limit is not  *)
(* stored but grows with the nodes and document bytes charged so far; the  *)
(* byte cap of that growth only starts with the first document byte; and   *)
(* reading the limit (even in a refused charge) writes stepPeak.           *)
(***************************************************************************)
EXTENDS Integers

CONSTANTS
  Cumulative,            \* kinds whose usage is never given back
  Gauges,                \* kinds of live usage: buffered bytes, depth
  Nodes,                 \* BudgetNodes, a cumulative kind
  RuleSteps,             \* BudgetRuleSteps, a cumulative kind
  Diagnostics,           \* BudgetDiagnostics, a cumulative kind
  DiagnosticBytes,       \* BudgetDiagnosticBytes, a cumulative kind
  DefaultLimits,         \* DefaultBudgets(): the finite defaults
  Requests,              \* the Budgets callers pass; 0 selects the default
  DefaultRuleStepBase,
  DefaultRuleStepsPerNode,
  DefaultRuleStepsPerDocumentByte,
  MaxInt64,              \* math.MaxInt64
  Amounts                \* the amounts callers charge and release

Kinds == Cumulative \cup Gauges

ASSUME KindAssumption ==
  /\ Cumulative \cap Gauges = {}
  /\ {Nodes, RuleSteps, Diagnostics, DiagnosticBytes} \subseteq Cumulative
  /\ Nodes # RuleSteps /\ Diagnostics # DiagnosticBytes
  /\ {Nodes, RuleSteps} \cap {Diagnostics, DiagnosticBytes} = {}

ASSUME LimitAssumption ==
  /\ MaxInt64 \in Nat
  /\ DefaultLimits \in [Kinds -> 0..MaxInt64]
  /\ DefaultLimits[RuleSteps] = 0
  /\ Requests \subseteq [Kinds -> 0..MaxInt64]
  /\ DefaultRuleStepBase \in 0..MaxInt64
  /\ DefaultRuleStepsPerNode \in 1..MaxInt64
  /\ DefaultRuleStepsPerDocumentByte \in 1..MaxInt64
  /\ Amounts \subseteq 1..MaxInt64

VARIABLES
  maxima,         \* the normalized limits; never written after NewBudgetAccount
  stepsPerNode,   \* nonzero when the rule-step limit grows with charged nodes
  usage,          \* current usage of every kind
  documentBytes,  \* XML document bytes read on the account
  stepPeak,       \* the highest growing rule-step limit computed so far
  uncappedNodes   \* history: the nodes charged when the byte cap started

fixedVars == <<maxima, stepsPerNode>>
vars == <<maxima, stepsPerNode, usage, documentBytes, stepPeak, uncappedNodes>>

-----------------------------------------------------------------------------
(* Saturating int64 arithmetic on nonnegative values.                      *)

MaxOf(a, b) == IF a >= b THEN a ELSE b
MinOf(a, b) == IF a <= b THEN a ELSE b

\* Defect: the sum wraps around like a plain int64 addition.
saturatingSumWrapping(a, b) ==
  ((a + b + MaxInt64 + 1) % (2 * (MaxInt64 + 1))) - (MaxInt64 + 1)

saturatingProduct(a, b) ==
  IF b # 0 /\ a > MaxInt64 \div b THEN MaxInt64 ELSE a * b

saturatingSum(a, b) == IF a > MaxInt64 - b THEN MaxInt64 ELSE a + b

-----------------------------------------------------------------------------
(* Account.limit: the current maximum of a kind, and what computing it     *)
(* writes to stepPeak.                                                     *)

NodeAllowance == saturatingProduct(usage[Nodes], stepsPerNode)

ByteAllowance == saturatingProduct(documentBytes, DefaultRuleStepsPerDocumentByte)

\* Defect: the document bytes do not cap the allowance.
AllowanceUncapped == NodeAllowance

Allowance ==
  IF documentBytes # 0 THEN MinOf(NodeAllowance, ByteAllowance) ELSE NodeAllowance

Growing(k) == k = RuleSteps /\ stepsPerNode # 0

Peak == MaxOf(stepPeak, saturatingSum(maxima[RuleSteps], Allowance))

limit(k) == IF Growing(k) THEN Peak ELSE maxima[k]

\* The effect of calling limit(k).
RaisePeak(k) == stepPeak' = IF Growing(k) THEN Peak ELSE stepPeak

-----------------------------------------------------------------------------
(* The operations.                                                         *)

\* NewBudgetAccount: a zero field selects its default, and a zero MaxRuleSteps
\* selects the growing limit that starts at DefaultRuleStepBase.
NewBudgetAccount(request) ==
  LET chosen == [k \in Kinds |-> IF request[k] = 0 THEN DefaultLimits[k] ELSE request[k]]
  IN /\ maxima = IF chosen[RuleSteps] = 0
                   THEN [chosen EXCEPT ![RuleSteps] = DefaultRuleStepBase]
                   ELSE chosen
     /\ stepsPerNode = IF chosen[RuleSteps] = 0 THEN DefaultRuleStepsPerNode ELSE 0

Init ==
  /\ \E request \in Requests : NewBudgetAccount(request)
  /\ usage = [k \in Kinds |-> 0]
  /\ documentBytes = 0
  /\ stepPeak = 0
  /\ uncappedNodes = 0

\* Defect: the check ignores what is already used.
ChargeWithoutUsage(k, n) ==
  /\ n <= limit(k)
  /\ usage' = [usage EXCEPT ![k] = @ + n]
  /\ RaisePeak(k)
  /\ UNCHANGED <<fixedVars, documentBytes, uncappedNodes>>

\* Charge: an exact-limit charge succeeds.
Charge(k, n) ==
  /\ n <= limit(k) - usage[k]
  /\ usage' = [usage EXCEPT ![k] = @ + n]
  /\ RaisePeak(k)
  /\ UNCHANGED <<fixedVars, documentBytes, uncappedNodes>>

\* A refused Charge changes no usage, but it has computed the limit.
ChargeRefused(k, n) ==
  /\ n > limit(k) - usage[k]
  /\ RaisePeak(k)
  /\ UNCHANGED <<fixedVars, usage, documentBytes, uncappedNodes>>

\* Release: only live gauges, and not above the live usage.
Release(k, n) ==
  /\ k \in Gauges
  /\ n <= usage[k]
  /\ usage' = [usage EXCEPT ![k] = @ - n]
  /\ UNCHANGED <<fixedVars, documentBytes, stepPeak, uncappedNodes>>

\* Limit: reading the limit of a growing kind raises the peak.
Limit(k) ==
  /\ RaisePeak(k)
  /\ UNCHANGED <<fixedVars, usage, documentBytes, uncappedNodes>>

\* chargeDocumentBytes never refuses. It first computes the limit, which keeps
\* what the nodes charged before the first document byte allowed.
chargeDocumentBytes(n) ==
  /\ RaisePeak(RuleSteps)
  /\ documentBytes' = saturatingSum(documentBytes, n)
  /\ uncappedNodes' = IF documentBytes = 0 THEN usage[Nodes] ELSE uncappedNodes
  /\ UNCHANGED <<fixedVars, usage>>

\* Both quotas of one diagnostic admit it.
DiagnosticFits(bytes) ==
  /\ 1 <= maxima[Diagnostics] - usage[Diagnostics]
  /\ bytes <= maxima[DiagnosticBytes] - usage[DiagnosticBytes]

\* chargeDiagnostic: one diagnostic and its bytes, both or neither.
chargeDiagnostic(bytes) ==
  /\ DiagnosticFits(bytes)
  /\ usage' = [usage EXCEPT ![Diagnostics] = @ + 1, ![DiagnosticBytes] = @ + bytes]
  /\ UNCHANGED <<fixedVars, documentBytes, stepPeak, uncappedNodes>>

\* Diagnostic kinds are charged only through chargeDiagnostic.
ChargedKinds == Kinds \ {Diagnostics, DiagnosticBytes}

Next ==
  \E n \in Amounts :
    \/ \E k \in ChargedKinds : Charge(k, n) \/ ChargeRefused(k, n)
    \/ \E k \in Kinds : Release(k, n)
    \/ \E k \in ChargedKinds : Limit(k)
    \/ chargeDocumentBytes(n)
    \/ chargeDiagnostic(n)

Spec == Init /\ [][Next]_vars

-----------------------------------------------------------------------------
(* Properties.                                                             *)

\* Every variable has its type; int64 fields never leave 0..MaxInt64 (the code
\* computes limit-usage and usage+amount without overflow checks).
TypeOK ==
  /\ maxima \in [Kinds -> 0..MaxInt64]
  /\ stepsPerNode \in 0..MaxInt64
  /\ usage \in [Kinds -> 0..MaxInt64]
  /\ documentBytes \in 0..MaxInt64
  /\ stepPeak \in 0..MaxInt64
  /\ uncappedNodes \in 0..MaxInt64

\* No kind is ever used above its current limit, the growing one included:
\* steps admitted under the uncapped allowance stay within the limit after the
\* byte cap starts (Account.Charge, Account.chargeDocumentBytes).
UsageWithinLimit == \A k \in Kinds : usage[k] <= limit(k)

\* The limit of every kind never shrinks ("The limit never shrinks",
\* budgets.go), whatever charges, refusals, limit reads and document bytes
\* interleave (Account.limit, stepPeak).
LimitNeverShrinks == [][\A k \in Kinds : limit(k)' >= limit(k)]_vars

\* Once document bytes are read, nodes charged after them (internal entity
\* expansion) add at most the work of the document bytes: the limit exceeds
\* the base by no more than the larger of the byte allowance and the allowance
\* of the nodes charged before the first byte.
ExpansionBounded ==
  (stepsPerNode # 0 /\ documentBytes # 0) =>
    limit(RuleSteps) <=
      saturatingSum(maxima[RuleSteps],
                    MaxOf(ByteAllowance, saturatingProduct(uncappedNodes, stepsPerNode)))

\* A diagnostic consumes its count and its bytes together, and cumulative work
\* is never refunded (Account.chargeDiagnostic, Account.Release).
QuotaSteps ==
  [][/\ \A k \in Cumulative : usage'[k] >= usage[k]
     /\ usage'[Diagnostics] # usage[Diagnostics] <=>
          usage'[DiagnosticBytes] # usage[DiagnosticBytes]]_vars

=============================================================================
