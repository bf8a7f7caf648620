-------------------------- MODULE MCSessionStorage --------------------------
(***************************************************************************)
(* Three stores that a session charges: the account itself, the outcome    *)
(* table of a rule and the deferred diagnostics.  They share no variable,  *)
(* so a behaviour runs one of them and leaves the others as they start.    *)
(*                                                                         *)
(* The account has one gauge and the four cumulative kinds the code treats *)
(* specially, with limits small enough that every quota is reached and     *)
(* int64 saturates.  The table has words of two outcomes and IDs on both   *)
(* sides of every growth.  There are two sessions of deferred diagnostics: *)
(* in the first an earlier session used part of the quotas, two rules have *)
(* metadata of different sizes, a finding of the largest size alone        *)
(* exceeds the byte quota and the buffer is small; the second has a quota  *)
(* of one finding and room for the batches of deferDiagnostic.             *)
(***************************************************************************)
EXTENDS BudgetAccount, OutcomeBits, ReportAccumulator

MCCumulative == {"nodes", "rule-steps", "diagnostics", "diagnostic-bytes"}
MCGauges == {"buffered-bytes"}

MCDefaultLimits ==
  [k \in Kinds |-> CASE k = "nodes" -> 3 [] k = "rule-steps" -> 0
                     [] k = "diagnostics" -> 2 [] k = "diagnostic-bytes" -> 3
                     [] k = "buffered-bytes" -> 3]

\* All defaults (the growing rule-step limit), and a fixed MaxRuleSteps.
MCRequests ==
  {[k \in Kinds |-> 0], [k \in Kinds |-> IF k = "rule-steps" THEN 2 ELSE 0]}

MCRuleSize == [r1 |-> 1, r2 |-> 3]

Truncated ==
  [positions |-> 1..3,
   findings |-> {[rule |-> "r1", size |-> 1], [rule |-> "r2", size |-> 1], [rule |-> "r1", size |-> 7]},
   diagnostics |-> 3, diagnosticBytes |-> 6, bufferedBytes |-> 15, used |-> [count |-> 1, bytes |-> 1], arrivals |-> 4]

Batched ==
  [positions |-> 1..3, findings |-> {[rule |-> "r1", size |-> 1], [rule |-> "r1", size |-> 2]},
   diagnostics |-> 1, diagnosticBytes |-> 5, bufferedBytes |-> 30, used |-> [count |-> 0, bytes |-> 0], arrivals |-> 4]

MCSessions == {Truncated, Batched}

VARIABLE running   \* the store that this behaviour runs

\* A store that does not run starts in one of its initial states only.
InitStorage ==
  /\ running \in {"account", "outcomes", "report"}
  /\ Init /\ InitTable /\ InitReport
  /\ running # "account" => stepsPerNode = 0
  /\ running # "report" => session = Batched /\ at = 1

NextStorage ==
  /\ UNCHANGED running
  /\ \/ running = "account" /\ Next /\ UNCHANGED <<tableVars, reportVars>>
     \/ running = "outcomes" /\ NextTable /\ UNCHANGED <<vars, reportVars>>
     \/ running = "report" /\ NextReport /\ UNCHANGED <<vars, tableVars>>

SpecStorage == InitStorage /\ [][NextStorage]_<<running, vars, tableVars, reportVars>>

=============================================================================
