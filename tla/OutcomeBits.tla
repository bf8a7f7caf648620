---------------------------- MODULE OutcomeBits ----------------------------
(***************************************************************************)
(* The compact outcomes of one rule (validation/outcome_bits.go). The      *)
(* outcome of a node lives in a dense table while its ID is near the       *)
(* number of admitted nodes, otherwise in an overflow map. The table grows *)
(* over IDs that are in the overflow map; those entries stay there. Every  *)
(* array and map entry is charged to the session before it is allocated,   *)
(* and the charge of a replaced array is released.                         *)
(***************************************************************************)
EXTENDS Integers, FiniteSets

CONSTANTS
  IDs,          \* node IDs
  Results,      \* successfulPass, successfulNotApplicable
  None,         \* no result
  WordSlots,    \* outcomes in one word of the table (32)
  FirstWords,   \* words of the first table (16)
  Slack,        \* outcomeDenseSlack
  EntryBytes,   \* outcomeOverflowEntryBytes
  HeaderBytes,  \* outcomeOverflowHeaderBytes
  MaxRetained,  \* the session's remaining buffer
  MaxAdmitted   \* bound: nodes of the session

ASSUME TableAssumption ==
  /\ IDs \subseteq Nat \ {0}
  /\ IsFiniteSet(IDs)
  /\ None \notin Results
  /\ {WordSlots, FirstWords} \subseteq Nat \ {0}
  /\ {Slack, EntryBytes, HeaderBytes, MaxRetained, MaxAdmitted} \subseteq Nat

VARIABLES
  admitted,   \* nodes admitted by the session, len(s.sequence)
  len,        \* words in use
  cap,        \* words allocated
  dense,      \* the slots of the table, also those beyond len
  overflow,   \* the overflow map
  retained    \* the charge of this table on the buffered-bytes gauge

tableVars == <<admitted, len, cap, dense, overflow, retained>>

Word(id) == (id - 1) \div WordSlots

allocationSlack(n) == IF n <= 0 THEN 0 ELSE n + n \div 4 + 24

\* The charge of a table, which has 8 bytes per word.
ArrayBytes(words) == allocationSlack(8 * words)

Empty == [id \in IDs |-> None]

\* Defect: the dense table hides the overflow map.
getDense(id) == IF Word(id) < len THEN dense[id] ELSE overflow[id]

\* get: an empty dense slot falls back to the overflow map.
get(id) ==
  IF Word(id) < len /\ dense[id] # None THEN dense[id] ELSE overflow[id]

InitTable ==
  /\ admitted = 0
  /\ len = 0
  /\ cap = 0
  /\ dense = Empty
  /\ overflow = Empty
  /\ retained = 0

\* OpenNode: the session admits another node.
Admit ==
  /\ admitted < MaxAdmitted
  /\ admitted' = admitted + 1
  /\ UNCHANGED <<len, cap, dense, overflow, retained>>

\* set within the table.
SetInTable(id, v) ==
  /\ Word(id) < len
  /\ dense' = [dense EXCEPT ![id] = v]
  /\ UNCHANGED <<admitted, len, cap, overflow, retained>>

\* set within the capacity of the table: it is resliced.
SetInCapacity(id, v) ==
  /\ Word(id) >= len /\ Word(id) < cap
  /\ len' = Word(id) + 1
  /\ dense' = [dense EXCEPT ![id] = v]
  /\ UNCHANGED <<admitted, cap, overflow, retained>>

Larger(a, b) == IF a > b THEN a ELSE b
Grown(id) == Larger(FirstWords, Larger(2 * cap, Word(id) + 1))

\* The dense table reaches only this far.
Near(id) == id - 1 < 2 * admitted + Slack

\* Defect: the replaced array stays charged.
SetGrowingLeak(id, v) ==
  /\ Word(id) >= cap /\ Near(id)
  /\ retained + ArrayBytes(Grown(id)) <= MaxRetained
  /\ cap' = Grown(id)
  /\ len' = Word(id) + 1
  /\ dense' = [i \in IDs |-> IF i = id THEN v ELSE IF Word(i) < len THEN dense[i] ELSE None]
  /\ retained' = retained + ArrayBytes(Grown(id))
  /\ UNCHANGED <<admitted, overflow>>

\* set beyond the capacity, near the admitted nodes: a larger table is charged,
\* takes over the words in use and then releases the old one.
SetGrowing(id, v) ==
  /\ Word(id) >= cap /\ Near(id)
  /\ retained + ArrayBytes(Grown(id)) <= MaxRetained
  /\ cap' = Grown(id)
  /\ len' = Word(id) + 1
  /\ dense' = [i \in IDs |-> IF i = id THEN v ELSE IF Word(i) < len THEN dense[i] ELSE None]
  /\ retained' = retained + ArrayBytes(Grown(id)) - ArrayBytes(cap)
  /\ UNCHANGED <<admitted, overflow>>

EntryCharge == EntryBytes + IF overflow = Empty THEN HeaderBytes ELSE 0

\* set of a far ID: an entry of the overflow map.
SetOverflow(id, v) ==
  /\ Word(id) >= cap /\ ~Near(id)
  /\ retained + EntryCharge <= MaxRetained
  /\ overflow' = [overflow EXCEPT ![id] = v]
  /\ retained' = retained + EntryCharge
  /\ UNCHANGED <<admitted, len, cap, dense>>

\* A decision is cached once. A refused charge leaves the table as it is.
set(id, v) ==
  /\ get(id) = None
  /\ \/ SetInTable(id, v)
     \/ SetInCapacity(id, v)
     \/ SetGrowing(id, v)
     \/ SetOverflow(id, v)

NextTable ==
  \/ Admit
  \/ \E id \in IDs, v \in Results : set(id, v)

SpecTable == InitTable /\ [][NextTable]_tableVars

-----------------------------------------------------------------------------
(* Properties.                                                             *)

Slots == [IDs -> Results \cup {None}]

\* Every variable has its type; the words in use are allocated, and the slots
\* beyond them, which a reslice exposes, are empty.
TableOK ==
  /\ admitted \in Nat /\ retained \in Nat
  /\ len \in Nat /\ cap \in Nat /\ len <= cap
  /\ dense \in Slots /\ overflow \in Slots
  /\ \A id \in IDs : Word(id) >= len => dense[id] = None

Stored == [id \in IDs |-> get(id)]

Map == INSTANCE OutcomeMap WITH map <- Stored

\* The table implements the map, across growth over IDs in the overflow map.
ImplementsMap == Map!Spec

\* The session is charged for exactly the live array and the live entries, so
\* that releasing its retained bytes leaves nothing (outcomeBits.charged).
ChargesLive ==
  LET entries == Cardinality({id \in IDs : overflow[id] # None})
  IN retained = ArrayBytes(cap) + EntryBytes * entries + (IF entries = 0 THEN 0 ELSE HeaderBytes)

\* Sparse numbering cannot inflate the table: its size stays within a constant
\* factor of the number of admitted nodes (outcomeBits's comment).
DenseBounded == cap <= Larger(FirstWords, 2 * ((2 * admitted + Slack) \div WordSlots) + 2)

\* What the table occupies is bounded by the nodes and charged to the session.
StorageExact == ChargesLive /\ DenseBounded

=============================================================================
