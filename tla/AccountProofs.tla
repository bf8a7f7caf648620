--------------------------- MODULE AccountProofs ---------------------------
(***************************************************************************)
(* Proofs about what a session is charged: the outcome table, which        *)
(* implements a map and occupies exactly what it charges, for every set of *)
(* IDs, every word size and every sequence of growths; and the account     *)
(* that takes the charges, for every set of kinds, every limit request and *)
(* every size of int64. The table's type invariant is its strengthening:   *)
(* the slots beyond the words in use are empty, and len never exceeds cap. *)
(***************************************************************************)
EXTENDS BudgetAccount, OutcomeBits, FiniteSetTheorems, TLAPS

-----------------------------------------------------------------------------
(* The outcome table                                                       *)

\* The word of an ID is a natural number.
LEMMA WordIsNat ==
  ASSUME NEW id \in IDs
  PROVE  Word(id) \in Nat
  <1>1. id - 1 \in Nat /\ WordSlots \in Nat \ {0}
    BY TableAssumption
  <1> QED BY <1>1 DEF Word

\* A larger table has a larger charge (allocationSlack).
LEMMA ArrayBytesMonotone ==
  ASSUME NEW a \in Nat, NEW b \in Nat, a <= b
  PROVE  ArrayBytes(a) \in Nat /\ ArrayBytes(b) \in Nat /\ ArrayBytes(a) <= ArrayBytes(b)
  BY DEF ArrayBytes, allocationSlack

\* A grown table holds the old one and the new word.
LEMMA GrownHolds ==
  ASSUME TableOK, NEW id \in IDs
  PROVE  Grown(id) \in Nat /\ Grown(id) >= cap /\ Grown(id) >= Word(id) + 1
  <1>1. Word(id) \in Nat /\ cap \in Nat /\ FirstWords \in Nat
    BY WordIsNat, TableAssumption DEF TableOK
  <1> QED BY <1>1 DEF Grown, Larger

LEMMA InitTableOK == InitTable => TableOK
  BY TableAssumption DEF InitTable, TableOK, Empty, Slots

LEMMA NextTableOK ==
  ASSUME TableOK, [NextTable]_tableVars
  PROVE  TableOK'
  <1> USE TableAssumption
  <1>1. CASE Admit
    BY <1>1 DEF Admit, TableOK
  <1>2. ASSUME NEW id \in IDs, NEW v \in Results, set(id, v)
        PROVE  TableOK'
    <2>1. /\ Word(id) \in Nat
          /\ \A i \in IDs : Word(i) \in Nat
      BY WordIsNat
    <2>2. CASE SetInTable(id, v)
      BY <2>1, <2>2 DEF SetInTable, TableOK, Slots
    <2>3. CASE SetInCapacity(id, v)
      BY <2>1, <2>3 DEF SetInCapacity, TableOK, Slots
    <2>4. CASE SetGrowing(id, v)
      <3>1. /\ Grown(id) \in Nat /\ Grown(id) >= cap /\ Grown(id) >= Word(id) + 1
            /\ cap \in Nat /\ len \in Nat /\ retained \in Nat /\ len <= cap
        BY GrownHolds DEF TableOK
      <3>2. retained' \in Nat
        BY <3>1, <2>4, ArrayBytesMonotone DEF SetGrowing
      <3>3. dense' \in Slots
        BY <2>4 DEF SetGrowing, TableOK, Slots
      <3>4. \A i \in IDs : Word(i) >= len' => dense'[i] = None
        BY <3>1, <2>1, <2>4 DEF SetGrowing, TableOK, Slots
      <3> QED BY <3>1, <3>2, <3>3, <3>4, <2>1, <2>4 DEF SetGrowing, TableOK
    <2>5. CASE SetOverflow(id, v)
      <3>1. EntryCharge \in Nat
        BY DEF EntryCharge
      <3> QED BY <3>1, <2>5 DEF SetOverflow, TableOK, Slots
    <2> QED BY <1>2, <2>2, <2>3, <2>4, <2>5 DEF set
  <1>3. CASE UNCHANGED tableVars
    BY <1>3 DEF tableVars, TableOK
  <1> QED BY <1>1, <1>2, <1>3 DEF NextTable

\* The types hold, and the slots beyond the words in use stay empty, so that
\* reslicing the table exposes no stale outcome (outcomeBits.set).
THEOREM TableTypeCorrect == SpecTable => []TableOK
  BY InitTableOK, NextTableOK, PTL DEF SpecTable

\* What one insertion changes: the inserted ID and nothing else, although the
\* table may move, grow over the overflow map or leave it.
LEMMA SetChangesOne ==
  ASSUME TableOK, NEW id \in IDs, NEW v \in Results, set(id, v)
  PROVE  Stored' = [Stored EXCEPT ![id] = v]
  <1> USE TableAssumption
  <1>1. v # None /\ get(id) = None
    BY DEF set
  <1>2. /\ \A i \in IDs : Word(i) \in Nat
        /\ len \in Nat /\ cap \in Nat /\ len <= cap
        /\ dense \in Slots /\ overflow \in Slots
        /\ \A i \in IDs : Word(i) >= len => dense[i] = None
    BY WordIsNat DEF TableOK
  <1>3. SUFFICES ASSUME NEW i \in IDs
                 PROVE  get(i)' = IF i = id THEN v ELSE get(i)
    BY DEF Stored
  <1>4. CASE SetInTable(id, v)
    BY <1>1, <1>2, <1>4 DEF SetInTable, get, Slots
  <1>5. CASE SetInCapacity(id, v)
    BY <1>1, <1>2, <1>5 DEF SetInCapacity, get, Slots
  <1>6. CASE SetGrowing(id, v)
    <2>1. dense'[i] = IF i = id THEN v ELSE IF Word(i) < len THEN dense[i] ELSE None
      BY <1>6 DEF SetGrowing
    <2>2. len' = Word(id) + 1 /\ overflow' = overflow /\ Word(id) >= len
      BY <1>2, <1>6 DEF SetGrowing
    <2> QED BY <1>1, <1>2, <2>1, <2>2 DEF get
  <1>7. CASE SetOverflow(id, v)
    <2>1. ~(Word(id) < len)
      BY <1>2, <1>7 DEF SetOverflow
    <2> QED BY <1>1, <1>2, <1>7, <2>1 DEF SetOverflow, get, Slots
  <1> QED BY <1>4, <1>5, <1>6, <1>7 DEF set

\* The outcome table implements the map: no growth, reslice or overflow entry
\* loses, invents or changes the outcome of another node (get, set).
THEOREM TableImplementsMap == SpecTable => ImplementsMap
  <1>1. InitTable => Map!Init
    <2> SUFFICES ASSUME InitTable PROVE Stored = [id \in IDs |-> None]
      BY DEF Map!Init
    <2> QED BY DEF InitTable, Stored, get, Empty
  <1>2. TableOK /\ [NextTable]_tableVars => [Map!Next]_Stored
    <2> SUFFICES ASSUME TableOK, [NextTable]_tableVars PROVE [Map!Next]_Stored
      OBVIOUS
    <2>1. CASE Admit
      BY <2>1 DEF Admit, Stored, get
    <2>2. ASSUME NEW id \in IDs, NEW v \in Results, set(id, v)
          PROVE  Map!Next
      <3>1. Stored' = [Stored EXCEPT ![id] = v]
        BY <2>2, SetChangesOne
      <3>2. Stored[id] = None
        BY <2>2 DEF set, Stored
      <3> QED BY <3>1, <3>2 DEF Map!Next, Map!set
    <2>3. CASE UNCHANGED tableVars
      BY <2>3 DEF tableVars, Stored, get
    <2> QED BY <2>1, <2>2, <2>3 DEF NextTable
  <1> QED BY <1>1, <1>2, TableTypeCorrect, PTL DEF SpecTable, Map!Spec, ImplementsMap

-----------------------------------------------------------------------------
\* Division by the size of a word keeps the order.
LEMMA DivMonotone ==
  ASSUME NEW a \in Nat, NEW b \in Nat, NEW w \in Nat \ {0}, a <= b
  PROVE  a \div w \in Nat /\ b \div w \in Nat /\ a \div w <= b \div w
  OBVIOUS

\* The table reaches only as far as the admitted nodes justify.
LEMMA BoundStep ==
  ASSUME TableOK, DenseBounded, [NextTable]_tableVars
  PROVE  DenseBounded'
<1> DEFINE reach == (2 * admitted + Slack) \div WordSlots
<1>1. /\ admitted \in Nat /\ cap \in Nat /\ FirstWords \in Nat /\ Slack \in Nat
      /\ WordSlots \in Nat \ {0}
  BY TableAssumption DEF TableOK
<1>2. reach \in Nat /\ cap <= Larger(FirstWords, 2 * reach + 2)
  <2>1. 2 * admitted + Slack \in Nat
    BY <1>1
  <2> QED
    BY <2>1, <1>1, DivMonotone DEF DenseBounded
<1>3. CASE Admit
  <2>1. cap' = cap /\ admitted' = admitted + 1
    BY <1>3 DEF Admit
  <2>2. PICK far \in Nat : far = (2 * admitted' + Slack) \div WordSlots /\ reach <= far
    <3>1. /\ 2 * admitted + Slack \in Nat /\ 2 * admitted' + Slack \in Nat
          /\ 2 * admitted + Slack <= 2 * admitted' + Slack
      BY <2>1, <1>1
    <3> QED
      BY <3>1, <1>1, DivMonotone
  <2> HIDE DEF reach
  <2>3. cap <= Larger(FirstWords, 2 * far + 2)
    BY <1>1, <1>2, <2>2 DEF Larger
  <2> QED
    BY <2>1, <2>2, <2>3 DEF DenseBounded
<1>4. ASSUME NEW id \in IDs, NEW v \in Results, SetGrowing(id, v) PROVE DenseBounded'
  <2>1. /\ Word(id) >= cap /\ id - 1 < 2 * admitted + Slack
        /\ cap' = Grown(id) /\ admitted' = admitted
    BY <1>4 DEF SetGrowing, Near
  <2>2. Word(id) \in Nat /\ Word(id) <= reach
    <3>1. id - 1 \in Nat /\ 2 * admitted + Slack \in Nat /\ id - 1 <= 2 * admitted + Slack
      BY <1>1, <2>1, TableAssumption
    <3> QED
      BY <3>1, <1>1, DivMonotone DEF Word
  <2> HIDE DEF reach
  <2>3. Grown(id) <= Larger(FirstWords, 2 * reach + 2)
    BY <1>1, <1>2, <2>1, <2>2 DEF Grown, Larger
  <2> QED
    BY <2>1, <2>3 DEF DenseBounded, reach
<1>5. ASSUME cap' = cap, admitted' = admitted PROVE DenseBounded'
  BY <1>5 DEF DenseBounded
<1>6. ASSUME NEW id \in IDs, NEW v \in Results, set(id, v) PROVE DenseBounded'
  BY <1>4, <1>5, <1>6 DEF set, SetInTable, SetInCapacity, SetOverflow
<1> QED
  BY <1>3, <1>5, <1>6 DEF NextTable, tableVars

\* Every array and every entry is charged once, and a replaced array is
\* released.
LEMMA ChargesStep ==
  ASSUME TableOK, ChargesLive, [NextTable]_tableVars
  PROVE  ChargesLive'
<1> DEFINE Live == {id \in IDs : overflow[id] # None}
<1>1. IsFiniteSet(Live) /\ Cardinality(Live) \in Nat
  <2>1. IsFiniteSet(IDs) /\ Live \subseteq IDs
    BY TableAssumption
  <2> QED
    BY <2>1, FS_Subset, FS_CardinalityType
<1>2. ASSUME UNCHANGED <<cap, overflow, retained>> PROVE ChargesLive'
  BY <1>2 DEF ChargesLive
<1>3. ASSUME NEW id \in IDs, NEW v \in Results, SetGrowing(id, v) PROVE ChargesLive'
  <2>1. /\ cap' = Grown(id) /\ overflow' = overflow
        /\ retained' = retained + ArrayBytes(Grown(id)) - ArrayBytes(cap)
    BY <1>3 DEF SetGrowing
  <2>2. ArrayBytes(cap) \in Nat /\ ArrayBytes(Grown(id)) \in Nat
    BY GrownHolds, ArrayBytesMonotone DEF TableOK
  <2>3. /\ EntryBytes * Cardinality(Live) \in Nat /\ HeaderBytes \in Nat
        /\ retained = ArrayBytes(cap) + EntryBytes * Cardinality(Live)
                        + (IF Cardinality(Live) = 0 THEN 0 ELSE HeaderBytes)
    <3>1. EntryBytes \in Nat /\ HeaderBytes \in Nat
      BY TableAssumption
    <3> QED
      BY <3>1, <1>1 DEF ChargesLive
  <2>4. Live' = Live
    BY <2>1
  <2>5. retained' = ArrayBytes(cap') + EntryBytes * Cardinality(Live')
                      + (IF Cardinality(Live') = 0 THEN 0 ELSE HeaderBytes)
    <3> DEFINE c == EntryBytes * Cardinality(Live)
               h == IF Cardinality(Live) = 0 THEN 0 ELSE HeaderBytes
               old == ArrayBytes(cap)
               new == ArrayBytes(Grown(id))
    <3>1. c \in Nat /\ h \in Nat /\ old \in Nat /\ new \in Nat /\ retained = old + c + h
      BY <2>2, <2>3
    <3>2. retained' = retained + new - old
      BY <2>1
    <3>3. retained' = new + c + h
      <4> HIDE DEF c, h, old, new
      <4> QED
        BY <3>1, <3>2
    <3> QED
      BY <3>3, <2>1, <2>4
  <2> QED
    BY <2>5 DEF ChargesLive
<1>4. ASSUME NEW id \in IDs, NEW v \in Results, get(id) = None, SetOverflow(id, v) PROVE ChargesLive'
  <2>1. /\ Word(id) >= cap /\ cap' = cap
        /\ overflow' = [overflow EXCEPT ![id] = v] /\ retained' = retained + EntryCharge
    BY <1>4 DEF SetOverflow
  <2>2. /\ Word(id) \in Nat /\ cap \in Nat /\ len \in Nat /\ len <= cap
        /\ overflow \in [IDs -> Results \cup {None}] /\ v # None
    BY WordIsNat, TableAssumption DEF TableOK, Slots
  <2>3. overflow[id] = None
    <3>1. ~(Word(id) < len)
      BY <2>1, <2>2
    <3> QED
      BY <3>1, <1>4 DEF get
  <2>4. Live' = Live \cup {id} /\ id \notin Live
    BY <2>1, <2>2, <2>3
  <2>5. Cardinality(Live') = Cardinality(Live) + 1
    BY <2>4, <1>1, FS_AddElement
  <2>6. Cardinality(Live) = 0 <=> overflow = Empty
    <3>1. Cardinality(Live) = 0 <=> Live = {}
      BY <1>1, FS_EmptySet
    <3>2. Live = {} <=> overflow = Empty
      BY <2>2 DEF Empty
    <3> QED
      BY <3>1, <3>2
  <2> DEFINE c == Cardinality(Live)
             a == ArrayBytes(cap)
  <2>7. /\ c \in Nat /\ a \in Nat /\ EntryBytes \in Nat /\ HeaderBytes \in Nat
        /\ retained = a + EntryBytes * c + (IF c = 0 THEN 0 ELSE HeaderBytes)
        /\ EntryCharge = EntryBytes + IF c = 0 THEN HeaderBytes ELSE 0
    BY <1>1, <2>2, <2>6, ArrayBytesMonotone, TableAssumption DEF ChargesLive, EntryCharge
  <2>8. retained + EntryCharge = a + EntryBytes * (c + 1) + (IF c + 1 = 0 THEN 0 ELSE HeaderBytes)
    <3> HIDE DEF c, a
    <3>1. EntryBytes * (c + 1) = EntryBytes * c + EntryBytes /\ EntryBytes * c \in Nat /\ c + 1 # 0
      BY <2>7
    <3> QED
      BY <2>7, <3>1
  <2> QED
    BY <2>1, <2>5, <2>8 DEF ChargesLive
<1>5. ASSUME NEW id \in IDs, NEW v \in Results, set(id, v) PROVE ChargesLive'
  BY <1>2, <1>3, <1>4, <1>5 DEF set, SetInTable, SetInCapacity
<1> QED
  BY <1>2, <1>5 DEF NextTable, Admit, tableVars

\* What the table occupies is charged exactly, and sparse numbering cannot
\* inflate it: for every word size, slack and sequence of IDs its array stays
\* within a constant factor of the admitted nodes (outcomeBits.set).
THEOREM StorageIsExact == SpecTable => []StorageExact
<1>1. InitTable => StorageExact
  <2> SUFFICES ASSUME InitTable PROVE StorageExact
    OBVIOUS
  <2>1. ChargesLive
    <3>1. {id \in IDs : overflow[id] # None} = {}
      BY DEF InitTable, Empty
    <3>2. Cardinality({id \in IDs : overflow[id] # None}) = 0
      BY <3>1, FS_EmptySet
    <3>3. ArrayBytes(cap) = 0 /\ EntryBytes \in Nat
      BY TableAssumption DEF InitTable, ArrayBytes, allocationSlack
    <3> QED
      BY <3>2, <3>3 DEF InitTable, ChargesLive
  <2>2. DenseBounded
    <3>1. FirstWords \in Nat /\ cap = 0
      BY TableAssumption DEF InitTable
    <3>2. Slack \div WordSlots \in Nat
      BY TableAssumption, DivMonotone
    <3>3. (2 * admitted + Slack) \div WordSlots \in Nat
      BY <3>2, TableAssumption DEF InitTable
    <3> QED
      BY <3>1, <3>3 DEF DenseBounded, Larger
  <2> QED
    BY <2>1, <2>2 DEF StorageExact
<1>2. TableOK /\ StorageExact /\ [NextTable]_tableVars => StorageExact'
  BY BoundStep, ChargesStep DEF StorageExact
<1> QED
  BY <1>1, <1>2, TableTypeCorrect, PTL DEF SpecTable

-----------------------------------------------------------------------------
(* The account                                                             *)

USE DEF Kinds

-----------------------------------------------------------------------------
(* Saturating arithmetic stays in int64 and is monotone.                   *)

\* saturatingProduct never leaves int64 (the code multiplies unchecked).
LEMMA ProductInRange ==
  ASSUME NEW a \in 0..MaxInt64, NEW b \in 0..MaxInt64
  PROVE  saturatingProduct(a, b) \in 0..MaxInt64
  <1>1. CASE b = 0
    BY <1>1, LimitAssumption DEF saturatingProduct
  <1>2. CASE b # 0
    <2>1. MaxInt64 \div b \in Nat
      BY <1>2, LimitAssumption
    <2>2. ~(a > MaxInt64 \div b) => a * b <= MaxInt64
      BY <1>2, LimitAssumption
    <2>3. a * b \in Nat
      BY LimitAssumption
    <2> QED BY <1>2, <2>1, <2>2, <2>3, LimitAssumption DEF saturatingProduct
  <1> QED BY <1>1, <1>2

\* A larger factor never gives a smaller saturated product.
LEMMA ProductMonotone ==
  ASSUME NEW a \in 0..MaxInt64, NEW c \in 0..MaxInt64, NEW b \in 0..MaxInt64, a <= c
  PROVE  saturatingProduct(a, b) <= saturatingProduct(c, b)
  <1>1. a * b <= c * b
    BY LimitAssumption
  <1>2. saturatingProduct(a, b) \in 0..MaxInt64 /\ saturatingProduct(c, b) \in 0..MaxInt64
    BY ProductInRange
  <1>3. CASE b # 0 /\ c > MaxInt64 \div b
    BY <1>2, <1>3, LimitAssumption DEF saturatingProduct
  <1>4. CASE ~(b # 0 /\ c > MaxInt64 \div b)
    <2>1. b # 0 => MaxInt64 \div b \in Nat
      BY LimitAssumption
    <2>2. ~(b # 0 /\ a > MaxInt64 \div b)
      BY <1>4, <2>1, LimitAssumption
    <2> QED BY <1>1, <1>4, <2>2 DEF saturatingProduct
  <1> QED BY <1>3, <1>4

\* saturatingSum stays in int64 and grows with its second argument.
LEMMA SumInRange ==
  ASSUME NEW a \in 0..MaxInt64, NEW b \in 0..MaxInt64
  PROVE  saturatingSum(a, b) \in 0..MaxInt64
  BY LimitAssumption DEF saturatingSum

LEMMA SumMonotone ==
  ASSUME NEW a \in 0..MaxInt64, NEW b \in 0..MaxInt64, NEW c \in 0..MaxInt64, b <= c
  PROVE  saturatingSum(a, b) <= saturatingSum(a, c)
  BY LimitAssumption DEF saturatingSum

-----------------------------------------------------------------------------
(* The growing limit as a function of what has been charged.               *)

\* Account.limit always returns an int64, and so do its allowances.
LEMMA LimitInRange ==
  ASSUME TypeOK
  PROVE  /\ NodeAllowance \in 0..MaxInt64
         /\ ByteAllowance \in 0..MaxInt64
         /\ Allowance \in 0..MaxInt64
         /\ Peak \in 0..MaxInt64
         /\ \A k \in Kinds : limit(k) \in 0..MaxInt64
  <1> USE KindAssumption, LimitAssumption
  <1>1. NodeAllowance \in 0..MaxInt64
    <2>1. usage[Nodes] \in 0..MaxInt64 /\ stepsPerNode \in 0..MaxInt64
      BY DEF TypeOK
    <2> QED BY <2>1, ProductInRange DEF NodeAllowance
  <1>2. ByteAllowance \in 0..MaxInt64
    <2>1. documentBytes \in 0..MaxInt64 /\ DefaultRuleStepsPerDocumentByte \in 0..MaxInt64
      BY DEF TypeOK
    <2> QED BY <2>1, ProductInRange DEF ByteAllowance
  <1>3. Allowance \in 0..MaxInt64
    BY <1>1, <1>2 DEF Allowance, MinOf
  <1>4. Peak \in 0..MaxInt64
    BY <1>3, SumInRange DEF Peak, MaxOf, TypeOK
  <1>5. \A k \in Kinds : limit(k) \in 0..MaxInt64
    BY <1>4 DEF limit, TypeOK
  <1> QED BY <1>1, <1>2, <1>3, <1>4, <1>5

\* Nodes are charged, nothing else: the limit is at least what it was.
LEMMA ChargeKeepsPeak ==
  ASSUME TypeOK, TypeOK', UNCHANGED <<fixedVars, documentBytes>>,
         usage'[Nodes] >= usage[Nodes], stepPeak' >= stepPeak
  PROVE  Peak' >= Peak
  <1> USE KindAssumption, LimitAssumption DEF fixedVars
  <1>1. /\ stepsPerNode' = stepsPerNode /\ maxima' = maxima
        /\ documentBytes' = documentBytes
        /\ usage[Nodes] \in 0..MaxInt64 /\ usage'[Nodes] \in 0..MaxInt64
        /\ stepsPerNode \in 0..MaxInt64
    BY DEF TypeOK
  <1>2. NodeAllowance' \in 0..MaxInt64 /\ NodeAllowance' >= NodeAllowance
    BY <1>1, ProductInRange, ProductMonotone DEF NodeAllowance
  <1>3. ByteAllowance' = ByteAllowance
    BY <1>1 DEF ByteAllowance
  <1>4. /\ Allowance \in 0..MaxInt64 /\ Allowance' \in 0..MaxInt64
        /\ Allowance' >= Allowance
    BY <1>1, <1>2, <1>3, LimitInRange DEF Allowance, MinOf
  <1>5. saturatingSum(maxima[RuleSteps], Allowance')
          >= saturatingSum(maxima[RuleSteps], Allowance)
    BY <1>4, SumMonotone, SumInRange DEF TypeOK
  <1>6. /\ saturatingSum(maxima[RuleSteps], Allowance) \in 0..MaxInt64
        /\ saturatingSum(maxima[RuleSteps], Allowance') \in 0..MaxInt64
    BY <1>4, SumInRange DEF TypeOK
  <1> QED BY <1>1, <1>5, <1>6 DEF Peak, MaxOf, TypeOK

-----------------------------------------------------------------------------
(* Type correctness.                                                       *)

LEMMA InitType == Init => TypeOK
  <1> SUFFICES ASSUME Init PROVE TypeOK
    OBVIOUS
  <1> USE KindAssumption, LimitAssumption
  <1>1. PICK request \in Requests : NewBudgetAccount(request)
    BY DEF Init
  <1>2. request \in [Kinds -> 0..MaxInt64]
    OBVIOUS
  <1> DEFINE chosen == [k \in Kinds |-> IF request[k] = 0 THEN DefaultLimits[k]
                                                         ELSE request[k]]
  <1>3. maxima \in [Kinds -> 0..MaxInt64] /\ stepsPerNode \in 0..MaxInt64
    <2>1. chosen \in [Kinds -> 0..MaxInt64]
      BY <1>2
    <2>2. [chosen EXCEPT ![RuleSteps] = DefaultRuleStepBase] \in [Kinds -> 0..MaxInt64]
      BY <2>1
    <2>3. /\ maxima \in {chosen, [chosen EXCEPT ![RuleSteps] = DefaultRuleStepBase]}
          /\ stepsPerNode \in {0, DefaultRuleStepsPerNode}
      BY <1>1 DEF NewBudgetAccount
    <2> HIDE DEF chosen
    <2> QED BY <2>1, <2>2, <2>3
  <1> QED BY <1>3 DEF Init, TypeOK

LEMMA NextType == TypeOK /\ UsageWithinLimit /\ [Next]_vars => TypeOK'
  <1> SUFFICES ASSUME TypeOK, UsageWithinLimit, [Next]_vars PROVE TypeOK'
    OBVIOUS
  <1> USE KindAssumption, LimitAssumption DEF fixedVars
  <1>0. Peak \in 0..MaxInt64 /\ \A k \in Kinds : limit(k) \in 0..MaxInt64
    BY LimitInRange
  <1>1. ASSUME NEW n \in Amounts, NEW k \in ChargedKinds, Charge(k, n)
        PROVE  TypeOK'
    <2>1. n \in Nat /\ k \in Kinds /\ usage[k] + n <= limit(k)
      BY <1>0, <1>1 DEF Charge, ChargedKinds, TypeOK
    <2>2. usage' \in [Kinds -> 0..MaxInt64]
      BY <1>0, <1>1, <2>1 DEF Charge, TypeOK
    <2> QED BY <1>0, <1>1, <2>2 DEF Charge, RaisePeak, TypeOK
  <1>2. ASSUME NEW n \in Amounts, NEW k \in ChargedKinds, ChargeRefused(k, n)
        PROVE  TypeOK'
    BY <1>0, <1>2 DEF ChargeRefused, RaisePeak, TypeOK
  <1>3. ASSUME NEW n \in Amounts, NEW k \in Kinds, Release(k, n)
        PROVE  TypeOK'
    <2>1. usage' \in [Kinds -> 0..MaxInt64]
      BY <1>3 DEF Release, TypeOK
    <2> QED BY <1>3, <2>1 DEF Release, TypeOK
  <1>4. ASSUME NEW k \in ChargedKinds, Limit(k) PROVE TypeOK'
    BY <1>0, <1>4 DEF Limit, RaisePeak, TypeOK
  <1>5. ASSUME NEW n \in Amounts, chargeDocumentBytes(n) PROVE TypeOK'
    <2>1. documentBytes' \in 0..MaxInt64
      BY <1>5, SumInRange DEF chargeDocumentBytes, TypeOK
    <2> QED BY <1>0, <1>5, <2>1 DEF chargeDocumentBytes, RaisePeak, TypeOK
  <1>6. ASSUME NEW n \in Amounts, chargeDiagnostic(n) PROVE TypeOK'
    <2>1. usage' \in [Kinds -> 0..MaxInt64]
      BY <1>6 DEF chargeDiagnostic, DiagnosticFits, TypeOK
    <2> QED BY <1>6, <2>1 DEF chargeDiagnostic, TypeOK
  <1>7. CASE UNCHANGED vars
    BY <1>7 DEF vars, TypeOK
  <1> QED BY <1>1, <1>2, <1>3, <1>4, <1>5, <1>6, <1>7 DEF Next

-----------------------------------------------------------------------------
(* Usage stays within the limits, and the limits never shrink.             *)

\* Every step keeps the rule-step peak, so no limit of any kind shrinks.
LEMMA NextLimit ==
  ASSUME TypeOK, TypeOK', [Next]_vars
  PROVE  /\ \A k \in Kinds : limit(k)' >= limit(k)
         /\ Peak' >= Peak /\ Peak' >= stepPeak' /\ UNCHANGED fixedVars
  <1> USE KindAssumption, LimitAssumption
  <1>1. UNCHANGED fixedVars
    BY DEF Next, vars, fixedVars, Charge, ChargeRefused, Release, Limit,
           chargeDocumentBytes, chargeDiagnostic
  <1>2. stepPeak' \in {stepPeak, Peak}
    BY DEF Next, vars, RaisePeak, Charge, ChargeRefused, Release, Limit,
           chargeDocumentBytes, chargeDiagnostic
  <1>3. stepPeak' >= stepPeak
    BY <1>2, LimitInRange DEF Peak, MaxOf, TypeOK
  <1>4. Peak' \in Nat /\ Peak' >= stepPeak'
    <2>1. NodeAllowance' \in 0..MaxInt64
      <3>1. usage'[Nodes] \in 0..MaxInt64 /\ stepsPerNode' \in 0..MaxInt64
        BY DEF TypeOK
      <3> QED BY <3>1, ProductInRange DEF NodeAllowance
    <2>2. ByteAllowance' \in 0..MaxInt64
      <3>1. documentBytes' \in 0..MaxInt64 /\ DefaultRuleStepsPerDocumentByte \in 0..MaxInt64
        BY DEF TypeOK
      <3> QED BY <3>1, ProductInRange DEF ByteAllowance
    <2>3. Allowance' \in 0..MaxInt64
      BY <2>1, <2>2 DEF Allowance, MinOf
    <2>4. saturatingSum(maxima'[RuleSteps], Allowance') \in 0..MaxInt64
      BY <2>3, SumInRange DEF TypeOK
    <2> QED BY <2>4 DEF Peak, MaxOf, TypeOK
  <1>5. Peak' >= Peak
    <2>1. ASSUME NEW n \in Amounts, chargeDocumentBytes(n) PROVE Peak' >= Peak
      <3>1. CASE stepsPerNode # 0
        BY <1>4, <2>1, <3>1, LimitInRange DEF chargeDocumentBytes, RaisePeak, Growing
      <3>2. CASE stepsPerNode = 0
        <4>1. /\ stepsPerNode' = 0 /\ maxima' = maxima
              /\ stepPeak' = stepPeak /\ usage' = usage
          BY <1>1, <2>1, <3>2 DEF fixedVars, chargeDocumentBytes, RaisePeak, Growing
        <4>2. /\ \A a \in 0..MaxInt64 : saturatingProduct(a, 0) = 0
              /\ ByteAllowance \in 0..MaxInt64
              /\ ByteAllowance' \in 0..MaxInt64
          <5>1. documentBytes' \in 0..MaxInt64 /\ DefaultRuleStepsPerDocumentByte \in 0..MaxInt64
            BY DEF TypeOK
          <5>2. ByteAllowance' \in 0..MaxInt64
            BY <5>1, ProductInRange DEF ByteAllowance
          <5> QED BY <5>2, LimitInRange DEF saturatingProduct
        <4>3. NodeAllowance = 0 /\ NodeAllowance' = 0
          BY <3>2, <4>1, <4>2 DEF NodeAllowance, TypeOK
        <4>4. Allowance = 0 /\ Allowance' = 0
          BY <4>2, <4>3 DEF Allowance, MinOf
        <4> QED BY <4>1, <4>4, LimitInRange DEF Peak
      <3> QED BY <3>1, <3>2 DEF TypeOK
    <2>2. ASSUME UNCHANGED documentBytes PROVE Peak' >= Peak
      <3>1. usage'[Nodes] >= usage[Nodes]
        BY <2>2 DEF Next, vars, Charge, ChargeRefused, Release, Limit,
               chargeDocumentBytes, chargeDiagnostic, TypeOK, ChargedKinds
      <3> QED BY <1>1, <1>3, <2>2, <3>1, ChargeKeepsPeak
    <2> QED BY <2>1, <2>2 DEF Next, vars, Charge, ChargeRefused, Release, Limit,
                chargeDiagnostic
  <1>6. \A k \in Kinds : limit(k)' >= limit(k)
    BY <1>1, <1>5 DEF limit, Growing, fixedVars, TypeOK
  <1> QED BY <1>1, <1>4, <1>5, <1>6

LEMMA NextUsage ==
  ASSUME TypeOK, TypeOK', UsageWithinLimit, [Next]_vars
  PROVE  UsageWithinLimit'
  <1> USE KindAssumption, LimitAssumption
  <1>0. /\ \A k \in Kinds : limit(k) \in 0..MaxInt64 /\ limit(k)' \in Int
        /\ \A k \in Kinds : limit(k)' >= limit(k)
    <2>1. Peak' \in Int
      <3>1. maxima' \in [Kinds -> 0..MaxInt64] /\ stepPeak' \in 0..MaxInt64
        BY DEF TypeOK
      <3>2. NodeAllowance' \in 0..MaxInt64
        <4>1. usage'[Nodes] \in 0..MaxInt64 /\ stepsPerNode' \in 0..MaxInt64
          BY DEF TypeOK
        <4> QED BY <4>1, ProductInRange DEF NodeAllowance
      <3>3. ByteAllowance' \in 0..MaxInt64
        <4>1. documentBytes' \in 0..MaxInt64 /\ DefaultRuleStepsPerDocumentByte \in 0..MaxInt64
          BY DEF TypeOK
        <4> QED BY <4>1, ProductInRange DEF ByteAllowance
      <3>4. Allowance' \in 0..MaxInt64
        BY <3>2, <3>3 DEF Allowance, MinOf
      <3>5. saturatingSum(maxima'[RuleSteps], Allowance') \in 0..MaxInt64
        BY <3>1, <3>4, SumInRange
      <3> QED BY <3>1, <3>5 DEF Peak, MaxOf
    <2>2. \A k \in Kinds : limit(k)' \in Int
      BY <2>1 DEF limit, TypeOK
    <2> QED BY <2>2, LimitInRange, NextLimit
  <1> SUFFICES ASSUME NEW j \in Kinds PROVE usage'[j] <= limit(j)'
    BY DEF UsageWithinLimit
  <1>1. usage[j] \in 0..MaxInt64 /\ usage'[j] \in 0..MaxInt64 /\ usage[j] <= limit(j)
    BY DEF TypeOK, UsageWithinLimit
  <1>2. ASSUME usage'[j] <= limit(j) PROVE usage'[j] <= limit(j)'
    BY <1>0, <1>1, <1>2
  <1>3. ASSUME NEW n \in Amounts, NEW k \in ChargedKinds, Charge(k, n)
        PROVE  usage'[j] <= limit(j)
    BY <1>0, <1>1, <1>3 DEF Charge, ChargedKinds, TypeOK
  <1>4. ASSUME NEW n \in Amounts, NEW k \in Kinds, Release(k, n)
        PROVE  usage'[j] <= limit(j)
    BY <1>0, <1>1, <1>4 DEF Release, TypeOK
  <1>5. ASSUME NEW n \in Amounts, chargeDiagnostic(n)
        PROVE  usage'[j] <= limit(j)
    <2>1. j \in {Diagnostics, DiagnosticBytes} => limit(j) = maxima[j]
      BY DEF limit, Growing
    <2> QED BY <1>1, <1>5, <2>1 DEF chargeDiagnostic, DiagnosticFits, TypeOK
  <1>6. ASSUME UNCHANGED usage PROVE usage'[j] <= limit(j)
    BY <1>1, <1>6
  <1> QED BY <1>2, <1>3, <1>4, <1>5, <1>6
          DEF Next, vars, ChargeRefused, Limit, chargeDocumentBytes

LEMMA InitUsage == Init => UsageWithinLimit
  <1> SUFFICES ASSUME Init PROVE UsageWithinLimit
    OBVIOUS
  <1>1. TypeOK
    BY InitType
  <1>2. \A k \in Kinds : limit(k) \in 0..MaxInt64
    BY <1>1, LimitInRange
  <1> QED BY <1>2, LimitAssumption DEF Init, UsageWithinLimit

\* Every usage, limit and peak is an int64 in every reachable state, although
\* Account.Charge adds and subtracts without overflow checks: the account's
\* quotas themselves keep the arithmetic in range.
THEOREM TypeCorrect == Spec => []TypeOK
  <1>1. Init => TypeOK /\ UsageWithinLimit
    BY InitType, InitUsage
  <1>2. TypeOK /\ UsageWithinLimit /\ [Next]_vars => (TypeOK /\ UsageWithinLimit)'
    BY NextType, NextUsage
  <1> QED BY <1>1, <1>2, PTL DEF Spec

\* No kind is ever used above its current limit, for every budget request:
\* Account.Charge, chargeDiagnostic and chargeDocumentBytes together keep
\* UsageWithinLimit.
THEOREM UsageStaysWithinLimit == Spec => []UsageWithinLimit
  <1>1. Init => TypeOK /\ UsageWithinLimit
    BY InitType, InitUsage
  <1>2. TypeOK /\ UsageWithinLimit /\ [Next]_vars => (TypeOK /\ UsageWithinLimit)'
    BY NextType, NextUsage
  <1> QED BY <1>1, <1>2, PTL DEF Spec

\* No call shrinks any limit, the growing rule-step limit included
\* (Account.limit and its stepPeak).
THEOREM LimitsNeverShrink == Spec => LimitNeverShrinks
  <1>1. Init => TypeOK /\ UsageWithinLimit
    BY InitType, InitUsage
  <1>2. TypeOK /\ UsageWithinLimit /\ [Next]_vars => (TypeOK /\ UsageWithinLimit)'
    BY NextType, NextUsage
  <1>3. TypeOK /\ TypeOK' /\ [Next]_vars
          => [\A k \in Kinds : limit(k)' >= limit(k)]_vars
    BY NextLimit
  <1> QED BY <1>1, <1>2, <1>3, PTL DEF Spec, LimitNeverShrinks

\* Account.Release refunds no cumulative kind and Account.chargeDiagnostic
\* consumes its two quotas together.
THEOREM QuotasMoveTogether == Spec => QuotaSteps
  <1> USE KindAssumption, LimitAssumption
  <1>1. Init => TypeOK /\ UsageWithinLimit
    BY InitType, InitUsage
  <1>2. TypeOK /\ UsageWithinLimit /\ [Next]_vars => (TypeOK /\ UsageWithinLimit)'
    BY NextType, NextUsage
  <1>3. ASSUME TypeOK, Next
        PROVE  /\ \A k \in Cumulative : usage'[k] >= usage[k]
               /\ usage'[Diagnostics] # usage[Diagnostics] <=>
                    usage'[DiagnosticBytes] # usage[DiagnosticBytes]
    <2>1. ASSUME NEW n \in Amounts, NEW k \in ChargedKinds, Charge(k, n)
          PROVE  /\ \A j \in Cumulative : usage'[j] >= usage[j]
                 /\ usage'[Diagnostics] = usage[Diagnostics]
                 /\ usage'[DiagnosticBytes] = usage[DiagnosticBytes]
      BY <1>3, <2>1 DEF Charge, ChargedKinds, TypeOK
    <2>2. ASSUME NEW n \in Amounts, NEW k \in Kinds, Release(k, n)
          PROVE  \A j \in Cumulative : usage'[j] = usage[j]
      BY <1>3, <2>2 DEF Release, TypeOK
    <2>3. ASSUME NEW n \in Amounts, chargeDiagnostic(n)
          PROVE  /\ \A j \in Cumulative : usage'[j] >= usage[j]
                 /\ usage'[Diagnostics] = usage[Diagnostics] + 1
                 /\ usage'[DiagnosticBytes] = usage[DiagnosticBytes] + n
      BY <1>3, <2>3 DEF chargeDiagnostic, TypeOK
    <2>4. \A j \in Cumulative : usage[j] \in Nat
      BY <1>3 DEF TypeOK
    <2> QED BY <1>3, <2>1, <2>2, <2>3, <2>4
            DEF Next, ChargeRefused, Limit, chargeDocumentBytes
  <1>4. TypeOK /\ [Next]_vars
          => [/\ \A k \in Cumulative : usage'[k] >= usage[k]
              /\ usage'[Diagnostics] # usage[Diagnostics] <=>
                   usage'[DiagnosticBytes] # usage[DiagnosticBytes]]_vars
    BY <1>3
  <1> QED BY <1>1, <1>2, <1>4, PTL DEF Spec, QuotaSteps

-----------------------------------------------------------------------------
(* The byte cap. UsageWithinLimit says nothing about how far stepPeak has  *)
(* grown; the strengthening bounds it on both sides of the first byte.     *)

\* What the charged input may allow beyond the base at most.
PeakAllowance ==
  IF documentBytes = 0 THEN NodeAllowance
  ELSE MaxOf(ByteAllowance, saturatingProduct(uncappedNodes, stepsPerNode))

PeakBounded ==
  stepsPerNode # 0 => stepPeak <= saturatingSum(maxima[RuleSteps], PeakAllowance)

LEMMA PeakAllowanceInRange ==
  ASSUME TypeOK
  PROVE  PeakAllowance \in 0..MaxInt64 /\ Allowance <= PeakAllowance
  <1>1. saturatingProduct(uncappedNodes, stepsPerNode) \in 0..MaxInt64
    <2>1. uncappedNodes \in 0..MaxInt64 /\ stepsPerNode \in 0..MaxInt64
      BY DEF TypeOK
    <2> QED BY <2>1, ProductInRange
  <1> QED BY <1>1, LimitInRange DEF PeakAllowance, Allowance, MaxOf, MinOf

\* Under the strengthening the limit itself is bounded.
LEMMA PeakWithinAllowance ==
  ASSUME TypeOK, PeakBounded, stepsPerNode # 0
  PROVE  Peak <= saturatingSum(maxima[RuleSteps], PeakAllowance)
  <1>1. /\ PeakAllowance \in 0..MaxInt64 /\ Allowance \in 0..MaxInt64
        /\ Allowance <= PeakAllowance /\ maxima[RuleSteps] \in 0..MaxInt64
    BY PeakAllowanceInRange, LimitInRange, KindAssumption DEF TypeOK
  <1>2. saturatingSum(maxima[RuleSteps], Allowance)
          <= saturatingSum(maxima[RuleSteps], PeakAllowance)
    BY <1>1, SumMonotone
  <1> QED BY <1>2 DEF Peak, MaxOf, PeakBounded

\* No step lowers what the charged input may allow.
LEMMA NextPeakAllowance ==
  ASSUME TypeOK, TypeOK', [Next]_vars
  PROVE  PeakAllowance' \in 0..MaxInt64 /\ PeakAllowance' >= PeakAllowance
  <1> USE KindAssumption, LimitAssumption
  <1>1. stepsPerNode' = stepsPerNode
    BY NextLimit DEF fixedVars
  <1>2. /\ usage[Nodes] \in 0..MaxInt64 /\ usage'[Nodes] \in 0..MaxInt64
        /\ stepsPerNode \in 0..MaxInt64 /\ DefaultRuleStepsPerDocumentByte \in 0..MaxInt64
        /\ documentBytes \in 0..MaxInt64 /\ documentBytes' \in 0..MaxInt64
        /\ uncappedNodes \in 0..MaxInt64 /\ uncappedNodes' \in 0..MaxInt64
    BY DEF TypeOK
  <1>3. /\ NodeAllowance \in 0..MaxInt64 /\ NodeAllowance' \in 0..MaxInt64
        /\ ByteAllowance \in 0..MaxInt64 /\ ByteAllowance' \in 0..MaxInt64
        /\ saturatingProduct(uncappedNodes, stepsPerNode) \in 0..MaxInt64
        /\ saturatingProduct(uncappedNodes', stepsPerNode) \in 0..MaxInt64
    BY <1>1, <1>2, ProductInRange DEF NodeAllowance, ByteAllowance
  <1>4. ASSUME NEW n \in Amounts, chargeDocumentBytes(n)
        PROVE  PeakAllowance' >= PeakAllowance
    <2>1. documentBytes' >= documentBytes /\ documentBytes' # 0
      BY <1>2, <1>4 DEF chargeDocumentBytes, saturatingSum
    <2>2. ByteAllowance' >= ByteAllowance
      BY <1>2, <2>1, ProductMonotone DEF ByteAllowance
    <2>3. CASE documentBytes = 0
      <3>1. saturatingProduct(uncappedNodes', stepsPerNode) = NodeAllowance
        BY <1>4, <2>3 DEF chargeDocumentBytes, NodeAllowance
      <3> QED BY <1>1, <1>3, <2>1, <2>3, <3>1 DEF PeakAllowance, MaxOf
    <2>4. CASE documentBytes # 0
      <3>1. uncappedNodes' = uncappedNodes
        BY <1>4, <2>4 DEF chargeDocumentBytes
      <3> QED BY <1>1, <1>3, <2>1, <2>2, <2>4, <3>1 DEF PeakAllowance, MaxOf
    <2> QED BY <2>3, <2>4
  <1>5. ASSUME UNCHANGED <<documentBytes, uncappedNodes>>
        PROVE  PeakAllowance' >= PeakAllowance
    <2>1. usage'[Nodes] >= usage[Nodes]
      BY <1>2, <1>5 DEF Next, vars, Charge, ChargeRefused, Release, Limit,
             chargeDocumentBytes, chargeDiagnostic, TypeOK, ChargedKinds
    <2>2. NodeAllowance' >= NodeAllowance
      BY <1>1, <1>2, <2>1, ProductMonotone DEF NodeAllowance
    <2>3. ByteAllowance' = ByteAllowance
      BY <1>5 DEF ByteAllowance
    <2> QED BY <1>1, <1>3, <1>5, <2>2, <2>3 DEF PeakAllowance, MaxOf
  <1>6. PeakAllowance' \in 0..MaxInt64
    BY <1>1, <1>3 DEF PeakAllowance, MaxOf
  <1> QED BY <1>4, <1>5, <1>6
          DEF Next, vars, Charge, ChargeRefused, Release, Limit, chargeDiagnostic

LEMMA NextPeakBounded ==
  ASSUME TypeOK, TypeOK', PeakBounded, [Next]_vars
  PROVE  PeakBounded'
  <1> SUFFICES ASSUME stepsPerNode' # 0
               PROVE  stepPeak' <= saturatingSum(maxima'[RuleSteps], PeakAllowance')
    BY DEF PeakBounded
  <1> USE KindAssumption, LimitAssumption
  <1>1. stepsPerNode # 0 /\ maxima' = maxima
    BY NextLimit DEF fixedVars
  <1>2. stepPeak' \in {stepPeak, Peak}
    BY DEF Next, vars, RaisePeak, Charge, ChargeRefused, Release, Limit,
           chargeDocumentBytes, chargeDiagnostic
  <1>3. stepPeak' <= saturatingSum(maxima[RuleSteps], PeakAllowance)
    BY <1>1, <1>2, PeakWithinAllowance DEF PeakBounded
  <1>4. /\ PeakAllowance \in 0..MaxInt64 /\ PeakAllowance' \in 0..MaxInt64
        /\ PeakAllowance <= PeakAllowance' /\ maxima[RuleSteps] \in 0..MaxInt64
    BY PeakAllowanceInRange, NextPeakAllowance DEF TypeOK
  <1>5. saturatingSum(maxima[RuleSteps], PeakAllowance)
          <= saturatingSum(maxima[RuleSteps], PeakAllowance')
    BY <1>4, SumMonotone
  <1>6. /\ saturatingSum(maxima[RuleSteps], PeakAllowance) \in 0..MaxInt64
        /\ saturatingSum(maxima[RuleSteps], PeakAllowance') \in 0..MaxInt64
        /\ stepPeak' \in 0..MaxInt64
    BY <1>4, SumInRange DEF TypeOK
  <1> QED BY <1>1, <1>3, <1>5, <1>6

LEMMA InitPeakBounded == Init => PeakBounded
  <1> SUFFICES ASSUME Init PROVE PeakBounded
    OBVIOUS
  <1>1. TypeOK
    BY InitType
  <1>2. saturatingSum(maxima[RuleSteps], PeakAllowance) \in 0..MaxInt64
    BY <1>1, PeakAllowanceInRange, SumInRange, KindAssumption DEF TypeOK
  <1> QED BY <1>2 DEF Init, PeakBounded

\* Nodes charged after the first document byte never raise the rule-step limit
\* beyond the work of the document bytes (Account.limit, chargeDocumentBytes).
THEOREM ExpansionStaysBounded == Spec => []ExpansionBounded
  <1>1. Init => TypeOK /\ UsageWithinLimit /\ PeakBounded
    BY InitType, InitUsage, InitPeakBounded
  <1>2. TypeOK /\ UsageWithinLimit /\ PeakBounded /\ [Next]_vars
          => (TypeOK /\ UsageWithinLimit /\ PeakBounded)'
    BY NextType, NextUsage, NextPeakBounded
  <1>3. TypeOK /\ PeakBounded => ExpansionBounded
    BY PeakWithinAllowance DEF ExpansionBounded, PeakAllowance, limit, Growing
  <1> QED BY <1>1, <1>2, <1>3, PTL DEF Spec

=============================================================================
