------------------------ MODULE SessionEventsProofs ------------------------
(***************************************************************************)
(* Proofs about SessionEvents for every set of nodes and names, every      *)
(* limit and every behaviour of the other sessions on the account.         *)
(*                                                                         *)
(* The inductive invariant is the type invariant with five facts that need *)
(* each other: the usage is the sum of what is held (Balanced), which      *)
(* keeps a release from being refused; the marks of nested evaluations are *)
(* ordered below the scratch (ScopesNest), which keeps releaseTransient    *)
(* from returning too much; the depth follows the stack (DepthIsStack),    *)
(* which keeps it from becoming negative; evaluations run only inside      *)
(* CloseNode and Finish (ScopesInHandlers), so that cleanup resets no      *)
(* scratch under a mark; and a session that is done holds nothing          *)
(* (Emptied).                                                              *)
(*                                                                         *)
(* The second part is about the document: the nodes admitted so far form a *)
(* tree read in document order (Tree), whose open nodes are distinct, and  *)
(* a claim of complete input is made of a closed tree (Claimed).           *)
(***************************************************************************)
EXTENDS SessionEvents, SequenceTheorems, TLAPS

Emptied == pc = "done" => depth = 0 /\ retained = 0 /\ transient = 0

ScopesInHandlers == pc \notin {"closing", "finishing"} => marks = <<>>

IInv == TypeOK /\ ScopesNest /\ Balanced /\ DepthIsStack /\ ScopesInHandlers /\ Emptied

\* The amounts and the limits are natural numbers.
LEMMA Numbers ==
  /\ Amounts \subseteq Nat
  /\ MaxDepth \in Nat /\ MaxBytes \in Nat /\ MaxScopes \in Nat /\ MaxWork \in Nat
  BY SessionAssumption

\* A nonempty sequence without its last element.
LEMMA FrontOf ==
  ASSUME NEW S, NEW s \in Seq(S), s # <<>>
  PROVE  /\ Len(s) \in Nat \ {0}
         /\ s[Len(s)] \in S
         /\ SubSeq(s, 1, Len(s) - 1) \in Seq(S)
         /\ Len(SubSeq(s, 1, Len(s) - 1)) = Len(s) - 1
         /\ \A i \in 1 .. Len(s) - 1 : SubSeq(s, 1, Len(s) - 1)[i] = s[i]
<1>1. Len(s) \in Nat \ {0}
  BY EmptySeq
<1>2. \A i \in 1 .. Len(s) : s[i] \in S
  BY LenProperties
<1>3. \A i \in 1 .. Len(s) - 1 : s[i] \in S
  BY <1>1, <1>2
<1>4. 1 \in Int /\ Len(s) - 1 \in Int /\ Len(s) \in 1 .. Len(s)
  BY <1>1
<1>5. /\ SubSeq(s, 1, Len(s) - 1) \in Seq(S)
      /\ Len(SubSeq(s, 1, Len(s) - 1)) = IF 1 <= Len(s) - 1 THEN (Len(s) - 1) - 1 + 1 ELSE 0
      /\ \A i \in 1 .. (Len(s) - 1) - 1 + 1 : SubSeq(s, 1, Len(s) - 1)[i] = s[1 + i - 1]
  BY <1>3, <1>4, SubSeqProperties
<1>6. Len(SubSeq(s, 1, Len(s) - 1)) = Len(s) - 1
  <2> DEFINE n == Len(s)
             front == SubSeq(s, 1, n - 1)
             m == Len(front)
  <2>1. n \in Nat \ {0} /\ m = IF 1 <= n - 1 THEN (n - 1) - 1 + 1 ELSE 0
    BY <1>1, <1>5
  <2> HIDE DEF n, front, m
  <2>2. m = n - 1
    BY <2>1
  <2> QED
    BY <2>2 DEF n, front, m
<1>7. ASSUME NEW i \in 1 .. Len(s) - 1 PROVE SubSeq(s, 1, Len(s) - 1)[i] = s[i]
  <2>1. i \in 1 .. (Len(s) - 1) - 1 + 1 /\ 1 + i - 1 = i
    BY <1>1
  <2> QED
    BY <1>5, <2>1
<1> QED
  BY <1>1, <1>2, <1>4, <1>5, <1>6, <1>7

\* The gauges keep their types, because no release exceeds what is in use.
LEMMA GaugesStep ==
  ASSUME GaugesTypeOK, NodesTypeOK, Balanced, DepthIsStack, [Next]_vars
  PROVE  GaugesTypeOK'
<1> USE Numbers
<1>1. ASSUME NEW o \in OtherUse, Other(o) PROVE GaugesTypeOK'
  <2>1. o \in Gauge
    BY SessionAssumption
  <2>2. o.depth \in 0 .. MaxDepth /\ o.bytes \in 0 .. MaxBytes
    BY <2>1 DEF Gauge
  <2>3. /\ usedDepth - otherDepth = depth /\ usedBytes - otherBytes = retained + transient
        /\ depth \in Nat /\ retained \in Nat /\ transient \in Nat
    <3>1. /\ depth \in Nat /\ retained \in Nat /\ transient \in Nat
          /\ otherDepth \in Nat /\ otherBytes \in Nat
      BY DEF GaugesTypeOK
    <3>2. usedDepth = depth + otherDepth /\ usedBytes = retained + transient + otherBytes
      BY DEF Balanced
    <3> QED
      BY <3>1, <3>2
  <2>4. /\ usedDepth' = depth + o.depth /\ usedDepth' <= MaxDepth
        /\ usedBytes' = retained + transient + o.bytes /\ usedBytes' <= MaxBytes
        /\ otherDepth' = o.depth /\ otherBytes' = o.bytes
    BY <1>1, <2>3 DEF Other
  <2>5. UNCHANGED <<depth, retained, transient, marks, work>>
    BY <1>1 DEF Other, ownVars
  <2>6. usedDepth' \in 0 .. MaxDepth
    BY <2>2, <2>3, <2>4
  <2>7. usedBytes' \in 0 .. MaxBytes
    BY <2>2, <2>3, <2>4
  <2> QED
    BY <2>2, <2>4, <2>5, <2>6, <2>7 DEF GaugesTypeOK, Balanced
<1>2. ASSUME NEW n \in Amounts, Begin(n) PROVE GaugesTypeOK'
  BY <1>2 DEF Begin, ChargeBytes, GaugesTypeOK, Balanced, nodeVars, ownVars, accountVars,
     otherVars
<1>3. ASSUME NEW n \in Amounts, BeginRefused(n) PROVE GaugesTypeOK'
  BY <1>3 DEF BeginRefused, ChargeBytes, GaugesTypeOK, Balanced, nodeVars, ownVars,
     accountVars, otherVars
<1>4. ASSUME NEW n \in Amounts, NEW d \in 0 .. 1, Refuse(d, n) PROVE GaugesTypeOK'
  BY <1>4 DEF Refuse, Receiving, ChargeBytes, ChargeDepth, GaugesTypeOK, Balanced, nodeVars,
     ownVars, accountVars, otherVars
<1>5. ASSUME NEW n \in Amounts, NEW id \in IDs, NEW p \in IDs \cup {NoID}, OpenNode(id, p, n)
      PROVE GaugesTypeOK'
  BY <1>5 DEF OpenNode, Receiving, ChargeBytes, ChargeDepth, GaugesTypeOK, Balanced, nodeVars,
     ownVars, accountVars, otherVars
<1>6. ASSUME NEW n \in Amounts, NEW name \in Names, Attribute(name, n) PROVE GaugesTypeOK'
  BY <1>6 DEF Attribute, Receiving, ChargeBytes, GaugesTypeOK, Balanced, nodeVars, ownVars,
     accountVars, otherVars
<1>7. ASSUME NEW n \in Amounts, NEW s \in Seals, CompleteAttributes(s, n) PROVE GaugesTypeOK'
  BY <1>7 DEF CompleteAttributes, Receiving, ChargeBytes, GaugesTypeOK, Balanced, nodeVars,
     ownVars, accountVars, otherVars
<1>8. ASSUME NEW n \in Amounts, NEW found \in Examined, ModelRepresentation(found, n)
      PROVE GaugesTypeOK'
  BY <1>8 DEF ModelRepresentation, Receiving, ChargeBytes, GaugesTypeOK, Balanced, nodeVars,
     ownVars, accountVars, otherVars
<1>9. ASSUME NEW n \in Amounts, NEW end \in Ends, CloseNode(end, n) PROVE GaugesTypeOK'
  <2>1. stack \in Seq(IDs) /\ stack # <<>>
    BY <1>9 DEF NodesTypeOK, CloseNode
  <2> QED
    BY <1>9, <2>1, FrontOf DEF CloseNode, Receiving, DepthReturned, Released, ChargeBytes,
       GaugesTypeOK, Balanced, nodeVars, ownVars, accountVars, otherVars, DepthIsStack
<1>10. ASSUME NEW n \in Amounts, Retain(n) PROVE GaugesTypeOK'
  BY <1>10 DEF Retain, Working, ChargeBytes, GaugesTypeOK, Balanced, nodeVars, ownVars,
     accountVars, otherVars
<1>11. ASSUME NEW n \in Amounts, releaseFactBytes(n) PROVE GaugesTypeOK'
  BY <1>11 DEF releaseFactBytes, Working, Released, GaugesTypeOK, Balanced, nodeVars, ownVars,
     accountVars, otherVars
<1>12. ASSUME NEW n \in Amounts, retainTransient(n) PROVE GaugesTypeOK'
  BY <1>12 DEF retainTransient, Working, ChargeBytes, GaugesTypeOK, Balanced, nodeVars,
     ownVars, accountVars, otherVars
<1>13. CASE BeginScope
  BY <1>13 DEF BeginScope, Working, GaugesTypeOK, Balanced, nodeVars, ownVars, accountVars,
     otherVars
<1>14. CASE releaseTransient
  <2>1. marks \in Seq(Nat) /\ marks # <<>> /\ transient \in Nat
    BY <1>14 DEF GaugesTypeOK, releaseTransient
  <2> DEFINE mark == marks[Len(marks)]
             front == SubSeq(marks, 1, Len(marks) - 1)
  <2>2. mark \in Nat /\ front \in Seq(Nat)
    BY <2>1, FrontOf
  <2>3. marks' = front /\ UNCHANGED <<depth, retained, work, usedDepth, otherDepth, otherBytes>>
    BY <1>14 DEF releaseTransient, otherVars
  <2>4. CASE transient > mark
    <3>1. usedBytes' = Released(usedBytes, transient - mark) /\ transient' = mark
      BY <1>14, <2>4 DEF releaseTransient
    <3> HIDE DEF mark, front
    <3> QED
      BY <2>1, <2>2, <2>3, <2>4, <3>1 DEF Released, GaugesTypeOK, Balanced
  <2>5. CASE ~(transient > mark)
    <3>1. usedBytes' = usedBytes /\ transient' = transient
      BY <1>14, <2>5 DEF releaseTransient
    <3> HIDE DEF mark, front
    <3> QED
      BY <2>1, <2>2, <2>3, <3>1 DEF GaugesTypeOK, Balanced
  <2> QED
    BY <2>4, <2>5
<1>15. CASE Fail
  BY <1>15 DEF Fail, Working, GaugesTypeOK, Balanced, nodeVars, ownVars, accountVars, otherVars
<1>16. CASE EndEvaluations
  BY <1>16 DEF EndEvaluations, GaugesTypeOK, Balanced, nodeVars, ownVars, accountVars,
     otherVars
<1>17. ASSUME NEW claims \in BOOLEAN, NEW cause \in BOOLEAN, Finish(claims, cause)
      PROVE GaugesTypeOK'
  BY <1>17 DEF Finish, GaugesTypeOK, Balanced, nodeVars, ownVars, accountVars, otherVars
<1>18. CASE cleanup
  BY <1>18 DEF cleanup, Released, GaugesTypeOK, Balanced, nodeVars, ownVars, accountVars,
     otherVars
<1>19. CASE UNCHANGED vars
  BY <1>19 DEF vars, nodeVars, ownVars, accountVars, otherVars, GaugesTypeOK, Balanced
<1> QED
  BY <1>1, <1>2, <1>3, <1>4, <1>5, <1>6, <1>7, <1>8, <1>9, <1>10, <1>11, <1>12, <1>13, <1>14,
     <1>15, <1>16, <1>17, <1>18, <1>19 DEF Next

\* Every action changes the usage by what it changes in a holding.
LEMMA BalancedStep ==
  ASSUME GaugesTypeOK, Balanced, GaugesTypeOK', [Next]_vars
  PROVE  Balanced'
<1> USE Numbers
<1>1. ASSUME NEW o \in OtherUse, Other(o) PROVE Balanced'
  <2>1. o \in Gauge
    BY SessionAssumption
  <2>2. o.depth \in 0 .. MaxDepth /\ o.bytes \in 0 .. MaxBytes
    BY <2>1 DEF Gauge
  <2>3. /\ usedDepth - otherDepth = depth /\ usedBytes - otherBytes = retained + transient
        /\ depth \in Nat /\ retained \in Nat /\ transient \in Nat
    <3>1. /\ depth \in Nat /\ retained \in Nat /\ transient \in Nat
          /\ otherDepth \in Nat /\ otherBytes \in Nat
      BY DEF GaugesTypeOK
    <3>2. usedDepth = depth + otherDepth /\ usedBytes = retained + transient + otherBytes
      BY DEF Balanced
    <3> QED
      BY <3>1, <3>2
  <2>4. /\ usedDepth' = depth + o.depth /\ usedDepth' <= MaxDepth
        /\ usedBytes' = retained + transient + o.bytes /\ usedBytes' <= MaxBytes
        /\ otherDepth' = o.depth /\ otherBytes' = o.bytes
    BY <1>1, <2>3 DEF Other
  <2>5. UNCHANGED <<depth, retained, transient, marks, work>>
    BY <1>1 DEF Other, ownVars
  <2>6. usedDepth' \in 0 .. MaxDepth
    BY <2>2, <2>3, <2>4
  <2>7. usedBytes' \in 0 .. MaxBytes
    BY <2>2, <2>3, <2>4
  <2> QED
    BY <2>2, <2>4, <2>5, <2>6, <2>7 DEF GaugesTypeOK, Balanced
<1>2. ASSUME NEW n \in Amounts, Begin(n) PROVE Balanced'
  BY <1>2 DEF Begin, ChargeBytes, GaugesTypeOK, Balanced, nodeVars, ownVars, accountVars,
     otherVars
<1>3. ASSUME NEW n \in Amounts, BeginRefused(n) PROVE Balanced'
  BY <1>3 DEF BeginRefused, ChargeBytes, GaugesTypeOK, Balanced, nodeVars, ownVars,
     accountVars, otherVars
<1>4. ASSUME NEW n \in Amounts, NEW d \in 0 .. 1, Refuse(d, n) PROVE Balanced'
  BY <1>4 DEF Refuse, Receiving, ChargeBytes, ChargeDepth, GaugesTypeOK, Balanced, nodeVars,
     ownVars, accountVars, otherVars
<1>5. ASSUME NEW n \in Amounts, NEW id \in IDs, NEW p \in IDs \cup {NoID}, OpenNode(id, p, n)
      PROVE Balanced'
  BY <1>5 DEF OpenNode, Receiving, ChargeBytes, ChargeDepth, GaugesTypeOK, Balanced, nodeVars,
     ownVars, accountVars, otherVars
<1>6. ASSUME NEW n \in Amounts, NEW name \in Names, Attribute(name, n) PROVE Balanced'
  BY <1>6 DEF Attribute, Receiving, ChargeBytes, GaugesTypeOK, Balanced, nodeVars, ownVars,
     accountVars, otherVars
<1>7. ASSUME NEW n \in Amounts, NEW s \in Seals, CompleteAttributes(s, n) PROVE Balanced'
  BY <1>7 DEF CompleteAttributes, Receiving, ChargeBytes, GaugesTypeOK, Balanced, nodeVars,
     ownVars, accountVars, otherVars
<1>8. ASSUME NEW n \in Amounts, NEW found \in Examined, ModelRepresentation(found, n)
      PROVE Balanced'
  BY <1>8 DEF ModelRepresentation, Receiving, ChargeBytes, GaugesTypeOK, Balanced, nodeVars,
     ownVars, accountVars, otherVars
<1>9. ASSUME NEW n \in Amounts, NEW end \in Ends, CloseNode(end, n) PROVE Balanced'
  BY <1>9 DEF CloseNode, Receiving, DepthReturned, Released, ChargeBytes, GaugesTypeOK,
     Balanced, nodeVars, ownVars, accountVars, otherVars
<1>10. ASSUME NEW n \in Amounts, Retain(n) PROVE Balanced'
  BY <1>10 DEF Retain, Working, ChargeBytes, GaugesTypeOK, Balanced, nodeVars, ownVars,
     accountVars, otherVars
<1>11. ASSUME NEW n \in Amounts, releaseFactBytes(n) PROVE Balanced'
  BY <1>11 DEF releaseFactBytes, Working, Released, GaugesTypeOK, Balanced, nodeVars, ownVars,
     accountVars, otherVars
<1>12. ASSUME NEW n \in Amounts, retainTransient(n) PROVE Balanced'
  BY <1>12 DEF retainTransient, Working, ChargeBytes, GaugesTypeOK, Balanced, nodeVars,
     ownVars, accountVars, otherVars
<1>13. CASE BeginScope
  BY <1>13 DEF BeginScope, Working, GaugesTypeOK, Balanced, nodeVars, ownVars, accountVars,
     otherVars
<1>14. CASE releaseTransient
  <2>1. marks \in Seq(Nat) /\ marks # <<>> /\ transient \in Nat
    BY <1>14 DEF GaugesTypeOK, releaseTransient
  <2> DEFINE mark == marks[Len(marks)]
             front == SubSeq(marks, 1, Len(marks) - 1)
  <2>2. mark \in Nat /\ front \in Seq(Nat)
    BY <2>1, FrontOf
  <2>3. marks' = front /\ UNCHANGED <<depth, retained, work, usedDepth, otherDepth, otherBytes>>
    BY <1>14 DEF releaseTransient, otherVars
  <2>4. CASE transient > mark
    <3>1. usedBytes' = Released(usedBytes, transient - mark) /\ transient' = mark
      BY <1>14, <2>4 DEF releaseTransient
    <3> HIDE DEF mark, front
    <3> QED
      BY <2>1, <2>2, <2>3, <2>4, <3>1 DEF Released, GaugesTypeOK, Balanced
  <2>5. CASE ~(transient > mark)
    <3>1. usedBytes' = usedBytes /\ transient' = transient
      BY <1>14, <2>5 DEF releaseTransient
    <3> HIDE DEF mark, front
    <3> QED
      BY <2>1, <2>2, <2>3, <3>1 DEF GaugesTypeOK, Balanced
  <2> QED
    BY <2>4, <2>5
<1>15. CASE Fail
  BY <1>15 DEF Fail, Working, GaugesTypeOK, Balanced, nodeVars, ownVars, accountVars, otherVars
<1>16. CASE EndEvaluations
  BY <1>16 DEF EndEvaluations, GaugesTypeOK, Balanced, nodeVars, ownVars, accountVars,
     otherVars
<1>17. ASSUME NEW claims \in BOOLEAN, NEW cause \in BOOLEAN, Finish(claims, cause)
      PROVE Balanced'
  BY <1>17 DEF Finish, GaugesTypeOK, Balanced, nodeVars, ownVars, accountVars, otherVars
<1>18. CASE cleanup
  BY <1>18 DEF cleanup, Released, GaugesTypeOK, Balanced, nodeVars, ownVars, accountVars,
     otherVars
<1>19. CASE UNCHANGED vars
  BY <1>19 DEF vars, nodeVars, ownVars, accountVars, otherVars, GaugesTypeOK, Balanced
<1> QED
  BY <1>1, <1>2, <1>3, <1>4, <1>5, <1>6, <1>7, <1>8, <1>9, <1>10, <1>11, <1>12, <1>13, <1>14,
     <1>15, <1>16, <1>17, <1>18, <1>19 DEF Next

\* The facts of a document keep their types.
LEMMA NodesStep ==
  ASSUME NodesTypeOK, [Next]_vars
  PROVE  NodesTypeOK'
<1> USE SessionAssumption
<1>1. ASSUME NEW o \in OtherUse, Other(o) PROVE NodesTypeOK'
  BY <1>1 DEF Other, NodesTypeOK, nodeVars, ownVars, accountVars, otherVars
<1>2. ASSUME NEW n \in Amounts, Begin(n) PROVE NodesTypeOK'
  BY <1>2 DEF Begin, ChargeBytes, NodesTypeOK, nodeVars, ownVars, accountVars, otherVars
<1>3. ASSUME NEW n \in Amounts, BeginRefused(n) PROVE NodesTypeOK'
  BY <1>3 DEF BeginRefused, ChargeBytes, NodesTypeOK, nodeVars, ownVars, accountVars, otherVars
<1>4. ASSUME NEW n \in Amounts, NEW d \in 0 .. 1, Refuse(d, n) PROVE NodesTypeOK'
  BY <1>4 DEF Refuse, Receiving, ChargeBytes, ChargeDepth, NodesTypeOK, nodeVars, ownVars,
     accountVars, otherVars
<1>5. ASSUME NEW n \in Amounts, NEW id \in IDs, NEW p \in IDs \cup {NoID}, OpenNode(id, p, n)
      PROVE NodesTypeOK'
  BY <1>5 DEF OpenNode, Receiving, ChargeBytes, ChargeDepth, NodesTypeOK, nodeVars, ownVars,
     accountVars, otherVars
<1>6. ASSUME NEW n \in Amounts, NEW name \in Names, Attribute(name, n) PROVE NodesTypeOK'
  <2>1. stack \in Seq(IDs) /\ stack # <<>>
    BY <1>6 DEF NodesTypeOK, Attribute, AttributesOpen
  <2>2. Current \in IDs
    BY <2>1, FrontOf DEF Current
  <2>3. SubSeq(stack, 1, Len(stack) - 1) \in Seq(IDs)
    BY <2>1, FrontOf
  <2> QED
    BY <1>6, <2>2, <2>3 DEF Attribute, NodesTypeOK, nodeVars, ownVars, accountVars, otherVars
<1>7. ASSUME NEW n \in Amounts, NEW s \in Seals, CompleteAttributes(s, n) PROVE NodesTypeOK'
  <2>1. stack \in Seq(IDs) /\ stack # <<>>
    BY <1>7 DEF NodesTypeOK, CompleteAttributes, AttributesOpen
  <2>2. Current \in IDs
    BY <2>1, FrontOf DEF Current
  <2>3. SubSeq(stack, 1, Len(stack) - 1) \in Seq(IDs)
    BY <2>1, FrontOf
  <2> QED
    BY <1>7, <2>2, <2>3 DEF CompleteAttributes, NodesTypeOK, nodeVars, ownVars, accountVars,
       otherVars
<1>8. ASSUME NEW n \in Amounts, NEW found \in Examined, ModelRepresentation(found, n)
      PROVE NodesTypeOK'
  <2>1. stack \in Seq(IDs) /\ stack # <<>>
    BY <1>8 DEF NodesTypeOK, ModelRepresentation, AttributesOpen
  <2>2. Current \in IDs
    BY <2>1, FrontOf DEF Current
  <2>3. SubSeq(stack, 1, Len(stack) - 1) \in Seq(IDs)
    BY <2>1, FrontOf
  <2> QED
    BY <1>8, <2>2, <2>3 DEF ModelRepresentation, NodesTypeOK, nodeVars, ownVars, accountVars,
       otherVars
<1>9. ASSUME NEW n \in Amounts, NEW end \in Ends, CloseNode(end, n) PROVE NodesTypeOK'
  <2>1. stack \in Seq(IDs) /\ stack # <<>>
    BY <1>9 DEF NodesTypeOK, CloseNode, AttributesOpen
  <2>2. Current \in IDs
    BY <2>1, FrontOf DEF Current
  <2>3. SubSeq(stack, 1, Len(stack) - 1) \in Seq(IDs)
    BY <2>1, FrontOf
  <2> QED
    BY <1>9, <2>2, <2>3 DEF CloseNode, NodesTypeOK, nodeVars, ownVars, accountVars, otherVars
<1>10. ASSUME NEW n \in Amounts, Retain(n) PROVE NodesTypeOK'
  BY <1>10 DEF Retain, Working, ChargeBytes, NodesTypeOK, nodeVars, ownVars, accountVars,
     otherVars
<1>11. ASSUME NEW n \in Amounts, releaseFactBytes(n) PROVE NodesTypeOK'
  BY <1>11 DEF releaseFactBytes, Working, Released, NodesTypeOK, nodeVars, ownVars,
     accountVars, otherVars
<1>12. ASSUME NEW n \in Amounts, retainTransient(n) PROVE NodesTypeOK'
  BY <1>12 DEF retainTransient, Working, ChargeBytes, NodesTypeOK, nodeVars, ownVars,
     accountVars, otherVars
<1>13. CASE BeginScope
  BY <1>13 DEF BeginScope, Working, NodesTypeOK, nodeVars, ownVars, accountVars, otherVars
<1>14. CASE releaseTransient
  BY <1>14 DEF releaseTransient, Released, NodesTypeOK, nodeVars, ownVars, accountVars,
     otherVars
<1>15. CASE Fail
  BY <1>15 DEF Fail, Working, NodesTypeOK, nodeVars, ownVars, accountVars, otherVars
<1>16. CASE EndEvaluations
  BY <1>16 DEF EndEvaluations, NodesTypeOK, nodeVars, ownVars, accountVars, otherVars
<1>17. ASSUME NEW claims \in BOOLEAN, NEW cause \in BOOLEAN, Finish(claims, cause)
      PROVE NodesTypeOK'
  BY <1>17 DEF Finish, NodesTypeOK, nodeVars, ownVars, accountVars, otherVars
<1>18. CASE cleanup
  BY <1>18 DEF cleanup, Released, DropNodes, NodesTypeOK, nodeVars, ownVars, accountVars,
     otherVars
<1>19. CASE UNCHANGED vars
  BY <1>19 DEF vars, nodeVars, ownVars, accountVars, otherVars, NodesTypeOK
<1> QED
  BY <1>1, <1>2, <1>3, <1>4, <1>5, <1>6, <1>7, <1>8, <1>9, <1>10, <1>11, <1>12, <1>13, <1>14,
     <1>15, <1>16, <1>17, <1>18, <1>19 DEF Next

\* The control state keeps its type.
LEMMA ControlStep ==
  ASSUME TypeOK, NodesTypeOK', GaugesTypeOK', [Next]_vars
  PROVE  TypeOK'
<1>1. ASSUME NEW o \in OtherUse, Other(o) PROVE TypeOK'
  BY <1>1 DEF Other, TypeOK, nodeVars, ownVars, accountVars, otherVars
<1>2. ASSUME NEW n \in Amounts, Begin(n) PROVE TypeOK'
  BY <1>2 DEF Begin, ChargeBytes, TypeOK, nodeVars, ownVars, accountVars, otherVars
<1>3. ASSUME NEW n \in Amounts, BeginRefused(n) PROVE TypeOK'
  BY <1>3 DEF BeginRefused, ChargeBytes, TypeOK, nodeVars, ownVars, accountVars, otherVars
<1>4. ASSUME NEW n \in Amounts, NEW d \in 0 .. 1, Refuse(d, n) PROVE TypeOK'
  BY <1>4 DEF Refuse, Receiving, ChargeBytes, ChargeDepth, TypeOK, nodeVars, ownVars,
     accountVars, otherVars
<1>5. ASSUME NEW n \in Amounts, NEW id \in IDs, NEW p \in IDs \cup {NoID}, OpenNode(id, p, n)
      PROVE TypeOK'
  BY <1>5 DEF OpenNode, Receiving, ChargeBytes, ChargeDepth, TypeOK, nodeVars, ownVars,
     accountVars, otherVars
<1>6. ASSUME NEW n \in Amounts, NEW name \in Names, Attribute(name, n) PROVE TypeOK'
  BY <1>6 DEF Attribute, Receiving, ChargeBytes, TypeOK, nodeVars, ownVars, accountVars,
     otherVars
<1>7. ASSUME NEW n \in Amounts, NEW s \in Seals, CompleteAttributes(s, n) PROVE TypeOK'
  BY <1>7 DEF CompleteAttributes, Receiving, ChargeBytes, TypeOK, nodeVars, ownVars,
     accountVars, otherVars
<1>8. ASSUME NEW n \in Amounts, NEW found \in Examined, ModelRepresentation(found, n)
      PROVE TypeOK'
  BY <1>8 DEF ModelRepresentation, Receiving, ChargeBytes, TypeOK, nodeVars, ownVars,
     accountVars, otherVars
<1>9. ASSUME NEW n \in Amounts, NEW end \in Ends, CloseNode(end, n) PROVE TypeOK'
  BY <1>9 DEF CloseNode, Receiving, DepthReturned, Released, ChargeBytes, TypeOK, nodeVars,
     ownVars, accountVars, otherVars
<1>10. ASSUME NEW n \in Amounts, Retain(n) PROVE TypeOK'
  BY <1>10 DEF Retain, Working, ChargeBytes, TypeOK, nodeVars, ownVars, accountVars, otherVars
<1>11. ASSUME NEW n \in Amounts, releaseFactBytes(n) PROVE TypeOK'
  BY <1>11 DEF releaseFactBytes, Working, Released, TypeOK, nodeVars, ownVars, accountVars,
     otherVars
<1>12. ASSUME NEW n \in Amounts, retainTransient(n) PROVE TypeOK'
  BY <1>12 DEF retainTransient, Working, ChargeBytes, TypeOK, nodeVars, ownVars, accountVars,
     otherVars
<1>13. CASE BeginScope
  BY <1>13 DEF BeginScope, Working, TypeOK, nodeVars, ownVars, accountVars, otherVars
<1>14. CASE releaseTransient
  BY <1>14 DEF releaseTransient, Released, TypeOK, nodeVars, ownVars, accountVars, otherVars
<1>15. CASE Fail
  BY <1>15 DEF Fail, Working, TypeOK, nodeVars, ownVars, accountVars, otherVars
<1>16. CASE EndEvaluations
  BY <1>16 DEF EndEvaluations, TypeOK, nodeVars, ownVars, accountVars, otherVars
<1>17. ASSUME NEW claims \in BOOLEAN, NEW cause \in BOOLEAN, Finish(claims, cause)
      PROVE TypeOK'
  <2>1. terminal' \in BOOLEAN
    BY <1>17 DEF TypeOK, Finish
  <2>2. inputComplete' \in BOOLEAN
    BY <1>17 DEF TypeOK, Finish, Completes
  <2>3. pc' = "finishing"
    BY <1>17 DEF Finish
  <2> QED
    BY <2>1, <2>2, <2>3 DEF TypeOK
<1>18. CASE cleanup
  BY <1>18 DEF cleanup, Released, DropNodes, TypeOK, nodeVars, ownVars, accountVars, otherVars
<1>19. CASE UNCHANGED vars
  BY <1>19 DEF vars, nodeVars, ownVars, accountVars, otherVars, TypeOK
<1> QED
  BY <1>1, <1>2, <1>3, <1>4, <1>5, <1>6, <1>7, <1>8, <1>9, <1>10, <1>11, <1>12, <1>13, <1>14,
     <1>15, <1>16, <1>17, <1>18, <1>19 DEF Next

\* Every action keeps the marks of the running evaluations in order.
LEMMA ScopesStep ==
  ASSUME GaugesTypeOK, ScopesNest, ScopesInHandlers, [Next]_vars
  PROVE  ScopesNest'
<1> USE Numbers
<1>1. ASSUME NEW o \in OtherUse, Other(o) PROVE ScopesNest'
  BY <1>1 DEF Other, ScopesNest, nodeVars, ownVars, accountVars, otherVars
<1>2. ASSUME NEW n \in Amounts, Begin(n) PROVE ScopesNest'
  BY <1>2 DEF Begin, ChargeBytes, ScopesNest, nodeVars, ownVars, accountVars, otherVars
<1>3. ASSUME NEW n \in Amounts, BeginRefused(n) PROVE ScopesNest'
  BY <1>3 DEF BeginRefused, ChargeBytes, ScopesNest, nodeVars, ownVars, accountVars, otherVars
<1>4. ASSUME NEW n \in Amounts, NEW d \in 0 .. 1, Refuse(d, n) PROVE ScopesNest'
  BY <1>4 DEF Refuse, Receiving, ChargeBytes, ChargeDepth, ScopesNest, nodeVars, ownVars,
     accountVars, otherVars
<1>5. ASSUME NEW n \in Amounts, NEW id \in IDs, NEW p \in IDs \cup {NoID}, OpenNode(id, p, n)
      PROVE ScopesNest'
  BY <1>5 DEF OpenNode, Receiving, ChargeBytes, ChargeDepth, ScopesNest, nodeVars, ownVars,
     accountVars, otherVars
<1>6. ASSUME NEW n \in Amounts, NEW name \in Names, Attribute(name, n) PROVE ScopesNest'
  BY <1>6 DEF Attribute, Receiving, ChargeBytes, ScopesNest, nodeVars, ownVars, accountVars,
     otherVars
<1>7. ASSUME NEW n \in Amounts, NEW s \in Seals, CompleteAttributes(s, n) PROVE ScopesNest'
  BY <1>7 DEF CompleteAttributes, Receiving, ChargeBytes, ScopesNest, nodeVars, ownVars,
     accountVars, otherVars
<1>8. ASSUME NEW n \in Amounts, NEW found \in Examined, ModelRepresentation(found, n)
      PROVE ScopesNest'
  BY <1>8 DEF ModelRepresentation, Receiving, ChargeBytes, ScopesNest, nodeVars, ownVars,
     accountVars, otherVars
<1>9. ASSUME NEW n \in Amounts, NEW end \in Ends, CloseNode(end, n) PROVE ScopesNest'
  BY <1>9 DEF CloseNode, Receiving, DepthReturned, Released, ChargeBytes, ScopesNest, nodeVars,
     ownVars, accountVars, otherVars
<1>10. ASSUME NEW n \in Amounts, Retain(n) PROVE ScopesNest'
  BY <1>10 DEF Retain, Working, ChargeBytes, ScopesNest, nodeVars, ownVars, accountVars,
     otherVars
<1>11. ASSUME NEW n \in Amounts, releaseFactBytes(n) PROVE ScopesNest'
  BY <1>11 DEF releaseFactBytes, Working, Released, ScopesNest, nodeVars, ownVars, accountVars,
     otherVars
<1>12. ASSUME NEW n \in Amounts, retainTransient(n) PROVE ScopesNest'
  <2>1. marks' = marks /\ transient' = transient + n /\ n \in Nat
    BY <1>12 DEF retainTransient
  <2>2. transient \in Nat /\ marks \in Seq(Nat)
    BY DEF GaugesTypeOK
  <2>3. \A i \in 1 .. Len(marks) : marks[i] \in Nat
    BY <2>2, LenProperties
  <2> QED
    BY <2>1, <2>2, <2>3 DEF ScopesNest
<1>13. CASE BeginScope
  <2>1. marks' = Append(marks, transient) /\ transient' = transient
    BY <1>13 DEF BeginScope
  <2>2. transient \in Nat /\ marks \in Seq(Nat)
    BY DEF GaugesTypeOK
  <2>3. /\ Len(marks) \in Nat
        /\ \A i \in 1 .. Len(marks) : marks[i] \in Nat
    BY <2>2, LenProperties
  <2>4. /\ Len(marks') = Len(marks) + 1
        /\ \A i \in 1 .. Len(marks) : marks'[i] = marks[i]
        /\ marks'[Len(marks) + 1] = transient
    BY <2>1, <2>2, AppendProperties
  <2>5. ASSUME NEW i \in 1 .. Len(marks') PROVE marks'[i] <= transient
    <3>1. CASE i \in 1 .. Len(marks)
      BY <2>4, <3>1 DEF ScopesNest
    <3>2. CASE i = Len(marks) + 1
      BY <2>2, <2>4, <3>2
    <3> QED
      BY <2>3, <2>4, <3>1, <3>2
  <2>6. ASSUME NEW i \in 1 .. Len(marks'), NEW j \in 1 .. i PROVE marks'[j] <= marks'[i]
    <3>1. CASE i \in 1 .. Len(marks)
      <4>1. j \in 1 .. Len(marks)
        BY <2>3, <3>1
      <4> QED
        BY <2>4, <3>1, <4>1 DEF ScopesNest
    <3>2. CASE i = Len(marks) + 1
      <4>1. j \in 1 .. Len(marks')
        BY <2>3, <2>4
      <4> QED
        BY <2>4, <2>5, <3>2, <4>1
    <3> QED
      BY <2>3, <2>4, <3>1, <3>2
  <2> QED
    BY <2>1, <2>5, <2>6 DEF ScopesNest
<1>14. CASE releaseTransient
  <2>1. marks \in Seq(Nat) /\ marks # <<>> /\ transient \in Nat
    BY <1>14 DEF GaugesTypeOK, releaseTransient
  <2>2. /\ Len(marks) \in Nat \ {0}
        /\ marks[Len(marks)] \in Nat
        /\ marks' = SubSeq(marks, 1, Len(marks) - 1)
        /\ Len(marks') = Len(marks) - 1
        /\ \A i \in 1 .. Len(marks) - 1 : marks'[i] = marks[i]
    BY <1>14, <2>1, FrontOf DEF releaseTransient
  <2>3. marks[Len(marks)] <= transient
    BY <2>2 DEF ScopesNest
  <2>4. transient' = marks[Len(marks)]
    BY <1>14, <2>1, <2>2, <2>3 DEF releaseTransient
  <2>5. ASSUME NEW i \in 1 .. Len(marks') PROVE marks'[i] <= transient'
    <3>1. i \in 1 .. Len(marks) /\ Len(marks) \in 1 .. Len(marks) /\ i \in 1 .. Len(marks) - 1
      BY <2>2
    <3> QED
      BY <2>2, <2>4, <3>1 DEF ScopesNest
  <2>6. ASSUME NEW i \in 1 .. Len(marks'), NEW j \in 1 .. i PROVE marks'[j] <= marks'[i]
    <3>1. i \in 1 .. Len(marks) - 1 /\ j \in 1 .. Len(marks) - 1 /\ i \in 1 .. Len(marks)
      BY <2>2
    <3> QED
      BY <2>2, <3>1 DEF ScopesNest
  <2> QED
    BY <2>5, <2>6 DEF ScopesNest
<1>15. CASE Fail
  BY <1>15 DEF Fail, Working, ScopesNest, nodeVars, ownVars, accountVars, otherVars
<1>16. CASE EndEvaluations
  BY <1>16 DEF EndEvaluations, ScopesNest, nodeVars, ownVars, accountVars, otherVars
<1>17. ASSUME NEW claims \in BOOLEAN, NEW cause \in BOOLEAN, Finish(claims, cause)
      PROVE ScopesNest'
  BY <1>17 DEF Finish, ScopesNest, nodeVars, ownVars, accountVars, otherVars
<1>18. CASE cleanup
  <2>1. marks' = <<>>
    BY <1>18 DEF ScopesInHandlers, cleanup
  <2> QED
    BY <2>1 DEF ScopesNest
<1>19. CASE UNCHANGED vars
  BY <1>19 DEF vars, nodeVars, ownVars, accountVars, otherVars, ScopesNest
<1> QED
  BY <1>1, <1>2, <1>3, <1>4, <1>5, <1>6, <1>7, <1>8, <1>9, <1>10, <1>11, <1>12, <1>13, <1>14,
     <1>15, <1>16, <1>17, <1>18, <1>19 DEF Next

\* Every action changes the depth with the stack, unless it is terminal.
LEMMA DepthStep ==
  ASSUME GaugesTypeOK, NodesTypeOK, Balanced, DepthIsStack, [Next]_vars
  PROVE  DepthIsStack'
<1> USE Numbers
<1>1. ASSUME NEW o \in OtherUse, Other(o) PROVE DepthIsStack'
  BY <1>1 DEF Other, GaugesTypeOK, DepthIsStack, Balanced, nodeVars, ownVars, accountVars,
     otherVars
<1>2. ASSUME NEW n \in Amounts, Begin(n) PROVE DepthIsStack'
  BY <1>2 DEF Begin, ChargeBytes, GaugesTypeOK, DepthIsStack, Balanced, nodeVars, ownVars,
     accountVars, otherVars
<1>3. ASSUME NEW n \in Amounts, BeginRefused(n) PROVE DepthIsStack'
  BY <1>3 DEF BeginRefused, ChargeBytes, GaugesTypeOK, DepthIsStack, Balanced, nodeVars,
     ownVars, accountVars, otherVars
<1>4. ASSUME NEW n \in Amounts, NEW d \in 0 .. 1, Refuse(d, n) PROVE DepthIsStack'
  <2>1. /\ pc' = pc /\ pc # "done" /\ ~terminal /\ terminal'
        /\ stack' = stack /\ depth' = depth + d
    BY <1>4 DEF Refuse, Receiving, nodeVars
  <2>2. depth = Len(stack) /\ depth \in Nat
    BY <2>1 DEF GaugesTypeOK, DepthIsStack
  <2>3. d = 0 \/ d = 1
    OBVIOUS
  <2> QED
    BY <2>1, <2>2, <2>3 DEF DepthIsStack
<1>5. ASSUME NEW n \in Amounts, NEW id \in IDs, NEW p \in IDs \cup {NoID}, OpenNode(id, p, n)
      PROVE DepthIsStack'
  <2>1. /\ pc # "done" /\ ~terminal
        /\ stack' = Append(stack, id) /\ depth' = depth + 1
    BY <1>5 DEF OpenNode, Receiving
  <2>2. depth = Len(stack) /\ stack \in Seq(IDs)
    BY <2>1 DEF NodesTypeOK, DepthIsStack
  <2>3. Len(stack') = Len(stack) + 1
    BY <2>1, <2>2, AppendProperties
  <2> QED
    BY <2>1, <2>2, <2>3 DEF DepthIsStack
<1>6. ASSUME NEW n \in Amounts, NEW name \in Names, Attribute(name, n) PROVE DepthIsStack'
  BY <1>6 DEF Attribute, Receiving, ChargeBytes, GaugesTypeOK, DepthIsStack, Balanced,
     nodeVars, ownVars, accountVars, otherVars
<1>7. ASSUME NEW n \in Amounts, NEW s \in Seals, CompleteAttributes(s, n) PROVE DepthIsStack'
  BY <1>7 DEF CompleteAttributes, Receiving, ChargeBytes, GaugesTypeOK, DepthIsStack, Balanced,
     nodeVars, ownVars, accountVars, otherVars
<1>8. ASSUME NEW n \in Amounts, NEW found \in Examined, ModelRepresentation(found, n)
      PROVE DepthIsStack'
  BY <1>8 DEF ModelRepresentation, Receiving, ChargeBytes, GaugesTypeOK, DepthIsStack,
     Balanced, nodeVars, ownVars, accountVars, otherVars
<1>9. ASSUME NEW n \in Amounts, NEW end \in Ends, CloseNode(end, n) PROVE DepthIsStack'
  <2>1. stack \in Seq(IDs) /\ stack # <<>>
    BY <1>9 DEF NodesTypeOK, CloseNode
  <2> QED
    BY <1>9, <2>1, FrontOf DEF CloseNode, Receiving, DepthReturned, Released, ChargeBytes,
       GaugesTypeOK, DepthIsStack, Balanced, nodeVars, ownVars, accountVars, otherVars
<1>10. ASSUME NEW n \in Amounts, Retain(n) PROVE DepthIsStack'
  BY <1>10 DEF Retain, Working, ChargeBytes, GaugesTypeOK, DepthIsStack, Balanced, nodeVars,
     ownVars, accountVars, otherVars
<1>11. ASSUME NEW n \in Amounts, releaseFactBytes(n) PROVE DepthIsStack'
  BY <1>11 DEF releaseFactBytes, Working, Released, GaugesTypeOK, DepthIsStack, Balanced,
     nodeVars, ownVars, accountVars, otherVars
<1>12. ASSUME NEW n \in Amounts, retainTransient(n) PROVE DepthIsStack'
  BY <1>12 DEF retainTransient, Working, ChargeBytes, GaugesTypeOK, DepthIsStack, Balanced,
     nodeVars, ownVars, accountVars, otherVars
<1>13. CASE BeginScope
  BY <1>13 DEF BeginScope, Working, GaugesTypeOK, DepthIsStack, Balanced, nodeVars, ownVars,
     accountVars, otherVars
<1>14. CASE releaseTransient
  BY <1>14 DEF releaseTransient, Released, GaugesTypeOK, DepthIsStack, Balanced, nodeVars,
     ownVars, accountVars, otherVars
<1>15. CASE Fail
  BY <1>15 DEF Fail, Working, GaugesTypeOK, DepthIsStack, Balanced, nodeVars, ownVars,
     accountVars, otherVars
<1>16. CASE EndEvaluations
  BY <1>16 DEF EndEvaluations, GaugesTypeOK, DepthIsStack, Balanced, nodeVars, ownVars,
     accountVars, otherVars
<1>17. ASSUME NEW claims \in BOOLEAN, NEW cause \in BOOLEAN, Finish(claims, cause)
      PROVE DepthIsStack'
  BY <1>17 DEF Finish, GaugesTypeOK, DepthIsStack, Balanced, nodeVars, ownVars, accountVars,
     otherVars
<1>18. CASE cleanup
  BY <1>18 DEF cleanup, Released, DropNodes, GaugesTypeOK, DepthIsStack, Balanced, nodeVars,
     ownVars, accountVars, otherVars
<1>19. CASE UNCHANGED vars
  BY <1>19 DEF vars, nodeVars, ownVars, accountVars, otherVars, GaugesTypeOK, DepthIsStack,
     Balanced
<1> QED
  BY <1>1, <1>2, <1>3, <1>4, <1>5, <1>6, <1>7, <1>8, <1>9, <1>10, <1>11, <1>12, <1>13, <1>14,
     <1>15, <1>16, <1>17, <1>18, <1>19 DEF Next

\* Evaluations start in a handler and end before it does.
LEMMA HandlersStep ==
  ASSUME ScopesInHandlers, [Next]_vars
  PROVE  ScopesInHandlers'
<1>1. ASSUME NEW o \in OtherUse, Other(o) PROVE ScopesInHandlers'
  BY <1>1 DEF Other, ScopesInHandlers, nodeVars, ownVars, accountVars, otherVars
<1>2. ASSUME NEW n \in Amounts, Begin(n) PROVE ScopesInHandlers'
  BY <1>2 DEF Begin, ChargeBytes, ScopesInHandlers, nodeVars, ownVars, accountVars, otherVars
<1>3. ASSUME NEW n \in Amounts, BeginRefused(n) PROVE ScopesInHandlers'
  BY <1>3 DEF BeginRefused, ChargeBytes, ScopesInHandlers, nodeVars, ownVars, accountVars,
     otherVars
<1>4. ASSUME NEW n \in Amounts, NEW d \in 0 .. 1, Refuse(d, n) PROVE ScopesInHandlers'
  BY <1>4 DEF Refuse, Receiving, ChargeBytes, ChargeDepth, ScopesInHandlers, nodeVars, ownVars,
     accountVars, otherVars
<1>5. ASSUME NEW n \in Amounts, NEW id \in IDs, NEW p \in IDs \cup {NoID}, OpenNode(id, p, n)
      PROVE ScopesInHandlers'
  BY <1>5 DEF OpenNode, Receiving, ChargeBytes, ChargeDepth, ScopesInHandlers, nodeVars,
     ownVars, accountVars, otherVars
<1>6. ASSUME NEW n \in Amounts, NEW name \in Names, Attribute(name, n) PROVE ScopesInHandlers'
  BY <1>6 DEF Attribute, Receiving, ChargeBytes, ScopesInHandlers, nodeVars, ownVars,
     accountVars, otherVars
<1>7. ASSUME NEW n \in Amounts, NEW s \in Seals, CompleteAttributes(s, n)
      PROVE ScopesInHandlers'
  BY <1>7 DEF CompleteAttributes, Receiving, ChargeBytes, ScopesInHandlers, nodeVars, ownVars,
     accountVars, otherVars
<1>8. ASSUME NEW n \in Amounts, NEW found \in Examined, ModelRepresentation(found, n)
      PROVE ScopesInHandlers'
  BY <1>8 DEF ModelRepresentation, Receiving, ChargeBytes, ScopesInHandlers, nodeVars, ownVars,
     accountVars, otherVars
<1>9. ASSUME NEW n \in Amounts, NEW end \in Ends, CloseNode(end, n) PROVE ScopesInHandlers'
  BY <1>9 DEF CloseNode, Receiving, DepthReturned, Released, ChargeBytes, ScopesInHandlers,
     nodeVars, ownVars, accountVars, otherVars
<1>10. ASSUME NEW n \in Amounts, Retain(n) PROVE ScopesInHandlers'
  BY <1>10 DEF Retain, Working, ChargeBytes, ScopesInHandlers, nodeVars, ownVars, accountVars,
     otherVars
<1>11. ASSUME NEW n \in Amounts, releaseFactBytes(n) PROVE ScopesInHandlers'
  BY <1>11 DEF releaseFactBytes, Working, Released, ScopesInHandlers, nodeVars, ownVars,
     accountVars, otherVars
<1>12. ASSUME NEW n \in Amounts, retainTransient(n) PROVE ScopesInHandlers'
  BY <1>12 DEF retainTransient, Working, ChargeBytes, ScopesInHandlers, nodeVars, ownVars,
     accountVars, otherVars
<1>13. CASE BeginScope
  BY <1>13 DEF BeginScope, Working, ScopesInHandlers, nodeVars, ownVars, accountVars, otherVars
<1>14. CASE releaseTransient
  <2>1. pc' = pc /\ marks # <<>>
    BY <1>14 DEF releaseTransient
  <2>2. pc \in {"closing", "finishing"}
    BY <2>1 DEF ScopesInHandlers
  <2> QED
    BY <2>1, <2>2 DEF ScopesInHandlers
<1>15. CASE Fail
  BY <1>15 DEF Fail, Working, ScopesInHandlers, nodeVars, ownVars, accountVars, otherVars
<1>16. CASE EndEvaluations
  BY <1>16 DEF EndEvaluations, ScopesInHandlers, nodeVars, ownVars, accountVars, otherVars
<1>17. ASSUME NEW claims \in BOOLEAN, NEW cause \in BOOLEAN, Finish(claims, cause)
      PROVE ScopesInHandlers'
  BY <1>17 DEF Finish, ScopesInHandlers, nodeVars, ownVars, accountVars, otherVars
<1>18. CASE cleanup
  BY <1>18 DEF cleanup, Released, DropNodes, ScopesInHandlers, nodeVars, ownVars, accountVars,
     otherVars
<1>19. CASE UNCHANGED vars
  BY <1>19 DEF vars, nodeVars, ownVars, accountVars, otherVars, ScopesInHandlers
<1> QED
  BY <1>1, <1>2, <1>3, <1>4, <1>5, <1>6, <1>7, <1>8, <1>9, <1>10, <1>11, <1>12, <1>13, <1>14,
     <1>15, <1>16, <1>17, <1>18, <1>19 DEF Next

\* Only cleanup ends a session, and it leaves nothing.
LEMMA EmptiedStep ==
  ASSUME Emptied, ScopesInHandlers, [Next]_vars
  PROVE  Emptied'
<1>1. ASSUME NEW o \in OtherUse, Other(o) PROVE Emptied'
  BY <1>1 DEF Other, Emptied, ScopesInHandlers, nodeVars, ownVars, accountVars, otherVars
<1>2. ASSUME NEW n \in Amounts, Begin(n) PROVE Emptied'
  BY <1>2 DEF Begin, ChargeBytes, Emptied, ScopesInHandlers, nodeVars, ownVars, accountVars,
     otherVars
<1>3. ASSUME NEW n \in Amounts, BeginRefused(n) PROVE Emptied'
  BY <1>3 DEF BeginRefused, ChargeBytes, Emptied, ScopesInHandlers, nodeVars, ownVars,
     accountVars, otherVars
<1>4. ASSUME NEW n \in Amounts, NEW d \in 0 .. 1, Refuse(d, n) PROVE Emptied'
  BY <1>4 DEF Refuse, Receiving, ChargeBytes, ChargeDepth, Emptied, ScopesInHandlers, nodeVars,
     ownVars, accountVars, otherVars
<1>5. ASSUME NEW n \in Amounts, NEW id \in IDs, NEW p \in IDs \cup {NoID}, OpenNode(id, p, n)
      PROVE Emptied'
  BY <1>5 DEF OpenNode, Receiving, ChargeBytes, ChargeDepth, Emptied, ScopesInHandlers,
     nodeVars, ownVars, accountVars, otherVars
<1>6. ASSUME NEW n \in Amounts, NEW name \in Names, Attribute(name, n) PROVE Emptied'
  BY <1>6 DEF Attribute, Receiving, ChargeBytes, Emptied, ScopesInHandlers, nodeVars, ownVars,
     accountVars, otherVars
<1>7. ASSUME NEW n \in Amounts, NEW s \in Seals, CompleteAttributes(s, n) PROVE Emptied'
  BY <1>7 DEF CompleteAttributes, Receiving, ChargeBytes, Emptied, ScopesInHandlers, nodeVars,
     ownVars, accountVars, otherVars
<1>8. ASSUME NEW n \in Amounts, NEW found \in Examined, ModelRepresentation(found, n)
      PROVE Emptied'
  BY <1>8 DEF ModelRepresentation, Receiving, ChargeBytes, Emptied, ScopesInHandlers, nodeVars,
     ownVars, accountVars, otherVars
<1>9. ASSUME NEW n \in Amounts, NEW end \in Ends, CloseNode(end, n) PROVE Emptied'
  BY <1>9 DEF CloseNode, Receiving, DepthReturned, Released, ChargeBytes, Emptied,
     ScopesInHandlers, nodeVars, ownVars, accountVars, otherVars
<1>10. ASSUME NEW n \in Amounts, Retain(n) PROVE Emptied'
  BY <1>10 DEF Retain, Working, ChargeBytes, Emptied, ScopesInHandlers, nodeVars, ownVars,
     accountVars, otherVars
<1>11. ASSUME NEW n \in Amounts, releaseFactBytes(n) PROVE Emptied'
  BY <1>11 DEF releaseFactBytes, Working, Released, Emptied, ScopesInHandlers, nodeVars,
     ownVars, accountVars, otherVars
<1>12. ASSUME NEW n \in Amounts, retainTransient(n) PROVE Emptied'
  BY <1>12 DEF retainTransient, Working, ChargeBytes, Emptied, ScopesInHandlers, nodeVars,
     ownVars, accountVars, otherVars
<1>13. CASE BeginScope
  BY <1>13 DEF BeginScope, Working, Emptied, ScopesInHandlers, nodeVars, ownVars, accountVars,
     otherVars
<1>14. CASE releaseTransient
  <2>1. pc' = pc /\ marks # <<>>
    BY <1>14 DEF releaseTransient
  <2>2. pc \in {"closing", "finishing"}
    BY <2>1 DEF ScopesInHandlers
  <2> QED
    BY <2>1, <2>2 DEF Emptied
<1>15. CASE Fail
  BY <1>15 DEF Fail, Working, Emptied, ScopesInHandlers, nodeVars, ownVars, accountVars,
     otherVars
<1>16. CASE EndEvaluations
  BY <1>16 DEF EndEvaluations, Emptied, ScopesInHandlers, nodeVars, ownVars, accountVars,
     otherVars
<1>17. ASSUME NEW claims \in BOOLEAN, NEW cause \in BOOLEAN, Finish(claims, cause)
      PROVE Emptied'
  BY <1>17 DEF Finish, Emptied, ScopesInHandlers, nodeVars, ownVars, accountVars, otherVars
<1>18. CASE cleanup
  BY <1>18 DEF cleanup, Released, DropNodes, Emptied, ScopesInHandlers, nodeVars, ownVars,
     accountVars, otherVars
<1>19. CASE UNCHANGED vars
  BY <1>19 DEF vars, nodeVars, ownVars, accountVars, otherVars, Emptied, ScopesInHandlers
<1> QED
  BY <1>1, <1>2, <1>3, <1>4, <1>5, <1>6, <1>7, <1>8, <1>9, <1>10, <1>11, <1>12, <1>13, <1>14,
     <1>15, <1>16, <1>17, <1>18, <1>19 DEF Next

\* The invariant is inductive.
THEOREM Inductive == Spec => []IInv
<1>1. Init => IInv
  <2>1. SUFFICES ASSUME Init PROVE IInv
    OBVIOUS
  <2>2. PICK o \in OtherUse : otherDepth = o.depth /\ otherBytes = o.bytes
    BY <2>1 DEF Init
  <2>3. o.depth \in 0 .. MaxDepth /\ o.bytes \in 0 .. MaxBytes
    BY SessionAssumption DEF Gauge
  <2>4. GaugesTypeOK /\ Balanced
    BY <2>1, <2>2, <2>3, SessionAssumption DEF Init, GaugesTypeOK, Balanced
  <2>5. NodesTypeOK
    BY <2>1, SessionAssumption DEF Init, NodesTypeOK
  <2>6. ScopesNest /\ DepthIsStack /\ ScopesInHandlers /\ Emptied
    BY <2>1 DEF Init, ScopesNest, DepthIsStack, ScopesInHandlers, Emptied
  <2> QED
    BY <2>1, <2>4, <2>5, <2>6 DEF Init, IInv, TypeOK
<1>2. IInv /\ [Next]_vars => IInv'
  BY GaugesStep, BalancedStep, NodesStep, ControlStep, ScopesStep, DepthStep,
     HandlersStep, EmptiedStep DEF IInv, TypeOK
<1> QED
  BY <1>1, <1>2, PTL DEF Spec

\* Every variable keeps its type, and no gauge of the account leaves its limits.
THEOREM TypeCorrect == Spec => []TypeOK
<1>1. IInv => TypeOK
  BY DEF IInv
<1> QED
  BY <1>1, Inductive, PTL

\* The account's usage is always what this session and the others hold, so no
\* release of the session is refused.
THEOREM GaugesBalanced == Spec => []Balanced
<1>1. IInv => Balanced
  BY DEF IInv
<1> QED
  BY <1>1, Inductive, PTL

\* Nested evaluations never release each other's scratch.
THEOREM EvaluationsNest == Spec => []ScopesNest
<1>1. IInv => ScopesNest
  BY DEF IInv
<1> QED
  BY <1>1, Inductive, PTL

\* The depth that the session holds is its number of open nodes.
THEOREM DepthFollowsStack == Spec => []DepthIsStack
<1>1. IInv => DepthIsStack
  BY DEF IInv
<1> QED
  BY <1>1, Inductive, PTL

\* A finished session has returned everything to the account.
THEOREM FinishReturnsAll == Spec => []NothingHeld
<1>1. IInv => NothingHeld
  BY DEF IInv, TypeOK, GaugesTypeOK, Balanced, Emptied, NothingHeld
<1> QED
  BY <1>1, Inductive, PTL

-----------------------------------------------------------------------------
(* The document.                                                           *)

Distinct == \A i, j \in 1 .. Len(stack) : stack[i] = stack[j] => i = j
RootFirst == \A i \in 1 .. Len(sequence) : parent[sequence[i]] = NoID <=> i = 1
EndsAgree == \A id \in closed : /\ seal[id] = "complete" => ended[id].attributes
                                /\ model[id] = "children" => ~ended[id].children

\* The document admitted so far is a tree that is read in document order.
Tree == /\ Distinct /\ closed \subseteq Accepted /\ OpenIsPath /\ RootFirst /\ EndsAgree

\* A claim of complete input is made once the events are over, of one closed root.
Claimed == inputComplete =>
  /\ pc \in {"finishing", "cleanup", "done"}
  /\ pc # "done" => sequence # <<>> /\ stack = <<>>

\* The steps that change what is known of the document.
LEMMA NodeSteps ==
  ASSUME [Next]_vars
  PROVE  \/ UNCHANGED nodeVars
         \/ \E n \in Amounts :
              \/ \E id \in IDs, p \in IDs \cup {NoID} : OpenNode(id, p, n)
              \/ \E name \in Names : Attribute(name, n)
              \/ \E s \in Seals : CompleteAttributes(s, n)
              \/ \E found \in Examined : ModelRepresentation(found, n)
              \/ \E end \in Ends : CloseNode(end, n)
         \/ cleanup
<1>1. ASSUME NEW n \in Amounts,
             \/ Begin(n) \/ BeginRefused(n) \/ \E d \in 0 .. 1 : Refuse(d, n)
             \/ Retain(n) \/ releaseFactBytes(n) \/ retainTransient(n)
      PROVE  UNCHANGED nodeVars
  BY <1>1 DEF Begin, BeginRefused, Refuse, Retain, releaseFactBytes, retainTransient
<1>2. ASSUME \/ \E o \in OtherUse : Other(o)
             \/ BeginScope \/ releaseTransient \/ Fail \/ EndEvaluations
             \/ \E claims, cause \in BOOLEAN : Finish(claims, cause)
             \/ UNCHANGED vars
      PROVE  UNCHANGED nodeVars
  BY <1>2 DEF Other, BeginScope, releaseTransient, Fail, EndEvaluations, Finish, vars
<1> QED
  BY <1>1, <1>2 DEF Next

\* The current node is the last open one.
LEMMA CurrentIsOpen ==
  ASSUME NodesTypeOK, Tree, stack # <<>>
  PROVE  /\ Len(stack) \in Nat \ {0} /\ Current \in IDs /\ Current \in Accepted /\ Current \notin closed
         /\ Current # NoID
<1>1. stack \in Seq(IDs) /\ Len(stack) \in Nat \ {0} /\ Current \in IDs
  BY FrontOf DEF NodesTypeOK, Current
<1>2. Current \in {stack[i] : i \in 1 .. Len(stack)}
  BY <1>1 DEF Current
<1> QED
  BY <1>1, <1>2, SessionAssumption DEF Tree, OpenIsPath

\* What appending an element to a sequence changes.
LEMMA Appended ==
  ASSUME NEW S, NEW s \in Seq(S), NEW e \in S
  PROVE  /\ Append(s, e) \in Seq(S) /\ Len(s) \in Nat /\ Len(Append(s, e)) = Len(s) + 1
         /\ Append(s, e)[Len(s) + 1] = e
         /\ \A i \in 1 .. Len(s) : Append(s, e)[i] = s[i] /\ s[i] \in S
         /\ {Append(s, e)[i] : i \in 1 .. Len(Append(s, e))} = {s[i] : i \in 1 .. Len(s)} \cup {e}
<1>1. /\ Append(s, e) \in Seq(S) /\ Len(s) \in Nat /\ Len(Append(s, e)) = Len(s) + 1
      /\ Append(s, e)[Len(s) + 1] = e
      /\ \A i \in 1 .. Len(s) : Append(s, e)[i] = s[i] /\ s[i] \in S
  BY AppendProperties, LenProperties
<1>2. \A i \in 1 .. Len(s) + 1 : i \in 1 .. Len(s) \/ i = Len(s) + 1
  BY <1>1
<1>3. 1 .. Len(s) \subseteq 1 .. Len(s) + 1 /\ Len(s) + 1 \in 1 .. Len(s) + 1
  BY <1>1
<1> HIDE <1>1
<1>4. /\ Len(Append(s, e)) = Len(s) + 1
      /\ Append(s, e)[Len(s) + 1] = e
      /\ \A i \in 1 .. Len(s) : Append(s, e)[i] = s[i]
  BY <1>1
<1>5. {Append(s, e)[i] : i \in 1 .. Len(s) + 1} = {s[i] : i \in 1 .. Len(s)} \cup {e}
  BY <1>2, <1>3, <1>4, Zenon
<1> QED
  BY <1>1, <1>5

\* A new node extends the path of open nodes and the tree.
LEMMA OpenNodeTree ==
  ASSUME NodesTypeOK, Tree, NEW n \in Amounts, NEW id \in IDs, NEW p \in IDs \cup {NoID},
         OpenNode(id, p, n)
  PROVE  Tree'
<1> DEFINE k == Len(stack)
           m == Len(sequence)
<1>1. /\ id \notin Accepted /\ ParentIsCurrent(p)
      /\ parent' = [parent EXCEPT ![id] = p]
      /\ sequence' = Append(sequence, id) /\ stack' = Append(stack, id)
      /\ UNCHANGED <<closed, seal, model, ended>>
  BY DEF OpenNode
<1>2. /\ stack \in Seq(IDs) /\ sequence \in Seq(IDs) /\ parent \in [IDs -> IDs \cup {NoID}]
      /\ NoID \notin IDs
  BY SessionAssumption DEF NodesTypeOK
<1>3. /\ k \in Nat /\ Len(stack') = k + 1 /\ stack'[k + 1] = id
      /\ \A i \in 1 .. k : stack'[i] = stack[i] /\ stack[i] \in IDs
      /\ {stack'[i] : i \in 1 .. Len(stack')} = {stack[i] : i \in 1 .. k} \cup {id}
  BY <1>1, <1>2, Appended
<1>4. /\ m \in Nat /\ Len(sequence') = m + 1 /\ sequence'[m + 1] = id
      /\ \A i \in 1 .. m : sequence'[i] = sequence[i] /\ sequence[i] \in IDs
      /\ Accepted' = Accepted \cup {id}
  BY <1>1, <1>2, Appended DEF Accepted
<1>5. /\ \A i \in 1 .. k : stack[i] \in Accepted /\ stack[i] \notin closed /\ stack[i] # id
      /\ \A i \in 1 .. m : sequence[i] \in Accepted /\ sequence[i] # id
      /\ closed \subseteq Accepted /\ id \notin closed
  BY <1>1 DEF Tree, OpenIsPath, Accepted
<1>6. /\ parent'[id] = p
      /\ \A c \in IDs : c # id => parent'[c] = parent[c]
      /\ Accepted \subseteq IDs
  BY <1>1, <1>2, <1>4 DEF Accepted
<1>7. Distinct'
  <2> SUFFICES ASSUME NEW i \in 1 .. k + 1, NEW j \in 1 .. k + 1, stack'[i] = stack'[j] PROVE i = j
    BY <1>3 DEF Distinct
  <2>1. (i \in 1 .. k \/ i = k + 1) /\ (j \in 1 .. k \/ j = k + 1)
    BY <1>3
  <2> QED
    BY <2>1, <1>3, <1>5 DEF Tree, Distinct
<1>8. (closed \subseteq Accepted)' /\ EndsAgree'
  BY <1>1, <1>4 DEF Tree, EndsAgree
<1>9. p = IF k = 0 THEN NoID ELSE stack[k]
  <2>1. stack = <<>> <=> k = 0
    BY <1>2, <1>3, EmptySeq
  <2> QED
    BY <1>1, <2>1 DEF ParentIsCurrent, Current
<1>10. \A i \in 1 .. k + 1 : parent'[stack'[i]] = IF i = 1 THEN NoID ELSE stack'[i - 1]
  <2> SUFFICES ASSUME NEW i \in 1 .. k + 1
               PROVE  parent'[stack'[i]] = IF i = 1 THEN NoID ELSE stack'[i - 1]
    OBVIOUS
  <2>1. CASE i \in 1 .. k
    <3>1. parent'[stack'[i]] = parent[stack[i]]
      BY <2>1, <1>3, <1>5, <1>6
    <3>2. i # 1 => i - 1 \in 1 .. k
      BY <2>1, <1>3
    <3> QED
      BY <2>1, <3>1, <3>2, <1>3 DEF Tree, OpenIsPath
  <2>2. CASE i = k + 1
    <3>1. parent'[stack'[i]] = p
      BY <2>2, <1>3, <1>6
    <3>2. k # 0 => stack'[i - 1] = stack[k]
      BY <2>2, <1>3
    <3>3. i = 1 <=> k = 0
      BY <2>2, <1>3
    <3> QED
      BY <3>1, <3>2, <3>3, <1>9
  <2> QED
    BY <2>1, <2>2, <1>3
<1>11. OpenIsPath'
  <2>1. Accepted' \ closed' = {stack'[i] : i \in 1 .. Len(stack')}
    BY <1>1, <1>3, <1>4, <1>5 DEF Tree, OpenIsPath
  <2>2. ASSUME NEW d \in closed', NEW c \in Accepted', parent'[c] = d PROVE c \in closed'
    <3>1. CASE c = id
      <4>1. d \in closed /\ d = p /\ d \in IDs
        BY <2>2, <3>1, <1>1, <1>5, <1>6
      <4>2. k # 0 /\ d = stack[k]
        BY <4>1, <1>2, <1>9
      <4> QED
        BY <4>1, <4>2, <1>3, <1>5
    <3>2. CASE c # id
      BY <2>2, <3>2, <1>1, <1>4, <1>6 DEF Tree, OpenIsPath
    <3> QED
      BY <3>1, <3>2
  <2> QED
    BY <2>1, <2>2, <1>3, <1>10 DEF OpenIsPath
<1>12. RootFirst'
  <2>1. m = 0 <=> k = 0
    <3>1. k = 0 => m = 0
      <4>1. ASSUME k = 0 PROVE m = 0
        <5>1. stack = <<>>
          BY <4>1, <1>2, EmptySeq
        <5> QED
          BY <5>1, <1>1, <1>2, EmptySeq DEF ParentIsCurrent
      <4> QED
        BY <4>1
    <3>2. m = 0 => k = 0
      <4>1. ASSUME m = 0, k # 0 PROVE FALSE
        <5>1. k \in 1 .. k /\ stack[k] \in Accepted
          BY <4>1, <1>3, <1>5
        <5> QED
          BY <4>1, <5>1 DEF Accepted
      <4> QED
        BY <4>1
    <3> QED
      BY <3>1, <3>2
  <2> SUFFICES ASSUME NEW i \in 1 .. m + 1 PROVE parent'[sequence'[i]] = NoID <=> i = 1
    BY <1>4 DEF RootFirst
  <2>2. CASE i \in 1 .. m
    BY <2>2, <1>4, <1>5, <1>6 DEF Tree, RootFirst
  <2>3. CASE i = m + 1
    <3>1. parent'[sequence'[i]] = p /\ (i = 1 <=> m = 0)
      BY <2>3, <1>4, <1>6
    <3>2. p = NoID <=> k = 0
      BY <1>2, <1>3, <1>9
    <3> QED
      BY <3>1, <3>2, <2>1
  <2> QED
    BY <2>2, <2>3, <1>4
<1> QED
  BY <1>7, <1>8, <1>11, <1>12 DEF Tree

\* The current node closes after all its children.
LEMMA CloseNodeTree ==
  ASSUME NodesTypeOK, Tree, NEW n \in Amounts, NEW end \in Ends, CloseNode(end, n)
  PROVE  Tree'
<1> DEFINE k == Len(stack)
<1>1. /\ stack # <<>> /\ EndAgrees(end)
      /\ ended' = [ended EXCEPT ![Current] = end] /\ closed' = closed \cup {Current}
      /\ stack' = SubSeq(stack, 1, k - 1)
      /\ UNCHANGED <<sequence, parent, seal, model>>
  BY DEF CloseNode
<1>2. /\ stack \in Seq(IDs) /\ ended \in [IDs -> [children : BOOLEAN, attributes : BOOLEAN]]
  BY DEF NodesTypeOK
<1>3. /\ k \in Nat \ {0} /\ Len(stack') = k - 1
      /\ \A i \in 1 .. k - 1 : stack'[i] = stack[i]
      /\ Current = stack[k]
  BY <1>1, <1>2, FrontOf DEF Current
<1>4. Current \in IDs /\ Current \in Accepted /\ Current \notin closed /\ Current # NoID
  BY <1>1, CurrentIsOpen
<1>5. Accepted' = Accepted
  BY <1>1 DEF Accepted
<1>6. Distinct'
  BY <1>3 DEF Tree, Distinct
<1>7. (closed \subseteq Accepted)' /\ RootFirst'
  BY <1>1, <1>4, <1>5 DEF Tree, RootFirst
<1>8. EndsAgree'
  <2> SUFFICES ASSUME NEW id \in closed'
               PROVE  /\ seal'[id] = "complete" => ended'[id].attributes
                      /\ model'[id] = "children" => ~ended'[id].children
    BY DEF EndsAgree
  <2>1. CASE id = Current
    BY <2>1, <1>1, <1>2, <1>4 DEF EndAgrees
  <2>2. CASE id # Current
    <3>1. id \in closed /\ ended'[id] = ended[id]
      BY <2>2, <1>1, <1>2 DEF NodesTypeOK
    <3> QED
      BY <3>1, <1>1 DEF Tree, EndsAgree
  <2> QED
    BY <2>1, <2>2
<1>9. Accepted' \ closed' = {stack'[i] : i \in 1 .. Len(stack')}
  <2>1. Accepted \ closed = {stack[i] : i \in 1 .. k}
    BY DEF Tree, OpenIsPath
  <2>2. \A i \in 1 .. k : i \in 1 .. k - 1 \/ i = k
    BY <1>3
  <2>3. 1 .. k - 1 \subseteq 1 .. k /\ k \in 1 .. k /\ k \notin 1 .. k - 1
    BY <1>3
  <2>4. \A i \in 1 .. k - 1 : stack[i] # Current
    BY <2>3, <1>3 DEF Tree, Distinct
  <2>5. {stack[i] : i \in 1 .. k} \ {Current} = {stack'[i] : i \in 1 .. k - 1}
    BY <2>2, <2>3, <2>4, <1>3, Zenon
  <2> QED
    BY <2>1, <2>5, <1>1, <1>3, <1>5
<1>10. ASSUME NEW c \in Accepted, parent[c] = Current PROVE c \in closed
  <2>1. SUFFICES ASSUME c \notin closed PROVE FALSE
    OBVIOUS
  <2>2. PICK i \in 1 .. k : c = stack[i]
    BY <2>1 DEF Tree, OpenIsPath
  <2>3. parent[c] = IF i = 1 THEN NoID ELSE stack[i - 1]
    BY <2>2 DEF Tree, OpenIsPath
  <2>4. i # 1 /\ stack[i - 1] = stack[k] /\ i - 1 \in 1 .. k /\ k \in 1 .. k
    BY <2>3, <1>3, <1>4, <1>10
  <2>5. i - 1 = k
    BY <2>4 DEF Tree, Distinct
  <2> QED
    BY <2>5, <1>3
<1>11. OpenIsPath'
  <2>1. \A i \in 1 .. Len(stack') : parent'[stack'[i]] = IF i = 1 THEN NoID ELSE stack'[i - 1]
    <3> SUFFICES ASSUME NEW i \in 1 .. k - 1
                 PROVE  parent'[stack'[i]] = IF i = 1 THEN NoID ELSE stack'[i - 1]
      BY <1>3
    <3>1. i \in 1 .. k /\ (i # 1 => i - 1 \in 1 .. k - 1)
      BY <1>3
    <3> QED
      BY <3>1, <1>1, <1>3 DEF Tree, OpenIsPath
  <2>2. \A id \in closed' : \A c \in Accepted' : parent'[c] = id => c \in closed'
    BY <1>1, <1>5, <1>10 DEF Tree, OpenIsPath
  <2> QED
    BY <2>1, <2>2, <1>9 DEF OpenIsPath
<1> QED
  BY <1>6, <1>7, <1>8, <1>11 DEF Tree

\* Every step keeps the tree.
LEMMA TreeStep ==
  ASSUME NodesTypeOK, Tree, [Next]_vars
  PROVE  Tree'
<1>1. CASE UNCHANGED nodeVars
  <2>1. UNCHANGED <<sequence, stack, parent, closed, seal, model, ended>>
    BY <1>1 DEF nodeVars
  <2>2. Accepted' = Accepted
    BY <2>1 DEF Accepted
  <2>3. Distinct' /\ RootFirst' /\ EndsAgree'
    BY <2>1 DEF Tree, Distinct, RootFirst, EndsAgree
  <2>4. OpenIsPath' /\ (closed \subseteq Accepted)'
    BY <2>1, <2>2 DEF Tree, OpenIsPath
  <2> QED
    BY <2>3, <2>4 DEF Tree
<1>2. ASSUME NEW n \in Amounts, NEW name \in Names, Attribute(name, n) PROVE Tree'
  BY <1>2 DEF Attribute, Tree, Distinct, OpenIsPath, RootFirst, EndsAgree, Accepted
<1>3. ASSUME NEW n \in Amounts, NEW s \in Seals, CompleteAttributes(s, n) PROVE Tree'
  <2>1. /\ stack # <<>> /\ seal' = [seal EXCEPT ![Current] = s]
        /\ UNCHANGED <<sequence, stack, parent, closed, model, ended>>
    BY <1>3 DEF CompleteAttributes, AttributesOpen
  <2>2. \A id \in closed : id # Current /\ seal'[id] = seal[id]
    BY <2>1, CurrentIsOpen DEF NodesTypeOK
  <2> QED
    BY <2>1, <2>2 DEF Tree, Distinct, OpenIsPath, RootFirst, EndsAgree, Accepted
<1>4. ASSUME NEW n \in Amounts, NEW found \in Examined, ModelRepresentation(found, n) PROVE Tree'
  <2>1. /\ stack # <<>> /\ model' = [model EXCEPT ![Current] = found]
        /\ UNCHANGED <<sequence, stack, parent, closed, seal, ended>>
    BY <1>4 DEF ModelRepresentation
  <2>2. \A id \in closed : id # Current /\ model'[id] = model[id]
    BY <2>1, CurrentIsOpen DEF NodesTypeOK
  <2> QED
    BY <2>1, <2>2 DEF Tree, Distinct, OpenIsPath, RootFirst, EndsAgree, Accepted
<1>5. CASE cleanup
  BY <1>5 DEF cleanup, DropNodes, Tree, Distinct, OpenIsPath, RootFirst, EndsAgree, Accepted
<1> QED
  BY <1>1, <1>2, <1>3, <1>4, <1>5, NodeSteps, OpenNodeTree, CloseNodeTree

\* Input is claimed complete by Finish only, and only for a closed root.
LEMMA ClaimedStep ==
  ASSUME Claimed, TypeOK, [Next]_vars
  PROVE  Claimed'
<1>1. ASSUME pc \notin {"events", "cleanup"}, UNCHANGED <<inputComplete, sequence, stack>>,
             pc' = pc \/ (pc = "finishing" /\ pc' = "cleanup") \/ pc \in {"begin", "closing"}
      PROVE  Claimed'
  BY <1>1 DEF Claimed
<1>2. ASSUME pc' = pc, UNCHANGED <<inputComplete, sequence, stack>> PROVE Claimed'
  BY <1>2 DEF Claimed
<1>3. ASSUME NEW n \in Amounts,
             \/ Begin(n) \/ BeginRefused(n) \/ \E d \in 0 .. 1 : Refuse(d, n)
             \/ \E name \in Names : Attribute(name, n)
             \/ \E s \in Seals : CompleteAttributes(s, n)
             \/ \E found \in Examined : ModelRepresentation(found, n)
             \/ Retain(n) \/ releaseFactBytes(n) \/ retainTransient(n)
      PROVE  Claimed'
  BY <1>1, <1>2, <1>3 DEF Begin, BeginRefused, Refuse, Attribute, CompleteAttributes,
     ModelRepresentation, Retain, releaseFactBytes, retainTransient, nodeVars
<1>4. ASSUME NEW n \in Amounts,
             \/ \E id \in IDs, p \in IDs \cup {NoID} : OpenNode(id, p, n)
             \/ \E end \in Ends : CloseNode(end, n)
      PROVE  Claimed'
  <2>1. pc = "events" /\ inputComplete' = inputComplete
    BY <1>4 DEF OpenNode, CloseNode, Receiving
  <2> QED
    BY <2>1 DEF Claimed
<1>5. ASSUME \/ \E o \in OtherUse : Other(o)
             \/ BeginScope \/ releaseTransient \/ Fail \/ EndEvaluations \/ UNCHANGED vars
      PROVE  Claimed'
  BY <1>1, <1>2, <1>5 DEF Other, BeginScope, releaseTransient, Fail, EndEvaluations, vars, nodeVars
<1>6. ASSUME NEW claims \in BOOLEAN, NEW cause \in BOOLEAN, Finish(claims, cause) PROVE Claimed'
  BY <1>6 DEF Finish, Completes, Claimed, nodeVars
<1>7. CASE cleanup
  BY <1>7 DEF cleanup, Claimed
<1> QED
  BY <1>3, <1>4, <1>5, <1>6, <1>7 DEF Next

\* The strengthened invariant: the document is a tree read in order, and a claim
\* of complete input is one of a closed tree.
THEOREM TreeInductive == Spec => [](Tree /\ Claimed)
<1>1. Init => Tree /\ Claimed
  BY DEF Init, Tree, Distinct, OpenIsPath, RootFirst, EndsAgree, Accepted, Claimed
<1>2. IInv /\ Tree /\ Claimed /\ [Next]_vars => (Tree /\ Claimed)'
  BY TreeStep, ClaimedStep DEF IInv, TypeOK
<1> QED
  BY <1>1, <1>2, Inductive, PTL DEF Spec

\* The open nodes are the path from the root to the current node, as deep as
\* the account is charged for, and a report for complete input is one of a
\* closed tree without contradiction (CloseNode, validateCompletion).
THEOREM NestingIsExact == Spec => []NestingExact
<1>1. IInv /\ Tree /\ Claimed => NestingExact
  <2> SUFFICES ASSUME IInv, Tree, Claimed PROVE NestingExact
    OBVIOUS
  <2>1. ASSUME inputComplete, pc # "done"
        PROVE  Accepted # {} /\ Accepted \subseteq closed
    <3>1. sequence # <<>> /\ stack = <<>> /\ sequence \in Seq(IDs)
      BY <2>1 DEF Claimed, IInv, TypeOK, NodesTypeOK
    <3>2. Len(sequence) \in Nat \ {0}
      BY <3>1, EmptySeq
    <3>3. Accepted # {}
      <4>1. sequence[1] \in Accepted
        BY <3>2 DEF Accepted
      <4> QED
        BY <4>1
    <3>4. Accepted \ closed = {}
      <4>1. Len(stack) = 0
        BY <3>1
      <4> QED
        BY <4>1 DEF Tree, OpenIsPath
    <3> QED
      BY <3>3, <3>4
  <2> QED
    BY <2>1 DEF IInv, Tree, RootFirst, EndsAgree, NestingExact, CompleteIsClosed
<1> QED
  BY <1>1, Inductive, TreeInductive, PTL

\* No step of a session adds to what it sealed.
LEMMA SealedStep ==
  ASSUME NodesTypeOK, Tree, [Next]_vars, pc' # "done", NEW id \in Accepted
  PROVE  /\ (Children(id) # {} \/ seal[id] # "none" \/ model[id] # "none" \/ id \in closed)
              => attributes'[id] = attributes[id] /\ (seal[id] # "none" => seal'[id] = seal[id])
         /\ model[id] # "none" \/ id \in closed
              => {c \in Accepted' : parent'[c] = id} = Children(id) /\ model'[id] = model[id]
<1> DEFINE Sealed ==
      /\ (Children(id) # {} \/ seal[id] # "none" \/ model[id] # "none" \/ id \in closed)
              => attributes'[id] = attributes[id] /\ (seal[id] # "none" => seal'[id] = seal[id])
      /\ model[id] # "none" \/ id \in closed
              => {c \in Accepted' : parent'[c] = id} = Children(id) /\ model'[id] = model[id]
<1>1. /\ parent \in [IDs -> IDs \cup {NoID}] /\ NoID \notin IDs
      /\ sequence \in Seq(IDs) /\ Accepted \subseteq IDs
  <2>1. sequence \in Seq(IDs)
    BY DEF NodesTypeOK
  <2>2. \A i \in 1 .. Len(sequence) : sequence[i] \in IDs
    BY <2>1, LenProperties
  <2> QED
    BY <2>1, <2>2, SessionAssumption DEF NodesTypeOK, Accepted
<1>2. ASSUME UNCHANGED <<sequence, parent>> PROVE {c \in Accepted' : parent'[c] = id} = Children(id)
  BY <1>2 DEF Accepted, Children
<1>3. CASE UNCHANGED nodeVars
  BY <1>2, <1>3 DEF nodeVars
<1>4. ASSUME NEW n \in Amounts, NEW new \in IDs, NEW p \in IDs \cup {NoID}, OpenNode(new, p, n)
      PROVE  Sealed
  <2>1. /\ new \notin Accepted /\ ParentIsCurrent(p)
        /\ parent' = [parent EXCEPT ![new] = p] /\ sequence' = Append(sequence, new)
        /\ UNCHANGED <<attributes, seal, model>>
    BY <1>4 DEF OpenNode
  <2>2. Accepted' = Accepted \cup {new}
    BY <2>1, <1>1, Appended DEF Accepted
  <2>3. parent'[new] = p /\ \A c \in Accepted : parent'[c] = parent[c]
    BY <2>1, <1>1
  <2>4. (model[id] # "none" \/ id \in closed) => p # id
    <3>1. CASE stack = <<>>
      BY <3>1, <2>1, <1>1 DEF ParentIsCurrent
    <3>2. CASE stack # <<>>
      BY <3>2, <2>1, CurrentIsOpen DEF ParentIsCurrent
    <3> QED
      BY <3>1, <3>2
  <2>5. p # id => {c \in Accepted' : parent'[c] = id} = Children(id)
    BY <2>2, <2>3 DEF Children
  <2> QED
    BY <2>1, <2>4, <2>5
<1>5. ASSUME NEW n \in Amounts, NEW name \in Names, Attribute(name, n) PROVE Sealed
  <2>1. /\ stack # <<>> /\ Children(Current) = {} /\ seal[Current] = "none" /\ model[Current] = "none"
        /\ attributes' = [attributes EXCEPT ![Current] = @ \cup {name}]
        /\ UNCHANGED <<sequence, parent, seal, model>>
    BY <1>5 DEF Attribute, AttributesOpen
  <2>2. Current \notin closed
    BY <2>1, CurrentIsOpen
  <2>3. id # Current => attributes'[id] = attributes[id]
    BY <2>1, <1>1 DEF NodesTypeOK
  <2> QED
    BY <2>1, <2>2, <2>3, <1>2
<1>6. ASSUME NEW n \in Amounts, NEW s \in Seals, CompleteAttributes(s, n) PROVE Sealed
  <2>1. /\ seal[Current] = "none" /\ seal' = [seal EXCEPT ![Current] = s]
        /\ UNCHANGED <<sequence, parent, attributes, model>>
    BY <1>6 DEF CompleteAttributes, AttributesOpen
  <2>2. id # Current => seal'[id] = seal[id]
    BY <2>1, <1>1 DEF NodesTypeOK
  <2> QED
    BY <2>1, <2>2, <1>2
<1>7. ASSUME NEW n \in Amounts, NEW found \in Examined, ModelRepresentation(found, n) PROVE Sealed
  <2>1. /\ stack # <<>> /\ model[Current] = "none" /\ model' = [model EXCEPT ![Current] = found]
        /\ UNCHANGED <<sequence, parent, attributes, seal>>
    BY <1>7 DEF ModelRepresentation
  <2>2. Current \notin closed
    BY <2>1, CurrentIsOpen
  <2>3. id # Current => model'[id] = model[id]
    BY <2>1, <1>1 DEF NodesTypeOK
  <2> QED
    BY <2>1, <2>2, <2>3, <1>2
<1>8. ASSUME NEW n \in Amounts, NEW end \in Ends, CloseNode(end, n) PROVE Sealed
  BY <1>8, <1>2 DEF CloseNode
<1>9. ~cleanup
  BY DEF cleanup
<1> QED
  BY <1>3, <1>4, <1>5, <1>6, <1>7, <1>8, <1>9, NodeSteps

\* What is sealed is final until cleanup drops the document (Attribute,
\* CompleteAttributes, ModelRepresentation, OpenNode).
THEOREM SealsAreFinal == Spec => SealedStaysSealed
<1>1. IInv /\ Tree /\ [Next]_vars
        => [pc' # "done" => \A id \in Accepted :
              /\ (Children(id) # {} \/ seal[id] # "none" \/ model[id] # "none" \/ id \in closed)
                   => attributes'[id] = attributes[id] /\ (seal[id] # "none" => seal'[id] = seal[id])
              /\ model[id] # "none" \/ id \in closed
                   => {c \in Accepted' : parent'[c] = id} = Children(id) /\ model'[id] = model[id]]_vars
  BY SealedStep DEF IInv, TypeOK
<1> QED
  BY <1>1, Inductive, TreeInductive, PTL DEF Spec, SealedStaysSealed

=============================================================================
