--------------------- MODULE DictionaryAssessmentProofs ---------------------
(***************************************************************************)
(* Proofs about dictionary sets and the calls that share them, for any     *)
(* number of processes, sets, accounts, bytes and borrows.                 *)
(*                                                                         *)
(* A borrow or a byte is at every moment in one of several hands: a        *)
(* session's lease, a view on the set, the set itself, or a call that has  *)
(* yet to give it back after it left the mutex (todo).  The invariant      *)
(* counts all of them: BorrowCount for the borrows of a set, ByteCount for *)
(* the bytes of an account.  Records says that a set loses its data only   *)
(* when it is closed and unborrowed, Constructions that nobody else sees   *)
(* a set before it is admitted, and Calls which set a call works on.       *)
(*                                                                         *)
(* Every action changes the hands of one process and one set.  OthersKeep, *)
(* SetsKeep, BorrowsMove and BytesMove say so, and CountStep turns this    *)
(* into the two counts; the lemma of an action establishes the four.       *)
(*                                                                         *)
(* What calls leave behind needs more (CallInv): the cached set is the     *)
(* only one on its account and nothing that a call has left to do gives it *)
(* back (Bundled), one call at a time is in the cache (Exclusive), and     *)
(* every other set with data belongs to one call that has yet to close it  *)
(* (Private).                                                              *)
(***************************************************************************)
EXTENDS DictionaryAssessment, FiniteSetTheorems, SequenceTheorems, TLAPS

\* The steps a call may have left.
Jobs ==
  ({"import", "admit", "borrow", "releaseView"} \X Sets) \cup ({"refund"} \X Accounts \X Nat)

\* Process p is inside a call on set s that has yet to succeed or fail.
Doing(p, kind, s) == todo[p] = <<<<kind, s>>>>

\* What is left of a call that only gives back.
Unwinding(l) == \A i \in 1..Len(l) : l[i][1] \in {"releaseView", "refund"}

\* Process p constructs set s, which nobody else has seen.
Constructs(p, s) == Doing(p, "import", s) \/ Doing(p, "admit", s)

\* The types of the variables; a call has either one step ahead of it that may
\* fail, or only things to give back.
Types ==
  /\ set \in [Sets -> [initialized : BOOLEAN, closed : BOOLEAN, borrowers : Int, account : Accounts,
                       retained : Nat, entries : BOOLEAN, parent : Sets \cup {NoSet}]]
  /\ gauge \in [Accounts -> Int]
  /\ lease \in [Procs -> Sets \cup {NoSet}]
  /\ todo \in [Procs -> Seq(Jobs)]
  /\ \A p \in Procs :
       \/ Unwinding(todo[p])
       \/ \E kind \in {"import", "admit", "borrow"}, s \in Sets : Doing(p, kind, s)

\* A set is unallocated, or holds its data until it is closed and unused.
Sound(d) ==
  /\ ~d.initialized => d = Unallocated
  /\ d.initialized => (d.entries <=> ~(d.closed /\ d.borrowers = 0))
  /\ ~d.entries => d.retained = 0 /\ d.parent = NoSet
\* Every set is sound.
Records == \A s \in Sets : Sound(set[s])

\* A set that is being constructed is new and has one constructor; nobody is
\* about to borrow it.
Constructions ==
  /\ \A p \in Procs, s \in Sets : Constructs(p, s) =>
       /\ set[s].initialized /\ ~set[s].closed /\ set[s].borrowers = 0
       /\ set[s].account = AccountOf[p]
       /\ Doing(p, "import", s) => set[s].parent = NoSet
       /\ \A r \in Procs \ {p} : ~Constructs(r, s)
  /\ \A p \in Procs, s \in Sets : Doing(p, "borrow", s) =>
       /\ lease[p] = NoSet
       /\ Published(s)
  /\ \A p \in Procs : lease[p] # NoSet => set[lease[p]].account = AccountOf[p]

\* A list of what the calls have left, with finitely much to give back.
Owing(t) ==
  /\ t \in [Procs -> Seq(Jobs)]
  /\ \A s \in Sets : IsFiniteSet(Returns(t, s))
  /\ \A a \in Accounts : IsFiniteSet(Refunds(t, a))

\* What t owes to set s in borrows, and to account a in bytes.
Borrows(t, s) == Cardinality(Returns(t, s))
Due(t, a) == Cardinality(Refunds(t, a))

\* Every borrow of a set has a holder.
BorrowCount ==
  \A s \in Sets :
    set[s].borrowers = Cardinality(Leases(s)) + Cardinality(Views(s)) + Borrows(todo, s)

\* Every byte charged to an account has an owner.
ByteCount ==
  \A a \in Accounts :
    /\ IsFiniteSet(SetBytes(a))
    /\ gauge[a] = Cardinality(SetBytes(a)) + LeaseBytes * Cardinality(Leased(a)) + Due(todo, a)

\* What a call knows of its set, and of the cached one.
CallOf(p) ==
  /\ pc[p] = "loading" => mine[p] # NoSet /\ \A s \in Sets : mine[p] = s => Constructs(p, s)
  /\ pc[p] \in {"begin", "beginning", "session", "close"} =>
       mine[p] # NoSet /\ \A s \in Sets : mine[p] = s => Published(s)
  /\ pc[p] = "share" => cache # NoSet
\* What the calls know, and that the cached set is there.
Calls ==
  /\ pc = [p \in Procs |-> pc[p]]
  /\ mine \in [Procs -> Sets \cup {NoSet}]
  /\ cache \in Sets \cup {NoSet} /\ \A s \in Sets : cache = s => Published(s)
  /\ \A p \in Procs : CallOf(p)

\* The inductive invariant: of the sets, and with that of the calls.
SetInv == Types /\ Owing(todo) /\ Records /\ Constructions /\ BorrowCount /\ ByteCount
Inv == SetInv /\ Calls

-----------------------------------------------------------------------------
(* Counting                                                                 *)

\* A truth value as a count.
Bit(b) == IF b THEN 1 ELSE 0
Is(x, y) == IF x = y THEN 1 ELSE 0

\* Of n bytes to account a, those to account b.
Part(n, a, b) == IF a = b THEN n ELSE 0

\* Sets that differ in one element at most.
LEMMA Differ ==
  ASSUME NEW A, NEW B, NEW d, IsFiniteSet(A), \A x : x # d => (x \in A <=> x \in B)
  PROVE  /\ IsFiniteSet(B)
         /\ Cardinality(A) \in Nat /\ Cardinality(B) \in Nat
         /\ Cardinality(B) = Cardinality(A) - Bit(d \in A) + Bit(d \in B)
<1> DEFINE K == A \ {d}
<1>1. IsFiniteSet(K) /\ Cardinality(K) \in Nat /\ Cardinality(A) \in Nat
  <2>1. K \subseteq A
    OBVIOUS
  <2> QED
    BY <2>1, FS_Subset, FS_CardinalityType
<1>2. Cardinality(A) = Cardinality(K) + Bit(d \in A)
  <2>1. CASE d \in A
    <3>1. A = K \cup {d} /\ d \notin K
      BY <2>1
    <3>2. Cardinality(K \cup {d}) = Cardinality(K) + 1
      BY <1>1, <3>1, FS_AddElement
    <3> QED
      BY <2>1, <3>1, <3>2 DEF Bit
  <2>2. CASE d \notin A
    <3>1. A = K /\ Bit(d \in A) = 0
      BY <2>2 DEF Bit
    <3>2. \A n \in Nat : n = n + 0
      OBVIOUS
    <3> HIDE DEF K
    <3> QED
      BY <1>1, <3>1, <3>2
  <2> QED
    BY <2>1, <2>2
<1>3. IsFiniteSet(B) /\ Cardinality(B) \in Nat /\ Cardinality(B) = Cardinality(K) + Bit(d \in B)
  <2>1. CASE d \in B
    <3>1. B = K \cup {d} /\ d \notin K
      BY <2>1
    <3>2. IsFiniteSet(K \cup {d}) /\ Cardinality(K \cup {d}) = Cardinality(K) + 1
      BY <1>1, <3>1, FS_AddElement
    <3> QED
      BY <1>1, <2>1, <3>1, <3>2 DEF Bit
  <2>2. CASE d \notin B
    <3>1. B = K
      BY <2>2
    <3> QED
      BY <1>1, <2>2, <3>1 DEF Bit
  <2> QED
    BY <2>1, <2>2
<1>4. Bit(d \in A) \in 0..1 /\ Bit(d \in B) \in 0..1
  BY DEF Bit
<1> HIDE DEF K
<1> QED
  BY <1>1, <1>2, <1>3, <1>4

\* A block of n bytes of one owner.
LEMMA Block ==
  ASSUME NEW K, IsFiniteSet(K), NEW d, NEW n \in Nat, K \cap ({d} \X Nat) = {}
  PROVE  /\ IsFiniteSet(K \cup ({d} \X (1..n)))
         /\ Cardinality(K) \in Nat
         /\ Cardinality(K \cup ({d} \X (1..n))) = Cardinality(K) + n
<1> DEFINE New == {d} \X (1..n)
<1>1. IsFiniteSet(1..n) /\ Cardinality(1..n) = n
  <2>1. IsFiniteSet(1..n) /\ Cardinality(1..n) = IF 1 > n THEN 0 ELSE n - 1 + 1
    BY FS_Interval
  <2>2. (IF 1 > n THEN 0 ELSE n - 1 + 1) = n
    OBVIOUS
  <2> QED
    BY <2>1, <2>2
<1>2. IsFiniteSet(New) /\ Cardinality(New) = n
  <2>1. IsFiniteSet({d}) /\ Cardinality({d}) = 1
    BY FS_Singleton
  <2>2. IsFiniteSet(New) /\ Cardinality(New) = Cardinality({d}) * Cardinality(1..n)
    BY <1>1, <2>1, FS_Product
  <2>3. 1 * n = n
    OBVIOUS
  <2>4. Cardinality(New) = 1 * n
    BY <1>1, <2>1, <2>2
  <2> QED
    BY <2>2, <2>3, <2>4
<1>3. K \cap New = {}
  <2>1. New \subseteq {d} \X Nat
    OBVIOUS
  <2> QED
    BY <2>1
<1>4. Cardinality({}) = 0 /\ Cardinality(K) \in Nat
  BY FS_EmptySet, FS_CardinalityType
<1>5. /\ IsFiniteSet(K \cup New)
      /\ Cardinality(K \cup New) = Cardinality(K) + Cardinality(New) - Cardinality(K \cap New)
  BY <1>2, FS_Union
<1>6. Cardinality(K \cup New) = Cardinality(K) + n
  <2>1. \A m \in Nat : m + n - 0 = m + n
    OBVIOUS
  <2>2. Cardinality(K \cup New) = Cardinality(K) + n - 0
    BY <1>2, <1>3, <1>4, <1>5
  <2> QED
    BY <1>4, <2>1, <2>2
<1> QED
  BY <1>4, <1>5, <1>6

\* What a set of bytes has for one owner: the block of its n bytes.
Has(A, d, n) == A \cap ({d} \X Nat) = {d} \X (1..n)

\* What it has for all others.
Others(A, d) == A \ ({d} \X Nat)

\* Sets of bytes that differ in the block of one owner.
LEMMA Blocks ==
  ASSUME NEW A, NEW B, NEW d, NEW n \in Nat, NEW m \in Nat, IsFiniteSet(A),
         Others(A, d) = Others(B, d), Has(A, d, n), Has(B, d, m)
  PROVE  /\ IsFiniteSet(B)
         /\ Cardinality(A) \in Nat /\ Cardinality(B) \in Nat
         /\ Cardinality(B) = Cardinality(A) - n + m
<1> DEFINE K == A \ ({d} \X Nat)
<1>0. K = B \ ({d} \X Nat)
  BY DEF Others
<1>1. IsFiniteSet(K) /\ K \cap ({d} \X Nat) = {}
  <2>1. K \subseteq A
    OBVIOUS
  <2> QED
    BY <2>1, FS_Subset
<1>2. A = K \cup ({d} \X (1..n))
  BY Zenon DEF Has
<1>3. B = K \cup ({d} \X (1..m))
  BY <1>0, Zenon DEF Has
<1> HIDE DEF K
<1>4. Cardinality(A) = Cardinality(K) + n /\ Cardinality(K) \in Nat
  BY <1>1, <1>2, Block
<1>5. IsFiniteSet(B) /\ Cardinality(B) = Cardinality(K) + m
  BY <1>1, <1>3, Block
<1> QED
  BY <1>4, <1>5

-----------------------------------------------------------------------------
(* What the calls have left to do                                           *)

\* One more step put in front of a process's list.
Push(t, p, e) == [t EXCEPT ![p] = <<e>> \o t[p]]

\* One more step in front leaves the other steps where they were, counted from
\* the end.
LEMMA PushItem ==
  ASSUME NEW t \in [Procs -> Seq(Jobs)], NEW p \in Procs, NEW e \in Jobs
  PROVE  /\ Push(t, p, e) \in [Procs -> Seq(Jobs)]
         /\ Items(Push(t, p, e)) = Items(t) \cup {<<p, Len(t[p]) + 1>>}
         /\ <<p, Len(t[p]) + 1>> \notin Items(t)
         /\ \A d \in Items(t) : Item(Push(t, p, e), d) = Item(t, d)
         /\ Item(Push(t, p, e), <<p, Len(t[p]) + 1>>) = e
<1> DEFINE u == Push(t, p, e)
           new == <<p, Len(t[p]) + 1>>
<1>1. t[p] \in Seq(Jobs) /\ Len(t[p]) \in Nat
  BY LenProperties
<1>2. /\ <<e>> \o t[p] \in Seq(Jobs)
      /\ Len(<<e>> \o t[p]) = Len(t[p]) + 1
      /\ (<<e>> \o t[p])[1] = e
      /\ \A i \in 1..Len(t[p]) : (<<e>> \o t[p])[i + 1] = t[p][i]
  BY <1>1
<1>3. /\ u \in [Procs -> Seq(Jobs)] /\ u[p] = <<e>> \o t[p]
      /\ \A r \in Procs \ {p} : u[r] = t[r]
  BY <1>2 DEF Push
<1> HIDE DEF u
<1>4. \A d : d \in Items(t) <=> \E r \in Procs : \E j \in 1..Len(t[r]) : d = <<r, j>>
  BY DEF Items
<1>5. \A d : d \in Items(u) <=> \E r \in Procs : \E j \in 1..Len(u[r]) : d = <<r, j>>
  BY DEF Items
<1>6. Items(u) = Items(t) \cup {new}
  <2>1. ASSUME NEW d \in Items(u) PROVE d \in Items(t) \cup {new}
    <3>1. PICK r \in Procs : \E j \in 1..Len(u[r]) : d = <<r, j>>
      BY <1>5
    <3>p. PICK j \in 1..Len(u[r]) : d = <<r, j>>
      BY <3>1
    <3>2. CASE r = p
      <4>1. j \in 1..Len(t[p]) \/ j = Len(t[p]) + 1
        BY <1>1, <1>2, <1>3, <3>1, <3>p, <3>2
      <4> QED
        BY <1>4, <3>1, <3>p, <3>2, <4>1
    <3>3. CASE r # p
      BY <1>3, <1>4, <3>1, <3>p, <3>3
    <3> QED
      BY <3>2, <3>3
  <2>2. ASSUME NEW d \in Items(t) PROVE d \in Items(u)
    <3>1. PICK r \in Procs : \E j \in 1..Len(t[r]) : d = <<r, j>>
      BY <1>4
    <3>p. PICK j \in 1..Len(t[r]) : d = <<r, j>>
      BY <3>1
    <3>2. j \in 1..Len(u[r])
      BY <1>1, <1>2, <1>3, <3>1, <3>p
    <3> QED
      BY <1>5, <3>1, <3>p, <3>2
  <2>3. new \in Items(u)
    <3>1. Len(t[p]) + 1 \in 1..Len(u[p])
      BY <1>1, <1>2, <1>3
    <3> QED
      BY <1>5, <3>1
  <2> QED
    BY <2>1, <2>2, <2>3
<1>7. new \notin Items(t)
  BY <1>1, <1>4
<1>8. ASSUME NEW d \in Items(t) PROVE Item(u, d) = Item(t, d)
  <2>1. PICK r \in Procs : \E j \in 1..Len(t[r]) : d = <<r, j>>
    BY <1>4
  <2>p. PICK j \in 1..Len(t[r]) : d = <<r, j>>
    BY <2>1
  <2>2. CASE r = p
    <3>1. Len(t[p]) + 1 - j \in 1..Len(t[p]) /\ (Len(t[p]) + 1 - j) + 1 = Len(u[p]) + 1 - j
      BY <1>1, <1>2, <1>3, <2>1, <2>p, <2>2
    <3>2. u[p][(Len(t[p]) + 1 - j) + 1] = t[p][Len(t[p]) + 1 - j]
      BY <1>2, <1>3, <3>1
    <3> QED
      BY <2>1, <2>p, <2>2, <3>1, <3>2 DEF Item
  <2>3. CASE r # p
    BY <1>3, <2>1, <2>p, <2>3 DEF Item
  <2> QED
    BY <2>2, <2>3
<1>9. Item(u, new) = e
  <2>1. Len(u[p]) + 1 - (Len(t[p]) + 1) = 1
    BY <1>1, <1>2, <1>3
  <2> QED
    BY <1>2, <1>3, <2>1 DEF Item
<1> QED
  BY <1>3, <1>6, <1>7, <1>8, <1>9 DEF u

\* What one more step adds to the view borrows to be returned.
LEMMA PushReturns ==
  ASSUME NEW t \in [Procs -> Seq(Jobs)], NEW p \in Procs, NEW e \in Jobs, NEW s,
         IsFiniteSet(Returns(t, s)) \/ IsFiniteSet(Returns(Push(t, p, e), s))
  PROVE  /\ IsFiniteSet(Returns(t, s)) /\ IsFiniteSet(Returns(Push(t, p, e), s))
         /\ Cardinality(Returns(t, s)) \in Nat
         /\ Cardinality(Returns(Push(t, p, e), s)) = Cardinality(Returns(t, s)) + Bit(e = <<"releaseView", s>>)
<1> DEFINE u == Push(t, p, e)
           new == <<p, Len(t[p]) + 1>>  A == Returns(t, s)  B == Returns(u, s)
<1>a. /\ Items(u) = Items(t) \cup {new} /\ new \notin Items(t)
      /\ \A d \in Items(t) : Item(u, d) = Item(t, d)
      /\ Item(u, new) = e
  BY PushItem
<1> HIDE DEF new, u
<1>1. /\ \A d : d # new => (d \in A <=> d \in B)
      /\ new \notin A
      /\ new \in B <=> e = <<"releaseView", s>>
  BY <1>a DEF Returns
<1> HIDE DEF A, B, u
<1>2. Bit(new \in A) = 0 /\ Bit(new \in B) = Bit(e = <<"releaseView", s>>) /\ Bit(new \in B) \in 0..1
  BY <1>1 DEF Bit
<1>3. IsFiniteSet(A)
  <2>1. CASE IsFiniteSet(B)
    BY <1>1, <2>1, Differ
  <2> QED
    BY <2>1 DEF A, B, u
<1>4. /\ IsFiniteSet(B) /\ Cardinality(A) \in Nat /\ Cardinality(B) \in Nat
      /\ Cardinality(B) = Cardinality(A) - Bit(new \in A) + Bit(new \in B)
  BY <1>1, <1>3, Differ
<1>5. Cardinality(B) = Cardinality(A) + Bit(new \in B)
  BY <1>2, <1>4
<1> QED
  BY <1>2, <1>3, <1>4, <1>5 DEF A, B, u

\* What a step is worth to account a.
Worth(e, a) == IF e[1] = "refund" /\ e[2] = a THEN e[3] ELSE 0

\* ... and to the bytes to be refunded.
LEMMA PushRefunds ==
  ASSUME NEW t \in [Procs -> Seq(Jobs)], NEW p \in Procs, NEW e \in Jobs, NEW a,
         IsFiniteSet(Refunds(t, a)) \/ IsFiniteSet(Refunds(Push(t, p, e), a))
  PROVE  /\ IsFiniteSet(Refunds(t, a)) /\ IsFiniteSet(Refunds(Push(t, p, e), a))
         /\ Cardinality(Refunds(t, a)) \in Nat
         /\ Worth(e, a) \in Nat
         /\ Cardinality(Refunds(Push(t, p, e), a)) = Cardinality(Refunds(t, a)) + Worth(e, a)
<1> DEFINE u == Push(t, p, e)
           new == <<p, Len(t[p]) + 1>>  A == Refunds(t, a)  B == Refunds(u, a)  n == Worth(e, a)
           Payable(v) == {d \in Items(v) : Item(v, d)[1] = "refund" /\ Item(v, d)[2] = a}
<1>0. n \in Nat
  BY DEF Worth, Jobs
<1>1. /\ \A x : x \in A <=> \E d \in Payable(t) : x \in {d} \X (1..Item(t, d)[3])
      /\ \A x : x \in B <=> \E d \in Payable(u) : x \in {d} \X (1..Item(u, d)[3])
  BY DEF Refunds
<1>a. /\ Items(u) = Items(t) \cup {new} /\ new \notin Items(t)
      /\ \A d \in Items(t) : Item(u, d) = Item(t, d)
      /\ Item(u, new) = e
  BY PushItem
<1> HIDE DEF new, u
<1>2. /\ \A d : d # new => (d \in Payable(t) <=> d \in Payable(u)) /\ (d \in Payable(t) => Item(t, d) = Item(u, d))
      /\ new \notin Payable(t)
      /\ new \in Payable(u) <=> e[1] = "refund" /\ e[2] = a
      /\ Item(u, new) = e
  BY <1>a
<1> HIDE DEF Payable
<1>3. \A x : x \notin {new} \X Nat => (x \in A <=> x \in B)
  <2> SUFFICES ASSUME NEW x, x \notin {new} \X Nat PROVE x \in A <=> x \in B
    OBVIOUS
  <2>1. ASSUME NEW d \in Payable(t), x \in {d} \X (1..Item(t, d)[3]) PROVE x \in B
    BY <1>1, <1>2, <2>1
  <2>2. ASSUME NEW d \in Payable(u), x \in {d} \X (1..Item(u, d)[3]) PROVE x \in A
    <3>1. d # new
      <4>1. \A m : {new} \X (1..m) \subseteq {new} \X Nat
        OBVIOUS
      <4> QED
        BY <2>2, <4>1
    <3> QED
      BY <1>1, <1>2, <2>2, <3>1
  <2> QED
    BY <1>1, <2>1, <2>2
<1>4. A \cap ({new} \X Nat) = {new} \X (1..0)
  BY <1>1, <1>2
<1>5. B \cap ({new} \X Nat) = {new} \X (1..n)
  <2>1. CASE e[1] = "refund" /\ e[2] = a
    <3>1. n = e[3] /\ Item(u, new)[3] = e[3] /\ new \in Payable(u)
      BY <1>2, <2>1 DEF Worth
    <3>2. ASSUME NEW x \in {new} \X Nat PROVE x \in B <=> x \in {new} \X (1..e[3])
      <4>1. \A d : \A m : x \in {d} \X (1..m) => d = new
        OBVIOUS
      <4>2. x \in B <=> x \in {new} \X (1..Item(u, new)[3])
        <5> HIDE DEF B
        <5> QED
          BY <1>1, <3>1, <4>1 DEF B
      <4> QED
        BY <3>1, <4>2
    <3>3. {new} \X (1..e[3]) \subseteq {new} \X Nat
      OBVIOUS
    <3> HIDE DEF B, n
    <3> QED
      BY <3>1, <3>2, <3>3
  <2>2. CASE ~(e[1] = "refund" /\ e[2] = a)
    <3>1. n = 0 /\ new \notin Payable(u)
      BY <1>2, <2>2 DEF Worth
    <3>2. ASSUME NEW x \in {new} \X Nat PROVE x \notin B
      <4>1. \A d : \A m : x \in {d} \X (1..m) => d = new
        OBVIOUS
      <4>2. \A d \in Payable(u) : x \notin {d} \X (1..Item(u, d)[3])
        BY <3>1, <4>1
      <4> QED
        BY <1>1, <4>2, Zenon
    <3>3. {new} \X (1..0) = {}
      OBVIOUS
    <3> HIDE DEF B, n
    <3> QED
      BY <3>1, <3>2, <3>3
  <2> QED
    BY <2>1, <2>2
<1> HIDE DEF A, B, n
<1>c. B = A \cup ({new} \X (1..n)) /\ A \cap ({new} \X Nat) = {} /\ A \subseteq B
  <2>1. {new} \X (1..0) = {}
    OBVIOUS
  <2>2. {new} \X (1..n) \subseteq {new} \X Nat
    BY <1>0
  <2>3. A \cap ({new} \X Nat) = {}
    BY <1>4, <2>1
  <2> QED
    BY <1>3, <1>5, <2>2, <2>3, Zenon
<1>6. IsFiniteSet(A)
  <2>1. CASE IsFiniteSet(B)
    BY <1>c, <2>1, FS_Subset
  <2> QED
    BY <2>1 DEF A, B, u
<1>7. IsFiniteSet(B) /\ Cardinality(A) \in Nat /\ Cardinality(B) = Cardinality(A) + n
  BY <1>0, <1>c, <1>6, Block
<1> QED
  BY <1>0, <1>6, <1>7 DEF A, B, n, u

\* What is owed is a number.
LEMMA OwingCounts ==
  ASSUME NEW t, Owing(t)
  PROVE  (\A s \in Sets : Borrows(t, s) \in Nat) /\ (\A a \in Accounts : Due(t, a) \in Nat)
BY FS_CardinalityType DEF Owing, Borrows, Due

\* One step more.
LEMMA OwePush ==
  ASSUME NEW t, Owing(t), NEW p \in Procs, NEW e \in Jobs
  PROVE  /\ Owing(Push(t, p, e))
         /\ \A s \in Sets : Borrows(Push(t, p, e), s) = Borrows(t, s) + Bit(e = <<"releaseView", s>>)
         /\ \A a \in Accounts : Due(Push(t, p, e), a) = Due(t, a) + Worth(e, a)
<1>0. t \in [Procs -> Seq(Jobs)]
  BY DEF Owing
<1>1. Push(t, p, e) \in [Procs -> Seq(Jobs)]
  BY <1>0, PushItem
<1>2. ASSUME NEW s \in Sets
      PROVE  /\ IsFiniteSet(Returns(Push(t, p, e), s))
             /\ Borrows(Push(t, p, e), s) = Borrows(t, s) + Bit(e = <<"releaseView", s>>)
  <2>1. IsFiniteSet(Returns(t, s))
    BY DEF Owing
  <2> QED
    BY <1>0, <2>1, PushReturns DEF Borrows
<1>3. ASSUME NEW a \in Accounts
      PROVE  /\ IsFiniteSet(Refunds(Push(t, p, e), a))
             /\ Due(Push(t, p, e), a) = Due(t, a) + Worth(e, a)
  <2>1. IsFiniteSet(Refunds(t, a))
    BY DEF Owing
  <2> QED
    BY <1>0, <2>1, PushRefunds DEF Due
<1> QED
  BY <1>1, <1>2, <1>3 DEF Owing

\* The list without its first step.
Popped(t, p) == [t EXCEPT ![p] = Tail(t[p])]

\* One step less.
LEMMA OwePop ==
  ASSUME NEW t, Owing(t), NEW p \in Procs, t[p] # <<>>
  PROVE  /\ Owing(Popped(t, p)) /\ Head(t[p]) \in Jobs
         /\ \A s \in Sets : Borrows(Popped(t, p), s) = Borrows(t, s) - Bit(Head(t[p]) = <<"releaseView", s>>)
         /\ \A a \in Accounts : /\ Worth(Head(t[p]), a) \in Nat
                                /\ Due(Popped(t, p), a) = Due(t, a) - Worth(Head(t[p]), a)
<1> DEFINE u == Popped(t, p)  e == Head(t[p])
<1>0. t \in [Procs -> Seq(Jobs)] /\ t[p] \in Seq(Jobs)
  BY DEF Owing
<1>1. e \in Jobs /\ Tail(t[p]) \in Seq(Jobs) /\ t[p] = <<e>> \o Tail(t[p])
  BY <1>0, HeadTailProperties
<1>2. u \in [Procs -> Seq(Jobs)] /\ u[p] = Tail(t[p])
  BY <1>0, <1>1 DEF Popped
<1>3. Push(u, p, e) = t
  BY <1>0, <1>1, <1>2 DEF Push, Popped
<1> HIDE DEF u, e
<1>4. ASSUME NEW s \in Sets
      PROVE  /\ IsFiniteSet(Returns(u, s))
             /\ Borrows(u, s) = Borrows(t, s) - Bit(e = <<"releaseView", s>>)
  <2>1. IsFiniteSet(Returns(Push(u, p, e), s))
    BY <1>3 DEF Owing
  <2>2. /\ IsFiniteSet(Returns(u, s)) /\ Cardinality(Returns(u, s)) \in Nat
        /\ Cardinality(Returns(Push(u, p, e), s)) = Cardinality(Returns(u, s)) + Bit(e = <<"releaseView", s>>)
    BY <1>1, <1>2, <2>1, PushReturns
  <2>3. Bit(e = <<"releaseView", s>>) \in 0..1
    BY DEF Bit
  <2> QED
    BY <1>3, <2>2, <2>3 DEF Borrows
<1>5. ASSUME NEW a \in Accounts
      PROVE  /\ IsFiniteSet(Refunds(u, a)) /\ Worth(e, a) \in Nat
             /\ Due(u, a) = Due(t, a) - Worth(e, a)
  <2>1. IsFiniteSet(Refunds(Push(u, p, e), a))
    BY <1>3 DEF Owing
  <2>2. /\ IsFiniteSet(Refunds(u, a)) /\ Cardinality(Refunds(u, a)) \in Nat
        /\ Worth(e, a) \in Nat
        /\ Cardinality(Refunds(Push(u, p, e), a)) = Cardinality(Refunds(u, a)) + Worth(e, a)
    BY <1>1, <1>2, <2>1, PushRefunds
  <2> QED
    BY <1>3, <2>2 DEF Due
<1> QED
  BY <1>1, <1>2, <1>4, <1>5 DEF Owing, u, e

\* Giving back one thing more is still giving back.
LEMMA ConsUnwinding ==
  ASSUME NEW l \in Seq(Jobs), NEW e \in Jobs, Unwinding(l), e[1] \in {"releaseView", "refund"}
  PROVE  Unwinding(<<e>> \o l)
<1> DEFINE m == <<e>> \o l
<1>1. /\ Len(l) \in Nat /\ Len(m) = Len(l) + 1
      /\ m[1] = e
      /\ \A i \in 1..Len(l) : m[i + 1] = l[i]
  OBVIOUS
<1> HIDE DEF m
<1>2. ASSUME NEW i \in 1..Len(m) PROVE m[i][1] \in {"releaseView", "refund"}
  <2>1. CASE i = 1
    BY <1>1, <2>1
  <2>2. CASE i # 1
    <3>1. i - 1 \in 1..Len(l) /\ (i - 1) + 1 = i
      BY <1>1, <2>2
    <3>2. m[i] = l[i - 1]
      BY <1>1, <3>1
    <3> QED
      BY <3>1, <3>2 DEF Unwinding
  <2> QED
    BY <2>1, <2>2
<1> QED
  BY <1>2 DEF Unwinding, m

\* Bytes to refund, put in front.
AddRefund(t, p, a, n) == [t EXCEPT ![p] = Refund(a, n) \o t[p]]

\* A refund in front: of a set without bytes there is none.
LEMMA OweRefund ==
  ASSUME NEW t, Owing(t), NEW p \in Procs, NEW a \in Accounts, NEW n \in Nat
  PROVE  /\ Owing(AddRefund(t, p, a, n))
         /\ \A s \in Sets : Borrows(AddRefund(t, p, a, n), s) = Borrows(t, s)
         /\ \A b \in Accounts : Due(AddRefund(t, p, a, n), b) = Due(t, b) + Part(n, a, b)
         /\ Unwinding(t[p]) => Unwinding(AddRefund(t, p, a, n)[p])
         /\ \A r \in Procs \ {p} : AddRefund(t, p, a, n)[r] = t[r]
<1> DEFINE u == AddRefund(t, p, a, n)  e == <<"refund", a, n>>
<1>0. t \in [Procs -> Seq(Jobs)] /\ t[p] \in Seq(Jobs)
  BY DEF Owing
<1>c. (\A s \in Sets : Borrows(t, s) \in Nat) /\ (\A b \in Accounts : Due(t, b) \in Nat)
  BY OwingCounts
<1>1. CASE n = 0
  <2>1. Refund(a, n) \o t[p] = t[p]
    BY <1>0, <1>1 DEF Refund
  <2>2. u = t
    BY <1>0, <2>1 DEF AddRefund
  <2> HIDE DEF u
  <2>3. \A b \in Accounts : Due(t, b) = Due(t, b) + Part(n, a, b)
    BY <1>1, <1>c DEF Part
  <2> QED
    BY <2>2, <2>3 DEF u
<1>2. CASE n # 0
  <2>1. e \in Jobs /\ u = Push(t, p, e)
    BY <1>2 DEF Jobs, AddRefund, Push, Refund
  <2>2. \A s \in Sets : e # <<"releaseView", s>>
    OBVIOUS
  <2>3. \A b \in Accounts : Worth(e, b) = Part(n, a, b)
    BY DEF Worth, Part
  <2>4. Unwinding(t[p]) => Unwinding(u[p])
    <3>1. u[p] = <<e>> \o t[p]
      BY <1>0, <2>1 DEF Push
    <3> QED
      BY <1>0, <2>1, <3>1, ConsUnwinding
  <2>5. \A r \in Procs \ {p} : u[r] = t[r]
    BY <1>0 DEF AddRefund
  <2> HIDE DEF u, e
  <2>6. \A s \in Sets : Borrows(u, s) = Borrows(t, s)
    BY <1>c, <2>1, <2>2, OwePush DEF Bit
  <2>7. Owing(u) /\ \A b \in Accounts : Due(u, b) = Due(t, b) + Part(n, a, b)
    BY <2>1, <2>3, OwePush
  <2> QED
    BY <2>4, <2>5, <2>6, <2>7 DEF u
<1> QED
  BY <1>1, <1>2

\* A view borrow to return, put in front.
AddReturn(t, p, q) == [t EXCEPT ![p] = ReleaseView(q) \o t[p]]

\* The borrow of a parent in front: of a set that is no view there is none.
LEMMA OweReturn ==
  ASSUME NEW t, Owing(t), NEW p \in Procs, NEW q \in Sets \cup {NoSet}
  PROVE  /\ Owing(AddReturn(t, p, q))
         /\ \A s \in Sets : Borrows(AddReturn(t, p, q), s) = Borrows(t, s) + Is(q, s)
         /\ \A b \in Accounts : Due(AddReturn(t, p, q), b) = Due(t, b)
         /\ Unwinding(t[p]) => Unwinding(AddReturn(t, p, q)[p])
         /\ \A r \in Procs \ {p} : AddReturn(t, p, q)[r] = t[r]
<1> DEFINE u == AddReturn(t, p, q)  e == <<"releaseView", q>>
<1>0. t \in [Procs -> Seq(Jobs)] /\ t[p] \in Seq(Jobs)
  BY DEF Owing
<1>c. (\A s \in Sets : Borrows(t, s) \in Nat) /\ (\A b \in Accounts : Due(t, b) \in Nat)
  BY OwingCounts
<1>1. CASE q = NoSet
  <2>1. ReleaseView(q) \o t[p] = t[p]
    BY <1>0, <1>1 DEF ReleaseView
  <2>2. u = t
    BY <1>0, <2>1 DEF AddReturn
  <2> HIDE DEF u
  <2>3. \A s \in Sets : Borrows(t, s) = Borrows(t, s) + Is(q, s)
    BY <1>1, <1>c, SetAssumption DEF Bit, Is
  <2> QED
    BY <2>2, <2>3 DEF u
<1>2. CASE q # NoSet
  <2>1. e \in Jobs /\ u = Push(t, p, e)
    BY <1>2 DEF Jobs, AddReturn, Push, ReleaseView
  <2>2. \A s \in Sets : e = <<"releaseView", s>> <=> q = s
    OBVIOUS
  <2>3. \A b \in Accounts : Worth(e, b) = 0
    BY DEF Worth
  <2>4. Unwinding(t[p]) => Unwinding(u[p])
    <3>1. u[p] = <<e>> \o t[p]
      BY <1>0, <2>1 DEF Push
    <3> QED
      BY <1>0, <2>1, <3>1, ConsUnwinding
  <2>5. \A r \in Procs \ {p} : u[r] = t[r]
    BY <1>0 DEF AddReturn
  <2> HIDE DEF u, e
  <2>6. Owing(u) /\ \A s \in Sets : Borrows(u, s) = Borrows(t, s) + Is(q, s)
    BY <2>1, <2>2, OwePush DEF Bit, Is
  <2>7. \A b \in Accounts : Due(u, b) = Due(t, b)
    BY <1>c, <2>1, <2>3, OwePush
  <2> QED
    BY <2>4, <2>5, <2>6, <2>7 DEF u
<1> QED
  BY <1>1, <1>2

-----------------------------------------------------------------------------
(* The state                                                                *)

\* The one step of a call under way, and every list that a call may have.
Calling(l) == \E kind \in {"import", "admit", "borrow"}, s \in Sets : l = <<<<kind, s>>>>
Shaped(l) == l \in Seq(Jobs) /\ (Unwinding(l) \/ Calling(l))

\* What the first step of such a list says.
LEMMA ListHead ==
  ASSUME NEW l, Shaped(l)
  PROVE  /\ \A kind \in {"import", "admit", "borrow"}, s \in Sets :
              (l # <<>> /\ Head(l) = <<kind, s>>) <=> l = <<<<kind, s>>>>
         /\ l # <<>> /\ Head(l)[1] \in {"import", "admit", "borrow"} =>
              /\ Head(l)[2] \in Sets /\ l = <<<<Head(l)[1], Head(l)[2]>>>> /\ Tail(l) = <<>>
         /\ l # <<>> /\ Head(l)[1] \in {"releaseView", "refund"} => Unwinding(l) /\ Unwinding(Tail(l))
<1>1. ASSUME Unwinding(l), l # <<>>
      PROVE  Head(l)[1] \in {"releaseView", "refund"} /\ Unwinding(Tail(l))
  <2>1. l \in Seq(Jobs) /\ 1 \in 1..Len(l) /\ Head(l) = l[1]
    BY <1>1 DEF Shaped
  <2>2. \A i \in 1..Len(Tail(l)) : i + 1 \in 1..Len(l) /\ Tail(l)[i] = l[i + 1]
    BY <1>1, <2>1
  <2> QED
    BY <1>1, <2>1, <2>2 DEF Unwinding
<1>2. ASSUME NEW kind, NEW s, l = <<<<kind, s>>>>
      PROVE  l # <<>> /\ Head(l) = <<kind, s>> /\ Tail(l) = <<>>
  BY <1>2
<1>3. ASSUME l # <<>>, Head(l)[1] \in {"import", "admit", "borrow"}
      PROVE  /\ Head(l)[2] \in Sets /\ l = <<<<Head(l)[1], Head(l)[2]>>>> /\ Tail(l) = <<>>
  <2>1. PICK kind \in {"import", "admit", "borrow"}, s \in Sets : l = <<<<kind, s>>>>
    BY <1>1, <1>3 DEF Shaped, Calling
  <2>2. Head(l)[1] = kind /\ Head(l)[2] = s
    BY <1>2, <2>1
  <2> QED
    BY <1>2, <2>1, <2>2
<1>4. ASSUME NEW s \in Sets, NEW kind \in {"import", "admit", "borrow"}, l # <<>>, Head(l) = <<kind, s>>
      PROVE  l = <<<<kind, s>>>>
  <2>1. Head(l)[1] = kind /\ Head(l)[2] = s
    BY <1>4
  <2> QED
    BY <1>3, <1>4, <2>1
<1>5. ASSUME l # <<>>, Head(l)[1] \in {"releaseView", "refund"} PROVE Unwinding(l)
  <2>1. ~Calling(l)
    BY <1>2, <1>5 DEF Calling
  <2> QED
    BY <2>1 DEF Shaped
<1> QED
  BY <1>1, <1>2, <1>3, <1>4, <1>5

\* The reading of the lists, before and after a step.
Reading ==
  /\ \A s \in Sets : Published(s) <=> set[s].initialized /\ \A p \in Procs : ~Constructs(p, s)
  /\ \A s \in Sets : Admitted(s) <=> \A p \in Procs : ~Doing(p, "admit", s)
  /\ \A p \in Procs : Shaped(todo[p])
  /\ \A p \in Procs : (todo[p] # <<>> /\ Head(todo[p])[1] = "borrow") <=> \E s \in Sets : Doing(p, "borrow", s)

\* The first item of a list says which call is under way.
LEMMA Read == Types => Reading
<1> SUFFICES ASSUME Types PROVE Reading
  OBVIOUS
<1>1. \A p \in Procs : Shaped(todo[p])
  BY DEF Types, Shaped, Calling, Doing
<1>2. \A p \in Procs, kind \in {"import", "admit", "borrow"}, s \in Sets :
        Doing(p, kind, s) <=> todo[p] # <<>> /\ Head(todo[p]) = <<kind, s>>
  BY <1>1, ListHead DEF Doing
<1>3. ASSUME NEW p \in Procs
      PROVE  (todo[p] # <<>> /\ Head(todo[p])[1] = "borrow") <=> \E s \in Sets : Doing(p, "borrow", s)
  <2>1. ASSUME NEW s \in Sets, Doing(p, "borrow", s) PROVE todo[p] # <<>> /\ Head(todo[p])[1] = "borrow"
    BY <1>2, <2>1
  <2>2. ASSUME todo[p] # <<>>, Head(todo[p])[1] = "borrow" PROVE \E s \in Sets : Doing(p, "borrow", s)
    BY <1>1, <2>2, ListHead DEF Doing
  <2> QED
    BY <2>1, <2>2
<1> QED
  BY <1>1, <1>2, <1>3 DEF Reading, Published, Admitted, Idle, Constructs

\* The same of the next state.
LEMMA ReadNext == Types' => Reading'
  BY Read, PTL

\* A list that only gives back is none of the calls under way.
LEMMA NotDoing ==
  ASSUME NEW p, Unwinding(todo[p]), NEW kind \in {"import", "admit", "borrow"}, NEW s
  PROVE  ~Doing(p, kind, s)
<1> SUFFICES ASSUME Doing(p, kind, s) PROVE FALSE
  OBVIOUS
<1>1. Len(todo[p]) = 1 /\ todo[p][1] = <<kind, s>>
  BY DEF Doing
<1> QED
  BY <1>1 DEF Unwinding

\* The leases of a set, when process p may change its own.
LEMMA LeasesStep ==
  ASSUME NEW p \in Procs, \A r \in Procs \ {p} : lease'[r] = lease[r], NEW s
  PROVE  /\ Cardinality(Leases(s)) \in Nat /\ Cardinality(Leases(s)') \in Nat
         /\ Cardinality(Leases(s)') = Cardinality(Leases(s)) - Is(lease[p], s) + Is(lease'[p], s)
<1> DEFINE A == Leases(s)  B == Leases(s)'
<1>1. IsFiniteSet(A)
  BY SetAssumption, FS_Subset DEF Leases
<1>2. /\ \A x : x # p => (x \in A <=> x \in B)
      /\ p \in A <=> lease[p] = s
      /\ p \in B <=> lease'[p] = s
  BY DEF Leases
<1>3. Bit(p \in A) = Is(lease[p], s) /\ Bit(p \in B) = Is(lease'[p], s)
  BY <1>2 DEF Bit, Is
<1> HIDE DEF A, B
<1>4. /\ Cardinality(A) \in Nat /\ Cardinality(B) \in Nat
      /\ Cardinality(B) = Cardinality(A) - Bit(p \in A) + Bit(p \in B)
  BY <1>1, <1>2, Differ
<1> QED
  BY <1>3, <1>4 DEF A, B

\* The views of a set, when the parent of v may change.
LEMMA ViewsStep ==
  ASSUME NEW v \in Sets, \A w \in Sets \ {v} : set'[w].parent = set[w].parent, NEW s
  PROVE  /\ Cardinality(Views(s)) \in Nat /\ Cardinality(Views(s)') \in Nat
         /\ Cardinality(Views(s)') = Cardinality(Views(s)) - Is(set[v].parent, s) + Is(set'[v].parent, s)
<1> DEFINE A == Views(s)  B == Views(s)'
<1>1. IsFiniteSet(A)
  BY SetAssumption, FS_Subset DEF Views
<1>2. /\ \A x : x # v => (x \in A <=> x \in B)
      /\ v \in A <=> set[v].parent = s
      /\ v \in B <=> set'[v].parent = s
  BY DEF Views
<1>3. Bit(v \in A) = Is(set[v].parent, s) /\ Bit(v \in B) = Is(set'[v].parent, s)
  BY <1>2 DEF Bit, Is
<1> HIDE DEF A, B
<1>4. /\ Cardinality(A) \in Nat /\ Cardinality(B) \in Nat
      /\ Cardinality(B) = Cardinality(A) - Bit(v \in A) + Bit(v \in B)
  BY <1>1, <1>2, Differ
<1> QED
  BY <1>3, <1>4 DEF A, B

\* What set s is worth to account a.
Charged(s, a) == IF set[s].account = a /\ Admitted(s) THEN set[s].retained ELSE 0

\* The bytes of the sets of an account, when v may change.
LEMMA SetBytesStep ==
  ASSUME NEW a, IsFiniteSet(SetBytes(a)), NEW v \in Sets,
         set[v].retained \in Nat, set'[v].retained \in Nat,
         \A w \in Sets \ {v} : /\ set'[w].account = set[w].account
                               /\ set'[w].retained = set[w].retained
                               /\ Admitted(w)' <=> Admitted(w)
  PROVE  /\ IsFiniteSet(SetBytes(a)')
         /\ Cardinality(SetBytes(a)) \in Nat /\ Cardinality(SetBytes(a)') \in Nat
         /\ Cardinality(SetBytes(a)') = Cardinality(SetBytes(a)) - Charged(v, a) + Charged(v, a)'
<1> DEFINE A == SetBytes(a)  B == SetBytes(a)'  n == Charged(v, a)  m == Charged(v, a)'
           Old == {w \in Sets : set[w].account = a /\ Admitted(w)}
           New == {w \in Sets : set'[w].account = a /\ Admitted(w)'}
<1>0. n \in Nat /\ m \in Nat
  BY DEF Charged
<1>1. /\ \A x : x \in A <=> \E w \in Old : x \in {w} \X (1..set[w].retained)
      /\ \A x : x \in B <=> \E w \in New : x \in {w} \X (1..set'[w].retained)
  BY DEF SetBytes
<1>2. /\ \A w : w # v => (w \in Old <=> w \in New)
      /\ v \in Old => n = set[v].retained
      /\ v \notin Old => n = 0
      /\ v \in New => m = set'[v].retained
      /\ v \notin New => m = 0
  BY DEF Charged
<1>w. \A w \in Old \cup New : w # v => set'[w].retained = set[w].retained
  OBVIOUS
<1>z. {v} \X (1..0) = {}
  OBVIOUS
<1>y. \A x \in {v} \X Nat : \A w : \A k : x \in {w} \X (1..k) => w = v
  OBVIOUS
<1>x. \A k : {v} \X (1..k) \subseteq {v} \X Nat
  OBVIOUS
<1> HIDE DEF A, B, n, m, Old, New
<1>3. \A x : x \notin {v} \X Nat => (x \in A <=> x \in B)
  <2> SUFFICES ASSUME NEW x, x \notin {v} \X Nat PROVE x \in A <=> x \in B
    OBVIOUS
  <2>1. ASSUME NEW w \in Old, x \in {w} \X (1..set[w].retained) PROVE x \in B
    <3>1. w # v
      BY <1>x, <2>1
    <3>2. w \in New /\ set'[w].retained = set[w].retained
      BY <1>2, <1>w, <3>1
    <3> QED
      BY <1>1, <2>1, <3>2
  <2>2. ASSUME NEW w \in New, x \in {w} \X (1..set'[w].retained) PROVE x \in A
    <3>1. w # v
      BY <1>x, <2>2
    <3>2. w \in Old /\ set'[w].retained = set[w].retained
      BY <1>2, <1>w, <3>1
    <3> QED
      BY <1>1, <2>2, <3>2
  <2> QED
    BY <1>1, <2>1, <2>2
<1>4. A \cap ({v} \X Nat) = {v} \X (1..n)
  <2>1. CASE v \in Old
    <3>1. \A x \in {v} \X Nat : x \in A <=> x \in {v} \X (1..n)
      BY <1>1, <1>2, <1>y, <2>1
    <3> QED
      BY <1>x, <3>1
  <2>2. CASE v \notin Old
    <3>1. \A x \in {v} \X Nat : x \notin A
      BY <1>1, <1>y, <2>2
    <3>2. n = 0
      BY <1>2, <2>2
    <3> QED
      BY <1>z, <3>1, <3>2
  <2> QED
    BY <2>1, <2>2
<1>5. B \cap ({v} \X Nat) = {v} \X (1..m)
  <2>1. CASE v \in New
    <3>1. \A x \in {v} \X Nat : x \in B <=> x \in {v} \X (1..m)
      BY <1>1, <1>2, <1>y, <2>1
    <3> QED
      BY <1>x, <3>1
  <2>2. CASE v \notin New
    <3>1. \A x \in {v} \X Nat : x \notin B
      BY <1>1, <1>y, <2>2
    <3>2. m = 0
      BY <1>2, <2>2
    <3> QED
      BY <1>z, <3>1, <3>2
  <2> QED
    BY <2>1, <2>2
<1>6. IsFiniteSet(A)
  BY DEF A
<1>7. /\ IsFiniteSet(B) /\ Cardinality(A) \in Nat /\ Cardinality(B) \in Nat
      /\ Cardinality(B) = Cardinality(A) - n + m
  <2>1. Others(A, v) = Others(B, v)
    BY <1>3 DEF Others
  <2>2. Has(A, v, n) /\ Has(B, v, m)
    BY <1>4, <1>5 DEF Has
  <2> QED
    BY <1>0, <1>6, <2>1, <2>2, Blocks
<1> QED
  BY <1>7 DEF A, B, n, m

\* The bytes of the leases of an account, when p may change its own.
LEMMA LeasedStep ==
  ASSUME NEW a, NEW p \in Procs,
         \A r \in Procs \ {p} : lease'[r] = lease[r] /\ todo'[r] = todo[r]
  PROVE  /\ LeaseBytes * Cardinality(Leased(a)) \in Nat
         /\ LeaseBytes * Cardinality(Leased(a)')
              = LeaseBytes * Cardinality(Leased(a)) - (IF p \in Leased(a) THEN LeaseBytes ELSE 0)
                  + (IF p \in Leased(a)' THEN LeaseBytes ELSE 0)
<1> DEFINE A == Leased(a)  B == Leased(a)'
<1>1. IsFiniteSet(A)
  BY SetAssumption, FS_Subset DEF Leased
<1>2. \A x : x # p => (x \in A <=> x \in B)
  BY DEF Leased, Idle
<1> HIDE DEF A, B
<1>3. /\ Cardinality(A) \in Nat /\ Cardinality(B) \in Nat
      /\ Cardinality(B) = Cardinality(A) - Bit(p \in A) + Bit(p \in B)
  BY <1>1, <1>2, Differ
<1> DEFINE c == Cardinality(A)  d == Cardinality(B)
<1>4. c \in Nat /\ d \in Nat /\ d = c - Bit(p \in A) + Bit(p \in B) /\ LeaseBytes \in Nat
  BY <1>3, SetAssumption
<1> HIDE DEF c, d
<1>5. \A k \in Int : /\ LeaseBytes * (k - 0 + 0) = LeaseBytes * k
                     /\ LeaseBytes * (k - 1 + 0) = LeaseBytes * k - LeaseBytes
                     /\ LeaseBytes * (k - 0 + 1) = LeaseBytes * k + LeaseBytes
                     /\ LeaseBytes * (k - 1 + 1) = LeaseBytes * k
                     /\ LeaseBytes * k \in Int
  BY <1>4
<1>6. LeaseBytes * c \in Nat
  BY <1>4
<1>7. LeaseBytes * d = LeaseBytes * c - (IF p \in A THEN LeaseBytes ELSE 0)
                         + (IF p \in B THEN LeaseBytes ELSE 0)
  <2> DEFINE L == LeaseBytes * c
  <2>0. L \in Int /\ LeaseBytes \in Nat
    BY <1>4, <1>5
  <2>1. CASE p \in A /\ p \in B
    <3>1. LeaseBytes * d = L
      BY <1>4, <1>5, <2>1 DEF Bit, Is
    <3> HIDE DEF L
    <3> QED
      BY <2>0, <2>1, <3>1 DEF L
  <2>2. CASE p \in A /\ p \notin B
    <3>1. LeaseBytes * d = L - LeaseBytes
      BY <1>4, <1>5, <2>2 DEF Bit, Is
    <3> HIDE DEF L
    <3> QED
      BY <2>0, <2>2, <3>1 DEF L
  <2>3. CASE p \notin A /\ p \in B
    <3>1. LeaseBytes * d = L + LeaseBytes
      BY <1>4, <1>5, <2>3 DEF Bit, Is
    <3> HIDE DEF L
    <3> QED
      BY <2>0, <2>3, <3>1 DEF L
  <2>4. CASE p \notin A /\ p \notin B
    <3>1. LeaseBytes * d = L
      BY <1>4, <1>5, <2>4 DEF Bit, Is
    <3> HIDE DEF L
    <3> QED
      BY <2>0, <2>4, <3>1 DEF L
  <2> QED
    BY <2>1, <2>2, <2>3, <2>4
<1> QED
  BY <1>6, <1>7 DEF A, B, c, d

\* What process p's lease is worth to account a.
Lent(p, a) == IF p \in Leased(a) THEN LeaseBytes ELSE 0

\* What a step of process p that changes set v leaves alone.
OthersKeep(p) == \A r \in Procs \ {p} : lease'[r] = lease[r] /\ todo'[r] = todo[r]
SetsKeep(v) ==
  \A w \in Sets \ {v} : /\ set'[w].parent = set[w].parent
                        /\ set'[w].account = set[w].account
                        /\ set'[w].retained = set[w].retained
                        /\ Admitted(w)' <=> Admitted(w)

\* What it does to the borrows and to the bytes.
BorrowsMove(p, v) ==
  \A s \in Sets : set'[s].borrowers =
            set[s].borrowers - Is(lease[p], s) + Is(lease'[p], s)
              - Is(set[v].parent, s) + Is(set'[v].parent, s) - Borrows(todo, s) + Borrows(todo', s)
BytesMove(p, v) ==
  \A a \in Accounts : gauge'[a] =
            gauge[a] - Charged(v, a) + Charged(v, a)' - Lent(p, a) + Lent(p, a)'
              - Due(todo, a) + Due(todo', a)

\* The counts after such a step.
LEMMA CountStep ==
  ASSUME SetInv, Types', Owing(todo'), NEW p \in Procs, NEW v \in Sets,
         OthersKeep(p), SetsKeep(v), BorrowsMove(p, v), BytesMove(p, v)
  PROVE  BorrowCount' /\ ByteCount'
<1>0. Owing(todo) /\ Owing(todo')
  BY DEF SetInv
<1>1. ASSUME NEW s \in Sets
      PROVE  set'[s].borrowers = Cardinality(Leases(s)') + Cardinality(Views(s)') + Borrows(todo', s)
  <2>1. /\ Cardinality(Leases(s)) \in Nat /\ Cardinality(Leases(s)') \in Nat
        /\ Cardinality(Leases(s)') = Cardinality(Leases(s)) - Is(lease[p], s) + Is(lease'[p], s)
    BY LeasesStep DEF OthersKeep
  <2>2. /\ Cardinality(Views(s)) \in Nat /\ Cardinality(Views(s)') \in Nat
        /\ Cardinality(Views(s)') = Cardinality(Views(s)) - Is(set[v].parent, s) + Is(set'[v].parent, s)
    BY ViewsStep DEF SetsKeep
  <2>3. Borrows(todo, s) \in Nat /\ Borrows(todo', s) \in Nat
    BY <1>0, OwingCounts
  <2>4. /\ Is(lease[p], s) \in Nat /\ Is(lease'[p], s) \in Nat
        /\ Is(set[v].parent, s) \in Nat /\ Is(set'[v].parent, s) \in Nat
    BY DEF Bit, Is
  <2>5. set[s].borrowers = Cardinality(Leases(s)) + Cardinality(Views(s)) + Borrows(todo, s)
    BY DEF SetInv, BorrowCount
  <2>6. set'[s].borrowers =
            set[s].borrowers - Is(lease[p], s) + Is(lease'[p], s)
              - Is(set[v].parent, s) + Is(set'[v].parent, s) - Borrows(todo, s) + Borrows(todo', s)
    BY DEF BorrowsMove
  <2> QED
    BY <2>1, <2>2, <2>3, <2>4, <2>5, <2>6
<1>2. ASSUME NEW a \in Accounts
      PROVE  /\ IsFiniteSet(SetBytes(a)')
             /\ gauge'[a] = Cardinality(SetBytes(a)') + LeaseBytes * Cardinality(Leased(a)') + Due(todo', a)
  <2>1. /\ IsFiniteSet(SetBytes(a)')
        /\ Cardinality(SetBytes(a)) \in Nat /\ Cardinality(SetBytes(a)') \in Nat
        /\ Cardinality(SetBytes(a)') = Cardinality(SetBytes(a)) - Charged(v, a) + Charged(v, a)'
    <3>1. IsFiniteSet(SetBytes(a)) /\ set[v].retained \in Nat /\ set'[v].retained \in Nat
      BY DEF SetInv, ByteCount, Types
    <3> QED
      BY <3>1, SetBytesStep DEF SetsKeep
  <2>2. Charged(v, a) \in Nat /\ Charged(v, a)' \in Nat
    BY DEF SetInv, Types, Charged
  <2>3. /\ LeaseBytes * Cardinality(Leased(a)) \in Nat
        /\ LeaseBytes * Cardinality(Leased(a)') = LeaseBytes * Cardinality(Leased(a)) - Lent(p, a) + Lent(p, a)'
    BY LeasedStep DEF Lent, OthersKeep
  <2>4. Lent(p, a) \in Nat /\ Lent(p, a)' \in Nat
    BY SetAssumption DEF Lent
  <2>5. Due(todo, a) \in Nat /\ Due(todo', a) \in Nat
    BY <1>0, OwingCounts
  <2>6. gauge[a] = Cardinality(SetBytes(a)) + LeaseBytes * Cardinality(Leased(a)) + Due(todo, a)
    BY DEF SetInv, ByteCount
  <2>7. gauge'[a] = gauge[a] - Charged(v, a) + Charged(v, a)' - Lent(p, a) + Lent(p, a)'
                     - Due(todo, a) + Due(todo', a)
    BY DEF BytesMove
  <2> DEFINE lb == LeaseBytes * Cardinality(Leased(a))  lb2 == LeaseBytes * Cardinality(Leased(a)')
  <2>8. /\ lb \in Nat /\ lb2 = lb - Lent(p, a) + Lent(p, a)'
        /\ gauge[a] = Cardinality(SetBytes(a)) + lb + Due(todo, a)
    BY <2>3, <2>6
  <2> HIDE DEF lb, lb2
  <2>9. gauge'[a] = Cardinality(SetBytes(a)') + lb2 + Due(todo', a)
    BY <2>1, <2>2, <2>4, <2>5, <2>7, <2>8
  <2> QED
    BY <2>1, <2>9 DEF lb2
<1> QED
  BY <1>1, <1>2 DEF BorrowCount, ByteCount

\* A call that begins adds its step and owes nothing.
LEMMA BeginCall ==
  ASSUME SetInv, NEW p \in Procs, Idle(p), NEW kind \in {"import", "admit", "borrow"}, NEW s \in Sets,
         todo' = [todo EXCEPT ![p] = <<<<kind, s>>>>]
  PROVE  /\ Owing(todo') /\ todo'[p] = <<<<kind, s>>>>
         /\ \A r \in Procs \ {p} : todo'[r] = todo[r]
         /\ \A z \in Sets : Borrows(todo', z) = Borrows(todo, z)
         /\ \A a \in Accounts : Due(todo', a) = Due(todo, a)
<1> DEFINE e == <<kind, s>>
<1>1. todo \in [Procs -> Seq(Jobs)] /\ e \in Jobs
  BY DEF SetInv, Types, Jobs
<1>2. todo' = Push(todo, p, e)
  BY <1>1 DEF Push, Idle
<1>3. (\A z \in Sets : e # <<"releaseView", z>>) /\ (\A a \in Accounts : Worth(e, a) = 0)
  BY DEF Worth
<1>4. Owing(todo) /\ (\A z \in Sets : Borrows(todo, z) \in Nat) /\ (\A a \in Accounts : Due(todo, a) \in Nat)
  BY OwingCounts DEF SetInv
<1>7. todo'[p] = <<<<kind, s>>>> /\ \A r \in Procs \ {p} : todo'[r] = todo[r]
  BY <1>1
<1> HIDE DEF e
<1>b. /\ Owing(Push(todo, p, e))
      /\ \A z \in Sets : Borrows(Push(todo, p, e), z) = Borrows(todo, z) + Bit(e = <<"releaseView", z>>)
      /\ \A a \in Accounts : Due(Push(todo, p, e), a) = Due(todo, a) + Worth(e, a)
  BY <1>1, <1>4, OwePush
<1>c. \A z \in Sets : Bit(e = <<"releaseView", z>>) = 0
  BY <1>3 DEF Bit, Is
<1>5. /\ Owing(todo')
      /\ \A z \in Sets : Borrows(todo', z) = Borrows(todo, z) + 0
      /\ \A a \in Accounts : Due(todo', a) = Due(todo, a) + 0
  BY <1>2, <1>3, <1>b, <1>c
<1>z. \A n \in Nat : n + 0 = n
  OBVIOUS
<1>6. /\ \A z \in Sets : Borrows(todo', z) = Borrows(todo, z)
      /\ \A a \in Accounts : Due(todo', a) = Due(todo, a)
  BY <1>4, <1>5, <1>z
<1> QED
  BY <1>5, <1>6, <1>7

\* The sets of a state.
Record == [initialized : BOOLEAN, closed : BOOLEAN, borrowers : Int, account : Accounts,
           retained : Nat, entries : BOOLEAN, parent : Sets \cup {NoSet}]

\* The shapes after a step of process p.
LEMMA TypesStep ==
  ASSUME Types, NEW p \in Procs, Owing(todo'), OthersKeep(p),
         Unwinding(todo'[p]) \/ Calling(todo'[p]),
         set' \in [Sets -> Record], gauge' \in [Accounts -> Int], lease' \in [Procs -> Sets \cup {NoSet}]
  PROVE  Types'
<1>1. ASSUME NEW r \in Procs
      PROVE  \/ Unwinding(todo'[r])
             \/ \E kind \in {"import", "admit", "borrow"}, s \in Sets : Doing(r, kind, s)'
  <2>1. CASE r = p
    BY <2>1 DEF Calling, Doing
  <2>2. CASE r # p
    BY <2>2 DEF Types, Doing, OthersKeep
  <2> QED
    BY <2>1, <2>2
<1> QED
  BY <1>1 DEF Types, Owing, Record

\* A process whose call is under way.
LEMMA OthersDo ==
  ASSUME NEW p, OthersKeep(p), NEW r \in Procs \ {p}, NEW kind, NEW s
  PROVE  (Doing(r, kind, s)' <=> Doing(r, kind, s)) /\ (Constructs(r, s)' <=> Constructs(r, s))
BY DEF OthersKeep, Doing, Constructs

\* A set stays published when the process does not construct it.
LEMMA StaysPublished ==
  ASSUME Types, Types', NEW p \in Procs, OthersKeep(p), NEW s \in Sets, Published(s), set'[s].initialized,
         ~Constructs(p, s)'
  PROVE  Published(s)'
<1>1. Reading /\ Reading'
  BY Read, ReadNext
<1>2. \A r \in Procs : ~Constructs(r, s)'
  BY <1>1, OthersDo DEF Reading
<1> QED
  BY <1>1, <1>2 DEF Reading

\* A set is charged as before when the process does not admit it.
LEMMA StaysAdmitted ==
  ASSUME Types, Types', NEW p \in Procs, OthersKeep(p), NEW s \in Sets,
         Doing(p, "admit", s)' <=> Doing(p, "admit", s)
  PROVE  Admitted(s)' <=> Admitted(s)
<1>1. Reading /\ Reading'
  BY Read, ReadNext
<1>2. \A r \in Procs : Doing(r, "admit", s)' <=> Doing(r, "admit", s)
  BY OthersDo
<1> QED
  BY <1>1, <1>2 DEF Reading

\* Process p holds or asks for a lease.
Borrowing(p) == lease[p] # NoSet \/ \E s \in Sets : Doing(p, "borrow", s)

\* A process that borrows has the bytes of a lease.
LEMMA LentIs ==
  (Types => \A p \in Procs, a \in Accounts : Lent(p, a) = IF AccountOf[p] = a /\ Borrowing(p) THEN LeaseBytes ELSE 0)
<1> SUFFICES ASSUME Types, NEW p \in Procs, NEW a \in Accounts
             PROVE  Lent(p, a) = IF AccountOf[p] = a /\ Borrowing(p) THEN LeaseBytes ELSE 0
  OBVIOUS
<1>1. p \in Leased(a) <=> AccountOf[p] = a /\ Borrowing(p)
  BY Read DEF Leased, Borrowing, Reading, Idle
<1> QED
  BY <1>1 DEF Lent

\* The same of the next state.
LEMMA LentIsNext ==
  Types' => \A p \in Procs, a \in Accounts :
              Lent(p, a)' = IF AccountOf[p] = a /\ Borrowing(p)' THEN LeaseBytes ELSE 0
<1> SUFFICES ASSUME Types', NEW p \in Procs, NEW a \in Accounts
             PROVE  Lent(p, a)' = IF AccountOf[p] = a /\ Borrowing(p)' THEN LeaseBytes ELSE 0
  OBVIOUS
<1>1. (p \in Leased(a))' <=> AccountOf[p] = a /\ Borrowing(p)'
  BY ReadNext DEF Leased, Borrowing, Reading, Idle
<1> QED
  BY <1>1 DEF Lent

\* Whoever holds a borrow keeps the count above zero.
LEMMA Held ==
  ASSUME SetInv, NEW s \in Sets
  PROVE  /\ set[s].borrowers \in Nat
         /\ \A p \in Procs : lease[p] = s => set[s].borrowers >= 1
         /\ \A v \in Sets : set[v].parent = s => set[s].borrowers >= 1
         /\ Borrows(todo, s) >= 1 => set[s].borrowers >= 1
<1> DEFINE A == Leases(s)  B == Views(s)
<1>1. IsFiniteSet(A) /\ IsFiniteSet(B)
  BY SetAssumption, FS_Subset DEF Leases, Views
<1>2. /\ \A p \in Procs : lease[p] = s => p \in A
      /\ \A v \in Sets : set[v].parent = s => v \in B
  BY DEF Leases, Views
<1>3. set[s].borrowers = Cardinality(A) + Cardinality(B) + Borrows(todo, s) /\ Borrows(todo, s) \in Nat
  BY OwingCounts DEF SetInv, BorrowCount
<1> HIDE DEF A, B
<1>4. Cardinality(A) \in Nat /\ Cardinality(B) \in Nat
  BY <1>1, FS_CardinalityType
<1>5. ASSUME NEW p, p \in A PROVE Cardinality(A) # 0
  BY <1>1, <1>5, FS_EmptySet
<1>6. ASSUME NEW v, v \in B PROVE Cardinality(B) # 0
  BY <1>1, <1>6, FS_EmptySet
<1> QED
  BY <1>2, <1>3, <1>4, <1>5, <1>6

\* What is stable: a published set stays so.
Stable == \A s \in Sets : Published(s) => Published(s)'

\* What others construct is left alone, and so are the accounts of sets in use.
WorksAlone(p) ==
  /\ \A r \in Procs \ {p}, s \in Sets : Constructs(r, s) => set'[s] = set[s] /\ ~Constructs(p, s)'
  /\ \A s \in Sets : set[s].borrowers >= 1 => set'[s].account = set[s].account

\* What Constructions says of process p.
Constructing(p) ==
  /\ \A s \in Sets : Constructs(p, s) =>
       /\ set[s].initialized /\ ~set[s].closed /\ set[s].borrowers = 0
       /\ set[s].account = AccountOf[p]
       /\ Doing(p, "import", s) => set[s].parent = NoSet
  /\ \A s \in Sets : Doing(p, "borrow", s) => lease[p] = NoSet /\ Published(s)
  /\ lease[p] # NoSet => set[lease[p]].account = AccountOf[p]

\* Constructions after a step of process p.
LEMMA ConstructionsStep ==
  ASSUME SetInv, Types', NEW p \in Procs, OthersKeep(p), WorksAlone(p), Stable, Constructing(p)'
  PROVE  Constructions'
<1>1. ASSUME NEW r \in Procs, NEW s \in Sets, Constructs(r, s)'
      PROVE  /\ set'[s].initialized /\ ~set'[s].closed /\ set'[s].borrowers = 0
             /\ set'[s].account = AccountOf[r]
             /\ Doing(r, "import", s)' => set'[s].parent = NoSet
             /\ \A q \in Procs \ {r} : ~Constructs(q, s)'
  <2>1. CASE r = p
    <3>1. \A q \in Procs \ {r} : ~Constructs(q, s)'
      BY <1>1, <2>1, OthersDo DEF WorksAlone
    <3> QED
      BY <1>1, <2>1, <3>1 DEF Constructing
  <2>2. CASE r # p
    <3>1. Constructs(r, s) /\ set'[s] = set[s] /\ ~Constructs(p, s)' /\ (Doing(r, "import", s)' <=> Doing(r, "import", s))
      BY <1>1, <2>2, OthersDo DEF WorksAlone
    <3>2. \A q \in Procs \ {r} : ~Constructs(q, s)'
      BY <2>2, <3>1, OthersDo DEF SetInv, Constructions
    <3> QED
      BY <3>1, <3>2 DEF SetInv, Constructions
  <2> QED
    BY <2>1, <2>2
<1>2. ASSUME NEW r \in Procs, NEW s \in Sets, Doing(r, "borrow", s)'
      PROVE  lease'[r] = NoSet /\ Published(s)'
  <2>1. CASE r = p
    BY <1>2, <2>1 DEF Constructing
  <2>2. CASE r # p
    <3>1. Doing(r, "borrow", s) /\ lease'[r] = lease[r]
      BY <1>2, <2>2, OthersDo DEF OthersKeep
    <3> QED
      BY <3>1 DEF SetInv, Constructions, Stable
  <2> QED
    BY <2>1, <2>2
<1>3. ASSUME NEW r \in Procs, lease'[r] # NoSet
      PROVE  set'[lease'[r]].account = AccountOf[r]
  <2>1. CASE r = p
    BY <1>3, <2>1 DEF Constructing
  <2>2. CASE r # p
    <3>1. lease'[r] = lease[r] /\ lease[r] \in Sets
      BY <1>3, <2>2 DEF OthersKeep, SetInv, Types
    <3>2. set[lease[r]].borrowers >= 1
      BY <3>1, Held
    <3> QED
      BY <1>3, <3>1, <3>2 DEF WorksAlone, SetInv, Constructions
  <2> QED
    BY <2>1, <2>2
<1> QED
  BY <1>1, <1>2, <1>3 DEF Constructions

-----------------------------------------------------------------------------
(* The steps                                                                *)

\* NewDictionarySet: a charged set that only its constructor sees.
LEMMA NewStep ==
  ASSUME SetInv, NEW p \in Procs, NEW s \in Sets, NewDictionarySet(p, s, AccountOf[p])
  PROVE  SetInv' /\ Stable /\ OthersKeep(p) /\ Constructs(p, s)'
<1>1. /\ Idle(p) /\ ~set[s].initialized
      /\ todo' = [todo EXCEPT ![p] = <<<<"import", s>>>>]
      /\ set' = [set EXCEPT ![s] = Fresh(AccountOf[p], Bytes, NoSet)]
      /\ gauge' = [gauge EXCEPT ![AccountOf[p]] = @ + Bytes]
      /\ lease' = lease
  BY DEF NewDictionarySet, FirstFree
<1>2. /\ Owing(todo') /\ todo'[p] = <<<<"import", s>>>>
      /\ \A r \in Procs \ {p} : todo'[r] = todo[r]
      /\ \A z \in Sets : Borrows(todo', z) = Borrows(todo, z)
      /\ \A a \in Accounts : Due(todo', a) = Due(todo, a)
  BY <1>1, BeginCall
<1>k. OthersKeep(p)
  BY <1>1, <1>2 DEF OthersKeep
<1>3. /\ AccountOf[p] \in Accounts /\ Bytes \in Nat
      /\ set'[s] = Fresh(AccountOf[p], Bytes, NoSet) /\ set[s] = Unallocated
      /\ \A w \in Sets \ {s} : set'[w] = set[w]
  BY <1>1, SetAssumption DEF SetInv, Types, Records, Sound
<1>4. Types'
  <2>1. /\ set' \in [Sets -> Record]
        /\ gauge' \in [Accounts -> Int] /\ lease' \in [Procs -> Sets \cup {NoSet}]
    BY <1>1, <1>3 DEF SetInv, Types, Fresh, Record
  <2> QED
    BY <1>2, <1>k, <2>1, TypesStep DEF SetInv, Calling
<1>5. Records'
  BY <1>3 DEF SetInv, Records, Sound, Fresh
<1>6. /\ \A kind, z : Doing(p, kind, z)' <=> kind = "import" /\ z = s
      /\ \A kind, z : ~Doing(p, kind, z)
      /\ \A z : Constructs(p, z)' <=> z = s
  BY <1>1, <1>2 DEF Doing, Idle, Constructs
<1>7. Stable
  <2>1. ASSUME NEW z \in Sets, Published(z) PROVE Published(z)'
    <3>1. z # s /\ set'[z].initialized /\ ~Constructs(p, z)'
      BY <1>1, <1>3, <1>6, <2>1 DEF Published
    <3> QED
      BY <1>4, <1>k, <2>1, <3>1, StaysPublished DEF SetInv
  <2> QED
    BY <2>1 DEF Stable
<1>8. Constructions'
  <2>1. WorksAlone(p)
    <3>1. \A r \in Procs \ {p}, z \in Sets : Constructs(r, z) => z # s
      BY <1>1 DEF SetInv, Constructions
    <3>2. set[s].borrowers = 0
      BY <1>3 DEF Unallocated
    <3> QED
      BY <1>3, <1>6, <3>1, <3>2 DEF WorksAlone
  <2>2. Constructing(p)'
    <3>1. lease'[p] # NoSet => set'[lease'[p]].account = AccountOf[p]
      BY <1>1, <1>3 DEF SetInv, Types, Constructions, Fresh
    <3> QED
      BY <1>3, <1>6, <3>1 DEF Constructing, Fresh
  <2> QED
    BY <1>4, <1>7, <1>k, <2>1, <2>2, ConstructionsStep
<1>9. BorrowCount' /\ ByteCount'
  <2>1. SetsKeep(s)
    BY <1>3, <1>4, <1>6, <1>k, StaysAdmitted DEF SetInv, SetsKeep
  <2>2. BorrowsMove(p, s)
    <3>1. \A z \in Sets : set[z].borrowers \in Nat /\ Borrows(todo, z) \in Nat
      BY Held, OwingCounts DEF SetInv
    <3>2. set[s].parent = NoSet /\ set'[s].parent = NoSet /\ \A z \in Sets : set'[z].borrowers = set[z].borrowers
      BY <1>3 DEF Fresh, Unallocated
    <3>3. \A x, z : Is(x, z) \in Nat
      BY DEF Is
    <3>4. \A z \in Sets : set'[z].borrowers = set[z].borrowers - Is(lease[p], z) + Is(lease[p], z)
              - Is(NoSet, z) + Is(NoSet, z) - Borrows(todo, z) + Borrows(todo, z)
      BY <3>1, <3>2, <3>3
    <3> QED
      BY <1>1, <1>2, <3>2, <3>4 DEF BorrowsMove
  <2>3. BytesMove(p, s)
    <3>1. \A a \in Accounts : gauge[a] \in Int /\ Due(todo, a) \in Nat
      BY OwingCounts DEF SetInv, Types
    <3>2. \A a \in Accounts : Lent(p, a)' = Lent(p, a) /\ Lent(p, a) \in Nat
      BY <1>1, <1>4, <1>6, LentIs, LentIsNext, SetAssumption DEF Borrowing, SetInv
    <3>3. \A a \in Accounts : Charged(s, a) = 0
      BY <1>3 DEF Charged, Unallocated
    <3>4. Admitted(s)'
      <4>1. \A r \in Procs : ~Doing(r, "admit", s)'
        BY <1>1, <1>6, <1>k, OthersDo DEF SetInv, Constructions, Constructs
      <4> QED
        BY <1>4, <4>1, ReadNext DEF Reading
    <3>5. \A a \in Accounts : Charged(s, a)' = IF AccountOf[p] = a THEN Bytes ELSE 0
      BY <1>3, <3>4 DEF Charged, Fresh
    <3>6. \A a \in Accounts : gauge'[a] = gauge[a] + IF AccountOf[p] = a THEN Bytes ELSE 0
      BY <1>1, <1>3, <3>1 DEF SetInv, Types
    <3> QED
      BY <1>2, <1>3, <3>1, <3>2, <3>3, <3>5, <3>6 DEF BytesMove
  <2> QED
    BY <1>2, <1>4, <1>k, <2>1, <2>2, <2>3, CountStep
<1> QED
  BY <1>2, <1>4, <1>5, <1>6, <1>7, <1>8, <1>9, <1>k DEF SetInv

\* The borrows, when nothing moves.
LEMMA SameBorrows ==
  ASSUME SetInv, NEW p \in Procs, NEW v \in Sets, lease'[p] = lease[p], set'[v].parent = set[v].parent,
         \A z \in Sets : set'[z].borrowers = set[z].borrowers /\ Borrows(todo', z) = Borrows(todo, z)
  PROVE  BorrowsMove(p, v)
<1>1. \A z \in Sets : set[z].borrowers \in Nat /\ Borrows(todo, z) \in Nat
  BY Held, OwingCounts DEF SetInv
<1>2. \A x, z : Is(x, z) \in Nat
  BY DEF Is
<1>3. \A z \in Sets : set'[z].borrowers = set[z].borrowers - Is(lease[p], z) + Is(lease[p], z)
            - Is(set[v].parent, z) + Is(set[v].parent, z) - Borrows(todo, z) + Borrows(todo, z)
  BY <1>1, <1>2
<1> QED
  BY <1>3 DEF BorrowsMove

\* The step that a call under way has left.
LEMMA Underway ==
  ASSUME SetInv, NEW p \in Procs, ~Idle(p), Head(todo[p])[1] \in {"import", "admit", "borrow"}
  PROVE  Head(todo[p])[2] \in Sets /\ Doing(p, Head(todo[p])[1], Head(todo[p])[2])
<1>1. Shaped(todo[p]) /\ todo[p] # <<>>
  BY Read DEF SetInv, Reading, Idle
<1> QED
  BY <1>1, ListHead DEF Doing

\* A call that ends drops its step and owes nothing.
LEMMA EndCall ==
  ASSUME SetInv, NEW p \in Procs, NEW kind \in {"import", "admit", "borrow"}, NEW s \in Sets, Doing(p, kind, s)
  PROVE  /\ Owing(Popped(todo, p)) /\ Popped(todo, p)[p] = <<>>
         /\ \A r \in Procs \ {p} : Popped(todo, p)[r] = todo[r]
         /\ \A z \in Sets : Borrows(Popped(todo, p), z) = Borrows(todo, z)
         /\ \A a \in Accounts : Due(Popped(todo, p), a) = Due(todo, a)
<1> DEFINE e == Head(todo[p])
<1>1. todo \in [Procs -> Seq(Jobs)] /\ todo[p] # <<>> /\ e = <<kind, s>> /\ Tail(todo[p]) = <<>>
  BY DEF SetInv, Types, Doing
<1>2. Popped(todo, p)[p] = <<>> /\ \A r \in Procs \ {p} : Popped(todo, p)[r] = todo[r]
  BY <1>1 DEF Popped
<1>3. (\A z \in Sets : e # <<"releaseView", z>>) /\ (\A a \in Accounts : Worth(e, a) = 0)
  BY <1>1 DEF Worth
<1>4. Owing(todo) /\ (\A z \in Sets : Borrows(todo, z) \in Nat) /\ (\A a \in Accounts : Due(todo, a) \in Nat)
  BY OwingCounts DEF SetInv
<1>5. /\ Owing(Popped(todo, p))
      /\ \A z \in Sets : Borrows(Popped(todo, p), z) = Borrows(todo, z) - Bit(e = <<"releaseView", z>>)
      /\ \A a \in Accounts : Due(Popped(todo, p), a) = Due(todo, a) - Worth(e, a)
  BY <1>1, <1>4, OwePop
<1> HIDE DEF e
<1>6. \A z \in Sets : Bit(e = <<"releaseView", z>>) = 0
  BY <1>3 DEF Bit
<1>7. \A n \in Nat : n - 0 = n
  OBVIOUS
<1>8. /\ \A z \in Sets : Borrows(Popped(todo, p), z) = Borrows(todo, z)
      /\ \A a \in Accounts : Due(Popped(todo, p), a) = Due(todo, a)
  BY <1>3, <1>4, <1>5, <1>6, <1>7
<1> QED
  BY <1>2, <1>5, <1>8

\* A list that only gives back is no call under way.
LEMMA Returning ==
  ASSUME NEW p, Unwinding(todo'[p])
  PROVE  /\ \A kind \in {"import", "admit", "borrow"} : \A z : ~Doing(p, kind, z)'
         /\ \A z : ~Constructs(p, z)'
<1>1. ASSUME NEW kind \in {"import", "admit", "borrow"}, NEW z, todo'[p] = <<<<kind, z>>>> PROVE FALSE
  <2>1. Len(todo'[p]) = 1 /\ todo'[p][1] = <<kind, z>>
    BY <1>1
  <2> QED
    BY <2>1 DEF Unwinding
<1> QED
  BY <1>1 DEF Doing, Constructs

\* The end of an import: the set is published, or dropped and its bytes
\* released.
LEMMA EndImportStep ==
  ASSUME SetInv, NEW p \in Procs, NEW ok \in BOOLEAN, EndImport(p, ok)
  PROVE  /\ SetInv' /\ Stable /\ OthersKeep(p)
         /\ ok => \A s \in Sets : Constructs(p, s) => Published(s)'
<1>a. ~Idle(p) /\ Head(todo[p])[1] = "import"
  BY DEF EndImport
<1>2. PICK s \in Sets : s = Head(todo[p])[2] /\ Doing(p, "import", s)
  BY <1>a, Underway
<1>1. /\ ~Idle(p) /\ Head(todo[p])[1] = "import"
      /\ ok => set' = set /\ gauge' = gauge
      /\ ~ok => /\ set' = [set EXCEPT ![s] = Unallocated]
                /\ gauge' = [gauge EXCEPT ![set[s].account] = @ - set[s].retained]
      /\ todo' = Popped(todo, p)
      /\ lease' = lease
  BY <1>2 DEF EndImport, Popped
<1>3. /\ Owing(todo') /\ todo'[p] = <<>>
      /\ \A r \in Procs \ {p} : todo'[r] = todo[r]
      /\ \A z \in Sets : Borrows(todo', z) = Borrows(todo, z)
      /\ \A a \in Accounts : Due(todo', a) = Due(todo, a)
  BY <1>1, <1>2, EndCall
<1>k. OthersKeep(p)
  BY <1>1, <1>3 DEF OthersKeep
<1>u. Unwinding(todo'[p])
  BY <1>3 DEF Unwinding
<1>4. /\ AccountOf[p] \in Accounts
      /\ set[s].initialized /\ ~set[s].closed /\ set[s].borrowers = 0
      /\ set[s].account = AccountOf[p] /\ set[s].parent = NoSet
      /\ \A r \in Procs \ {p} : ~Constructs(r, s)
  BY <1>2, SetAssumption DEF SetInv, Constructions, Constructs
<1>5. /\ ok => set'[s] = set[s]
      /\ ~ok => set'[s] = Unallocated
      /\ \A w \in Sets \ {s} : set'[w] = set[w]
  BY <1>1, <1>2 DEF SetInv, Types
<1>6. Types'
  <2>1. /\ set' \in [Sets -> Record]
        /\ gauge' \in [Accounts -> Int] /\ lease' \in [Procs -> Sets \cup {NoSet}]
    <3>1. Unallocated \in Record /\ set \in [Sets -> Record]
      BY <1>4 DEF SetInv, Types, Unallocated, Record
    <3>2. gauge \in [Accounts -> Int] /\ set[s].retained \in Nat /\ lease \in [Procs -> Sets \cup {NoSet}]
      BY <1>2 DEF SetInv, Types
    <3> QED
      BY <1>1, <1>2, <1>4, <3>1, <3>2
  <2> QED
    BY <1>3, <1>k, <1>u, <2>1, TypesStep DEF SetInv
<1>7. Records'
  BY <1>2, <1>5 DEF SetInv, Records, Sound, Unallocated
<1>8. /\ \A kind \in {"import", "admit", "borrow"} : \A z : ~Doing(p, kind, z)'
      /\ \A z : ~Constructs(p, z)'
      /\ \A z : ~Doing(p, "admit", z) /\ ~Doing(p, "borrow", z) /\ (Doing(p, "import", z) <=> z = s)
  BY <1>2, <1>u, Returning DEF Doing
<1>9. Stable
  <2>1. ASSUME NEW z \in Sets, Published(z) PROVE Published(z)'
    <3>1. z # s
      BY <1>2, <2>1, Read DEF SetInv, Reading, Constructs
    <3>2. set'[z].initialized
      BY <1>5, <2>1, <3>1 DEF Published
    <3> QED
      BY <1>6, <1>8, <1>k, <2>1, <3>2, StaysPublished DEF SetInv
  <2> QED
    BY <2>1 DEF Stable
<1>10. Constructions'
  <2>1. WorksAlone(p)
    BY <1>4, <1>5, <1>8 DEF WorksAlone
  <2>2. Constructing(p)'
    <3>1. ASSUME lease[p] # NoSet PROVE lease[p] \in Sets \ {s} /\ set[lease[p]].account = AccountOf[p]
      <4>1. lease[p] \in Sets /\ set[lease[p]].borrowers >= 1
        BY <3>1, Held DEF SetInv, Types
      <4> QED
        BY <1>4, <3>1, <4>1 DEF SetInv, Constructions
    <3> QED
      BY <1>1, <1>5, <1>8, <3>1 DEF Constructing
  <2> QED
    BY <1>6, <1>9, <1>k, <2>1, <2>2, ConstructionsStep
<1>11. BorrowCount' /\ ByteCount'
  <2>1. SetsKeep(s)
    BY <1>5, <1>6, <1>8, <1>k, StaysAdmitted DEF SetInv, SetsKeep
  <2>2. BorrowsMove(p, s)
    <3>1. set'[s].parent = set[s].parent /\ \A z \in Sets : set'[z].borrowers = set[z].borrowers
      BY <1>4, <1>5 DEF Unallocated
    <3> QED
      BY <1>1, <1>2, <1>3, <3>1, SameBorrows
  <2>3. BytesMove(p, s)
    <3>1. /\ \A a \in Accounts : gauge[a] \in Int /\ Due(todo, a) \in Nat
          /\ set[s].retained \in Nat
      BY <1>2, OwingCounts DEF SetInv, Types
    <3>2. \A a \in Accounts : Lent(p, a)' = Lent(p, a) /\ Lent(p, a) \in Nat
      BY <1>1, <1>6, <1>8, LentIs, LentIsNext, SetAssumption DEF Borrowing, SetInv
    <3>3. Admitted(s) /\ Admitted(s)'
      <4>1. \A r \in Procs : ~Doing(r, "admit", s)
        BY <1>4, <1>8 DEF Constructs
      <4>2. \A r \in Procs : ~Doing(r, "admit", s)'
        BY <1>8, <1>k, <4>1, OthersDo
      <4> QED
        BY <1>2, <1>6, <4>1, <4>2, Read, ReadNext DEF SetInv, Reading
    <3>4. \A a \in Accounts : Charged(s, a) = IF AccountOf[p] = a THEN set[s].retained ELSE 0
      BY <1>4, <3>3 DEF Charged
    <3>5. CASE ok
      <4>1. \A a \in Accounts : Charged(s, a)' = Charged(s, a) /\ Charged(s, a) \in Nat
        BY <1>5, <3>1, <3>3, <3>5 DEF Charged
      <4>2. \A a \in Accounts : gauge[a] = gauge[a] - Charged(s, a) + Charged(s, a) - Lent(p, a) + Lent(p, a)
                                             - Due(todo, a) + Due(todo, a)
        BY <3>1, <3>2, <4>1
      <4> QED
        BY <1>1, <1>3, <3>2, <3>5, <4>1, <4>2 DEF BytesMove
    <3>6. CASE ~ok
      <4>1. \A a \in Accounts : Charged(s, a)' = 0
        BY <1>5, <3>6 DEF Charged, Unallocated
      <4>2. \A a \in Accounts : gauge'[a] = gauge[a] - IF AccountOf[p] = a THEN set[s].retained ELSE 0
        BY <1>1, <1>4, <3>1, <3>6 DEF SetInv, Types
      <4> DEFINE n(a) == IF AccountOf[p] = a THEN set[s].retained ELSE 0
      <4>3. \A a \in Accounts : n(a) \in Nat /\ gauge'[a] = gauge[a] - n(a) /\ Charged(s, a) = n(a)
        BY <3>1, <3>4, <4>2
      <4> HIDE DEF n
      <4>4. \A a \in Accounts : gauge'[a] = gauge[a] - Charged(s, a) + 0 - Lent(p, a) + Lent(p, a) - Due(todo, a) + Due(todo, a)
        BY <3>1, <3>2, <4>3
      <4> QED
        BY <1>3, <3>2, <4>1, <4>4 DEF BytesMove
    <3> QED
      BY <3>5, <3>6
  <2> QED
    BY <1>2, <1>3, <1>6, <1>k, <2>1, <2>2, <2>3, CountStep
<1>12. ASSUME ok, NEW z \in Sets, Constructs(p, z) PROVE Published(z)'
  <2>1. z = s
    BY <1>8, <1>12 DEF Constructs
  <2>2. set'[z].initialized /\ \A r \in Procs : ~Constructs(r, z)'
    BY <1>4, <1>5, <1>8, <1>12, <1>k, <2>1, OthersDo
  <2> QED
    BY <1>6, <2>2, ReadNext DEF Reading
<1> QED
  BY <1>3, <1>6, <1>7, <1>9, <1>10, <1>11, <1>12, <1>k DEF SetInv

\* The amounts that are counted.
LEMMA Amounts ==
  ASSUME SetInv
  PROVE  /\ \A z \in Sets : /\ set[z].borrowers \in Nat /\ Borrows(todo, z) \in Nat
                            /\ set[z].retained \in Nat /\ set[z].account \in Accounts
                            /\ set[z].parent \in Sets \cup {NoSet}
         /\ \A a \in Accounts : gauge[a] \in Int /\ Due(todo, a) \in Nat
         /\ \A p \in Procs, a \in Accounts : Lent(p, a) \in Nat
         /\ \A z \in Sets, a \in Accounts : Charged(z, a) \in Nat
         /\ \A x, z : Is(x, z) \in Nat
         /\ \A z \in Sets : Is(NoSet, z) = 0
         /\ LeaseBytes \in Nat /\ Bytes \in Nat /\ \A p \in Procs : AccountOf[p] \in Accounts
<1>1. \A z \in Sets : /\ set[z].borrowers \in Nat /\ Borrows(todo, z) \in Nat
                      /\ set[z].retained \in Nat /\ set[z].account \in Accounts
                      /\ set[z].parent \in Sets \cup {NoSet}
  BY Held, OwingCounts DEF SetInv, Types
<1>2. \A a \in Accounts : gauge[a] \in Int /\ Due(todo, a) \in Nat
  BY OwingCounts DEF SetInv, Types
<1>3. \A z \in Sets, a \in Accounts : Charged(z, a) \in Nat
  BY <1>1 DEF Charged
<1> QED
  BY <1>1, <1>2, <1>3, SetAssumption DEF Lent, Is

\* The bytes, when nothing moves.
LEMMA SameBytes ==
  ASSUME SetInv, NEW p \in Procs, NEW v \in Sets, gauge' = gauge,
         \A a \in Accounts : /\ Charged(v, a)' = Charged(v, a) /\ Lent(p, a)' = Lent(p, a)
                             /\ Due(todo', a) = Due(todo, a)
  PROVE  BytesMove(p, v)
<1>1. \A a \in Accounts : gauge[a] \in Int /\ Due(todo, a) \in Nat /\ Lent(p, a) \in Nat /\ Charged(v, a) \in Nat
  BY Amounts
<1>2. \A a \in Accounts : gauge[a] = gauge[a] - Charged(v, a) + Charged(v, a) - Lent(p, a) + Lent(p, a)
                                       - Due(todo, a) + Due(todo, a)
  BY <1>1
<1> QED
  BY <1>2 DEF BytesMove

\* A lease is worth the same when it stays.
LEMMA SameLent ==
  ASSUME Types, Types', NEW p \in Procs, Borrowing(p)' <=> Borrowing(p)
  PROVE  \A a \in Accounts : Lent(p, a)' = Lent(p, a)
BY LentIs, LentIsNext

\* A session holds a lease of a set of its account.
LEMMA Leaseholder ==
  ASSUME SetInv, NEW p \in Procs, lease[p] # NoSet
  PROVE  /\ lease[p] \in Sets /\ set[lease[p]].account = AccountOf[p]
         /\ set[lease[p]].borrowers \in Nat /\ set[lease[p]].borrowers >= 1
<1>1. lease[p] \in Sets /\ set[lease[p]].account = AccountOf[p]
  BY DEF SetInv, Types, Constructions
<1> QED
  BY <1>1, Held

\* shareDictionarySet: the view takes one borrow of its parent.
LEMMA ShareStep ==
  ASSUME SetInv, NEW p \in Procs, NEW q \in Sets, NEW v \in Sets, Published(q), shareDictionarySet(p, q, v)
  PROVE  SetInv' /\ Stable /\ OthersKeep(p) /\ Constructs(p, v)'
<1>1. /\ Idle(p) /\ ~set[v].initialized
      /\ set[q].initialized /\ ~set[q].closed /\ q # v
      /\ todo' = [todo EXCEPT ![p] = <<<<"admit", v>>>>]
      /\ set' = [set EXCEPT ![q].borrowers = @ + 1, ![v] = Fresh(AccountOf[p], set[q].retained, q)]
      /\ gauge' = gauge /\ lease' = lease
  BY DEF shareDictionarySet, FirstFree
<1>2. /\ Owing(todo') /\ todo'[p] = <<<<"admit", v>>>>
      /\ \A r \in Procs \ {p} : todo'[r] = todo[r]
      /\ \A z \in Sets : Borrows(todo', z) = Borrows(todo, z)
      /\ \A a \in Accounts : Due(todo', a) = Due(todo, a)
  BY <1>1, BeginCall
<1>k. OthersKeep(p)
  BY <1>1, <1>2 DEF OthersKeep
<1>a. /\ AccountOf[p] \in Accounts /\ set[q].retained \in Nat /\ set[q].borrowers \in Nat
      /\ \A z \in Sets : set[z].borrowers \in Nat /\ Is(NoSet, z) = 0 /\ Borrows(todo, z) \in Nat
      /\ \A x, z : Is(x, z) \in Nat
  BY Amounts
<1>3. /\ set'[v] = Fresh(AccountOf[p], set[q].retained, q) /\ set[v] = Unallocated
      /\ set'[q] = [set[q] EXCEPT !.borrowers = @ + 1]
      /\ \A w \in Sets \ {q, v} : set'[w] = set[w]
  BY <1>1 DEF SetInv, Types, Records, Sound
<1>b. \A w \in Sets \ {v} : /\ set'[w].initialized = set[w].initialized /\ set'[w].closed = set[w].closed
                            /\ set'[w].account = set[w].account /\ set'[w].retained = set[w].retained
                            /\ set'[w].entries = set[w].entries /\ set'[w].parent = set[w].parent
                            /\ set'[w].borrowers = set[w].borrowers + Is(q, w)
  <2>1. set[q] \in Record
    BY DEF SetInv, Types, Record
  <2>2. /\ set'[q].initialized = set[q].initialized /\ set'[q].closed = set[q].closed
        /\ set'[q].account = set[q].account /\ set'[q].retained = set[q].retained
        /\ set'[q].entries = set[q].entries /\ set'[q].parent = set[q].parent
        /\ set'[q].borrowers = set[q].borrowers + 1
    BY <1>3, <2>1 DEF Record
  <2>3. \A w \in Sets \ {q, v} : set[w].borrowers = set[w].borrowers + 0
    BY <1>a
  <2> QED
    BY <1>3, <2>2, <2>3 DEF Is
<1>q. /\ q # v /\ set[q].initialized /\ ~set[q].closed
      /\ set'[q].initialized /\ ~set'[q].closed /\ set'[q].entries = set[q].entries
      /\ set'[q].borrowers # 0
  <2>1. q # v /\ set[q].initialized /\ ~set[q].closed
    BY <1>1
  <2>2. set'[q].borrowers = set[q].borrowers + Is(q, q) /\ Is(q, q) = 1
    BY <1>b, <2>1 DEF Is
  <2> QED
    BY <1>a, <1>b, <2>1, <2>2
<1>4. Types'
  <2>1. set' \in [Sets -> Record]
    <3>1. set \in [Sets -> Record] /\ Fresh(AccountOf[p], set[q].retained, q) \in Record
      BY <1>a DEF SetInv, Types, Fresh, Record
    <3>2. [set[q] EXCEPT !.borrowers = @ + 1] \in Record
      BY <1>a, <3>1 DEF Record
    <3> QED
      BY <1>1, <1>3, <3>1, <3>2
  <2>2. gauge' \in [Accounts -> Int] /\ lease' \in [Procs -> Sets \cup {NoSet}]
    BY <1>1 DEF SetInv, Types
  <2> QED
    BY <1>2, <1>k, <2>1, <2>2, TypesStep DEF SetInv, Calling
<1>5. Records'
  <2>1. set[q].entries
    BY <1>1 DEF SetInv, Records, Sound
  <2>2. Sound(set'[v])
    BY <1>3 DEF Sound, Fresh
  <2>3. Sound(set'[q])
    BY <1>q, <2>1 DEF Sound
  <2> QED
    BY <1>3, <2>2, <2>3 DEF SetInv, Records
<1>6. /\ \A z : ~Doing(p, "import", z)' /\ ~Doing(p, "borrow", z)' /\ (Doing(p, "admit", z)' <=> z = v)
      /\ \A z : ~Doing(p, "import", z) /\ ~Doing(p, "borrow", z) /\ ~Doing(p, "admit", z)
      /\ \A z : Constructs(p, z)' <=> z = v
  BY <1>1, <1>2 DEF Doing, Idle, Constructs
<1>7. Stable
  <2>1. ASSUME NEW z \in Sets, Published(z) PROVE Published(z)'
    <3>1. z # v /\ set'[z].initialized /\ ~Constructs(p, z)'
      BY <1>1, <1>b, <1>6, <2>1 DEF Published
    <3> QED
      BY <1>4, <1>k, <2>1, <3>1, StaysPublished DEF SetInv
  <2> QED
    BY <2>1 DEF Stable
<1>8. Constructions'
  <2>1. WorksAlone(p)
    <3>1. \A r \in Procs \ {p}, z \in Sets : Constructs(r, z) => z # v /\ z # q
      BY <1>1, Read DEF SetInv, Constructions, Reading
    <3>2. set[v].borrowers = 0
      BY <1>3 DEF Unallocated
    <3>3. ASSUME NEW z \in Sets, set[z].borrowers >= 1 PROVE set'[z].account = set[z].account
      <4>1. z # v
        BY <3>2, <3>3
      <4> QED
        BY <1>b, <4>1
    <3> QED
      BY <1>3, <1>6, <3>1, <3>3 DEF WorksAlone
  <2>2. Constructing(p)'
    <3>1. ASSUME lease[p] # NoSet PROVE set'[lease[p]].account = AccountOf[p]
      <4>1. lease[p] \in Sets /\ set[lease[p]].account = AccountOf[p]
        BY <3>1, Leaseholder
      <4>2. CASE lease[p] = v
        BY <1>3, <4>2 DEF Fresh
      <4> QED
        BY <1>b, <4>1, <4>2
    <3>2. lease'[p] # NoSet => set'[lease'[p]].account = AccountOf[p]
      BY <1>1, <3>1
    <3> QED
      BY <1>3, <1>6, <3>2 DEF Constructing, Fresh
  <2> QED
    BY <1>4, <1>7, <1>k, <2>1, <2>2, ConstructionsStep
<1>9. BorrowCount' /\ ByteCount'
  <2>1. SetsKeep(v)
    BY <1>b, <1>4, <1>6, <1>k, StaysAdmitted DEF SetInv, SetsKeep
  <2>2. BorrowsMove(p, v)
    <3>1. set[v].parent = NoSet /\ set'[v].parent = q
      BY <1>3 DEF Fresh, Unallocated
    <3>2. \A z \in Sets : set'[z].borrowers = set[z].borrowers + Is(q, z)
      <4>1. set'[v].borrowers = 0 /\ set[v].borrowers = 0 /\ Is(q, v) = 0
        BY <1>1, <1>3 DEF Fresh, Unallocated, Is
      <4> QED
        BY <1>b, <4>1
    <3>3. \A z \in Sets : set'[z].borrowers = set[z].borrowers - Is(lease[p], z) + Is(lease[p], z)
              - Is(NoSet, z) + Is(q, z) - Borrows(todo, z) + Borrows(todo, z)
      BY <1>a, <3>2
    <3> QED
      BY <1>1, <1>2, <3>1, <3>3 DEF BorrowsMove
  <2>3. BytesMove(p, v)
    <3>1. \A a \in Accounts : Lent(p, a)' = Lent(p, a)
      BY <1>1, <1>4, <1>6, SameLent DEF Borrowing, SetInv
    <3>2. ~Admitted(v)'
      BY <1>4, <1>6, ReadNext DEF Reading
    <3>3. \A a \in Accounts : Charged(v, a)' = Charged(v, a)
      BY <1>3, <3>2 DEF Charged, Unallocated
    <3> QED
      BY <1>1, <1>2, <3>1, <3>3, SameBytes
  <2> QED
    BY <1>2, <1>4, <1>k, <2>1, <2>2, <2>3, CountStep
<1> QED
  BY <1>2, <1>4, <1>5, <1>6, <1>7, <1>8, <1>9, <1>k DEF SetInv

\* A view borrow that goes back in place of the one step of a call.
LEMMA ReplaceByReturn ==
  ASSUME SetInv, NEW p \in Procs, NEW kind \in {"import", "admit", "borrow"}, NEW s \in Sets, Doing(p, kind, s),
         NEW q \in Sets \cup {NoSet}, todo' = [todo EXCEPT ![p] = ReleaseView(q)]
  PROVE  /\ Owing(todo') /\ Unwinding(todo'[p])
         /\ \A r \in Procs \ {p} : todo'[r] = todo[r]
         /\ \A z \in Sets : Borrows(todo', z) = Borrows(todo, z) + Is(q, z)
         /\ \A a \in Accounts : Due(todo', a) = Due(todo, a)
<1> DEFINE u == Popped(todo, p)
<1>1. /\ Owing(u) /\ u[p] = <<>>
      /\ \A r \in Procs \ {p} : u[r] = todo[r]
      /\ \A z \in Sets : Borrows(u, z) = Borrows(todo, z)
      /\ \A a \in Accounts : Due(u, a) = Due(todo, a)
  BY EndCall
<1>2. AddReturn(u, p, q) = todo'
  <2>1. ReleaseView(q) \o <<>> = ReleaseView(q)
    BY DEF ReleaseView
  <2>2. todo \in [Procs -> Seq(Jobs)]
    BY DEF SetInv, Types
  <2> QED
    BY <1>1, <2>1, <2>2 DEF AddReturn, Popped
<1> HIDE DEF u
<1>3. Unwinding(u[p])
  BY <1>1 DEF Unwinding
<1>4. /\ Owing(AddReturn(u, p, q))
      /\ \A z \in Sets : Borrows(AddReturn(u, p, q), z) = Borrows(u, z) + Is(q, z)
      /\ \A b \in Accounts : Due(AddReturn(u, p, q), b) = Due(u, b)
      /\ Unwinding(u[p]) => Unwinding(AddReturn(u, p, q)[p])
      /\ \A r \in Procs \ {p} : AddReturn(u, p, q)[r] = u[r]
  BY <1>1, OweReturn
<1> QED
  BY <1>1, <1>2, <1>3, <1>4

\* The charge of a view: a refused one gives the borrow of the parent back.
LEMMA AdmitStep ==
  ASSUME SetInv, NEW p \in Procs, NEW ok \in BOOLEAN, AdmitView(p, ok)
  PROVE  /\ SetInv' /\ Stable /\ OthersKeep(p)
         /\ ok => \A s \in Sets : Constructs(p, s) => Published(s)'
<1>a. ~Idle(p) /\ Head(todo[p])[1] = "admit"
  BY DEF AdmitView
<1>2. PICK s \in Sets : s = Head(todo[p])[2] /\ Doing(p, "admit", s)
  BY <1>a, Underway
<1>1. /\ ok => /\ set' = set /\ todo' = Popped(todo, p)
               /\ gauge' = [gauge EXCEPT ![AccountOf[p]] = @ + set[s].retained]
      /\ ~ok => /\ set' = [set EXCEPT ![s] = Unallocated]
                /\ todo' = [todo EXCEPT ![p] = ReleaseView(set[s].parent)]
                /\ gauge' = gauge
      /\ lease' = lease
  BY <1>2 DEF AdmitView, Popped
<1>4. /\ AccountOf[p] \in Accounts
      /\ set[s].initialized /\ ~set[s].closed /\ set[s].borrowers = 0
      /\ set[s].account = AccountOf[p] /\ set[s].parent \in Sets \cup {NoSet} /\ set[s].retained \in Nat
      /\ \A r \in Procs \ {p} : ~Constructs(r, s)
  BY <1>2, Amounts DEF SetInv, Constructions, Constructs
<1>3. /\ Owing(todo') /\ Unwinding(todo'[p])
      /\ \A r \in Procs \ {p} : todo'[r] = todo[r]
      /\ ok => \A z \in Sets : Borrows(todo', z) = Borrows(todo, z)
      /\ ~ok => \A z \in Sets : Borrows(todo', z) = Borrows(todo, z) + Is(set[s].parent, z)
      /\ \A a \in Accounts : Due(todo', a) = Due(todo, a)
  <2>1. CASE ok
    <3>1. /\ Owing(Popped(todo, p)) /\ Popped(todo, p)[p] = <<>>
          /\ \A r \in Procs \ {p} : Popped(todo, p)[r] = todo[r]
          /\ \A z \in Sets : Borrows(Popped(todo, p), z) = Borrows(todo, z)
          /\ \A a \in Accounts : Due(Popped(todo, p), a) = Due(todo, a)
      BY <1>2, EndCall
    <3>2. Unwinding(Popped(todo, p)[p])
      BY <3>1 DEF Unwinding
    <3> QED
      BY <1>1, <2>1, <3>1, <3>2
  <2>2. CASE ~ok
    <3>1. todo' = [todo EXCEPT ![p] = ReleaseView(set[s].parent)]
      BY <1>1, <2>2
    <3> QED
      BY <1>2, <1>4, <2>2, <3>1, ReplaceByReturn
  <2> QED
    BY <2>1, <2>2
<1>k. OthersKeep(p)
  BY <1>1, <1>3 DEF OthersKeep
<1>5. /\ ok => set'[s] = set[s]
      /\ ~ok => set'[s] = Unallocated
      /\ \A w \in Sets \ {s} : set'[w] = set[w]
  BY <1>1, <1>2 DEF SetInv, Types
<1>6. Types'
  <2>1. /\ set' \in [Sets -> Record]
        /\ gauge' \in [Accounts -> Int] /\ lease' \in [Procs -> Sets \cup {NoSet}]
    <3>1. Unallocated \in Record /\ set \in [Sets -> Record]
      BY <1>4 DEF SetInv, Types, Unallocated, Record
    <3>2. gauge \in [Accounts -> Int] /\ lease \in [Procs -> Sets \cup {NoSet}]
      BY <1>2 DEF SetInv, Types
    <3> QED
      BY <1>1, <1>2, <1>4, <3>1, <3>2
  <2> QED
    BY <1>3, <1>k, <2>1, TypesStep DEF SetInv
<1>7. Records'
  BY <1>2, <1>5 DEF SetInv, Records, Sound, Unallocated
<1>8. /\ \A z : ~Doing(p, "import", z)' /\ ~Doing(p, "admit", z)' /\ ~Doing(p, "borrow", z)'
      /\ \A z : ~Constructs(p, z)'
      /\ \A z : ~Doing(p, "import", z) /\ ~Doing(p, "borrow", z) /\ (Doing(p, "admit", z) <=> z = s)
  BY <1>2, <1>3, Returning DEF Doing
<1>9. Stable
  <2>1. ASSUME NEW z \in Sets, Published(z) PROVE Published(z)'
    <3>1. z # s
      BY <1>2, <2>1, Read DEF SetInv, Reading, Constructs
    <3>2. set'[z].initialized
      BY <1>5, <2>1, <3>1 DEF Published
    <3> QED
      BY <1>6, <1>8, <1>k, <2>1, <3>2, StaysPublished DEF SetInv
  <2> QED
    BY <2>1 DEF Stable
<1>10. Constructions'
  <2>1. WorksAlone(p)
    BY <1>4, <1>5, <1>8 DEF WorksAlone
  <2>2. Constructing(p)'
    <3>1. ASSUME lease[p] # NoSet PROVE lease[p] \in Sets \ {s} /\ set[lease[p]].account = AccountOf[p]
      BY <1>4, <3>1, Leaseholder
    <3> QED
      BY <1>1, <1>5, <1>8, <3>1 DEF Constructing
  <2> QED
    BY <1>6, <1>9, <1>k, <2>1, <2>2, ConstructionsStep
<1>p. ok => \A r \in Procs : ~Constructs(r, s)'
  BY <1>4, <1>8, <1>k, OthersDo
<1>11. BorrowCount' /\ ByteCount'
  <2>1. SetsKeep(s)
    BY <1>5, <1>6, <1>8, <1>k, StaysAdmitted DEF SetInv, SetsKeep
  <2>a. /\ \A z \in Sets : set[z].borrowers \in Nat /\ Borrows(todo, z) \in Nat /\ Is(NoSet, z) = 0
        /\ \A x, z : Is(x, z) \in Nat
        /\ \A a \in Accounts : gauge[a] \in Int /\ Due(todo, a) \in Nat /\ Lent(p, a) \in Nat
    BY Amounts
  <2>b. \A z \in Sets : set'[z].borrowers = set[z].borrowers
    BY <1>4, <1>5 DEF Unallocated
  <2>2. BorrowsMove(p, s)
    <3>1. CASE ok
      <4>1. set'[s].parent = set[s].parent
        BY <1>5, <3>1
      <4> QED
        BY <1>1, <1>2, <1>3, <2>b, <3>1, <4>1, SameBorrows
    <3>2. CASE ~ok
      <4>1. set'[s].parent = NoSet /\ lease'[p] = lease[p]
        BY <1>1, <1>5, <3>2 DEF Unallocated
      <4>2. \A z \in Sets : set[z].borrowers = set[z].borrowers - Is(lease[p], z) + Is(lease[p], z)
              - Is(set[s].parent, z) + Is(NoSet, z) - Borrows(todo, z) + (Borrows(todo, z) + Is(set[s].parent, z))
        BY <2>a
      <4> QED
        BY <1>3, <2>b, <3>2, <4>1, <4>2 DEF BorrowsMove
    <3> QED
      BY <3>1, <3>2
  <2>3. BytesMove(p, s)
    <3>1. \A a \in Accounts : Lent(p, a)' = Lent(p, a)
      BY <1>1, <1>6, <1>8, SameLent DEF Borrowing, SetInv
    <3>2. ~Admitted(s)
      BY <1>2, Read DEF SetInv, Reading
    <3>3. \A a \in Accounts : Charged(s, a) = 0
      BY <3>2 DEF Charged
    <3>4. CASE ok
      <4>1. Admitted(s)'
        BY <1>2, <1>6, <1>p, <3>4, ReadNext DEF Reading, Constructs
      <4>2. \A a \in Accounts : Charged(s, a)' = IF AccountOf[p] = a THEN set[s].retained ELSE 0
        BY <1>4, <1>5, <3>4, <4>1 DEF Charged
      <4>3. \A a \in Accounts : gauge'[a] = gauge[a] + IF AccountOf[p] = a THEN set[s].retained ELSE 0
        BY <1>1, <1>4, <2>a, <3>4 DEF SetInv, Types
      <4> DEFINE n(a) == IF AccountOf[p] = a THEN set[s].retained ELSE 0
      <4>4. \A a \in Accounts : n(a) \in Nat /\ gauge'[a] = gauge[a] + n(a) /\ Charged(s, a)' = n(a)
        BY <1>4, <4>2, <4>3
      <4> HIDE DEF n
      <4>5. \A a \in Accounts : gauge'[a] = gauge[a] - 0 + Charged(s, a)' - Lent(p, a) + Lent(p, a) - Due(todo, a) + Due(todo, a)
        BY <2>a, <4>4
      <4> QED
        BY <1>3, <3>1, <3>3, <4>5 DEF BytesMove
    <3>5. CASE ~ok
      <4>1. \A a \in Accounts : Charged(s, a)' = Charged(s, a)
        BY <1>5, <3>3, <3>5 DEF Charged, Unallocated
      <4> QED
        BY <1>1, <1>2, <1>3, <3>1, <3>5, <4>1, SameBytes
    <3> QED
      BY <3>4, <3>5
  <2> QED
    BY <1>2, <1>3, <1>6, <1>k, <2>1, <2>2, <2>3, CountStep
<1>12. ASSUME ok, NEW z \in Sets, Constructs(p, z) PROVE Published(z)'
  <2>1. z = s
    BY <1>8, <1>12 DEF Constructs
  <2>2. set'[z].initialized /\ \A r \in Procs : ~Constructs(r, z)'
    BY <1>4, <1>5, <1>12, <1>p, <2>1
  <2> QED
    BY <1>6, <2>2, ReadNext DEF Reading
<1> QED
  BY <1>3, <1>6, <1>7, <1>9, <1>10, <1>11, <1>12, <1>k DEF SetInv

\* The charge before a borrow.
LEMMA ChargeLeaseStep ==
  ASSUME SetInv, NEW p \in Procs, NEW s \in Sets, Published(s), ChargeLease(p, s)
  PROVE  SetInv' /\ Stable /\ OthersKeep(p)
<1>1. /\ Idle(p) /\ lease[p] = NoSet
      /\ gauge' = [gauge EXCEPT ![AccountOf[p]] = @ + LeaseBytes]
      /\ todo' = [todo EXCEPT ![p] = <<<<"borrow", s>>>>]
      /\ set' = set /\ lease' = lease
  BY DEF ChargeLease
<1>2. /\ Owing(todo') /\ todo'[p] = <<<<"borrow", s>>>>
      /\ \A r \in Procs \ {p} : todo'[r] = todo[r]
      /\ \A z \in Sets : Borrows(todo', z) = Borrows(todo, z)
      /\ \A a \in Accounts : Due(todo', a) = Due(todo, a)
  BY <1>1, BeginCall
<1>k. OthersKeep(p)
  BY <1>1, <1>2 DEF OthersKeep
<1>a. /\ AccountOf[p] \in Accounts /\ LeaseBytes \in Nat
      /\ \A a \in Accounts : /\ gauge[a] \in Int /\ Due(todo, a) \in Nat /\ Lent(p, a) \in Nat
                             /\ Charged(s, a) \in Nat
  BY Amounts
<1>4. Types'
  <2>1. /\ set' \in [Sets -> Record]
        /\ gauge' \in [Accounts -> Int] /\ lease' \in [Procs -> Sets \cup {NoSet}]
    BY <1>1, <1>a DEF SetInv, Types, Record
  <2> QED
    BY <1>2, <1>k, <2>1, TypesStep DEF SetInv, Calling
<1>5. Records'
  BY <1>1 DEF SetInv, Records
<1>6. /\ \A z : ~Doing(p, "import", z)' /\ ~Doing(p, "admit", z)' /\ (Doing(p, "borrow", z)' <=> z = s)
      /\ \A z : ~Doing(p, "import", z) /\ ~Doing(p, "borrow", z) /\ ~Doing(p, "admit", z)
      /\ \A z : ~Constructs(p, z)'
  BY <1>1, <1>2 DEF Doing, Idle, Constructs
<1>7. Stable
  <2>1. ASSUME NEW z \in Sets, Published(z) PROVE Published(z)'
    <3>1. set'[z].initialized
      BY <1>1, <2>1 DEF Published
    <3> QED
      BY <1>4, <1>6, <1>k, <2>1, <3>1, StaysPublished DEF SetInv
  <2> QED
    BY <2>1 DEF Stable
<1>8. Constructions'
  <2>1. WorksAlone(p)
    BY <1>1, <1>6 DEF WorksAlone
  <2>2. Constructing(p)'
    <3>1. Published(s)'
      BY <1>7 DEF Stable
    <3> QED
      BY <1>1, <1>6, <3>1 DEF Constructing
  <2> QED
    BY <1>4, <1>7, <1>k, <2>1, <2>2, ConstructionsStep
<1>9. BorrowCount' /\ ByteCount'
  <2>0. \A z \in Sets : Admitted(z)' <=> Admitted(z)
    BY <1>4, <1>6, <1>k, StaysAdmitted DEF SetInv
  <2>1. SetsKeep(s)
    BY <1>1, <2>0 DEF SetsKeep
  <2>2. BorrowsMove(p, s)
    BY <1>1, <1>2, SameBorrows
  <2>3. BytesMove(p, s)
    <3> DEFINE n(a) == IF AccountOf[p] = a THEN LeaseBytes ELSE 0
    <3>1. \A a \in Accounts : Lent(p, a) = 0
      BY <1>1, <1>6, LentIs DEF Borrowing, SetInv
    <3>2. \A a \in Accounts : Lent(p, a)' = n(a)
      BY <1>4, <1>6, LentIsNext DEF Borrowing
    <3>3. \A a \in Accounts : Charged(s, a)' = Charged(s, a)
      BY <1>1, <2>0 DEF Charged
    <3>4. \A a \in Accounts : n(a) \in Nat /\ gauge'[a] = gauge[a] + n(a)
      BY <1>1, <1>a DEF SetInv, Types
    <3> HIDE DEF n
    <3>5. \A a \in Accounts : gauge'[a] = gauge[a] - Charged(s, a) + Charged(s, a) - 0 + n(a) - Due(todo, a) + Due(todo, a)
      BY <1>a, <3>4
    <3> QED
      BY <1>2, <3>1, <3>2, <3>3, <3>5 DEF BytesMove
  <2> QED
    BY <1>2, <1>4, <1>k, <2>1, <2>2, <2>3, CountStep
<1> QED
  BY <1>2, <1>4, <1>5, <1>7, <1>8, <1>9, <1>k DEF SetInv

\* Bytes that go back in place of the one step of a call.
LEMMA ReplaceByRefund ==
  ASSUME SetInv, NEW p \in Procs, NEW kind \in {"import", "admit", "borrow"}, NEW s \in Sets, Doing(p, kind, s),
         NEW a \in Accounts, NEW n \in Nat, todo' = [todo EXCEPT ![p] = Refund(a, n)]
  PROVE  /\ Owing(todo') /\ Unwinding(todo'[p])
         /\ \A r \in Procs \ {p} : todo'[r] = todo[r]
         /\ \A z \in Sets : Borrows(todo', z) = Borrows(todo, z)
         /\ \A b \in Accounts : Due(todo', b) = Due(todo, b) + Part(n, a, b)
<1> DEFINE u == Popped(todo, p)
<1>1. /\ Owing(u) /\ u[p] = <<>>
      /\ \A r \in Procs \ {p} : u[r] = todo[r]
      /\ \A z \in Sets : Borrows(u, z) = Borrows(todo, z)
      /\ \A b \in Accounts : Due(u, b) = Due(todo, b)
  BY EndCall
<1>2. AddRefund(u, p, a, n) = todo'
  <2>1. Refund(a, n) \o <<>> = Refund(a, n)
    BY DEF Refund
  <2>2. todo \in [Procs -> Seq(Jobs)]
    BY DEF SetInv, Types
  <2> QED
    BY <1>1, <2>1, <2>2 DEF AddRefund, Popped
<1> HIDE DEF u
<1>3. Unwinding(u[p])
  BY <1>1 DEF Unwinding
<1>4. /\ Owing(AddRefund(u, p, a, n))
      /\ \A z \in Sets : Borrows(AddRefund(u, p, a, n), z) = Borrows(u, z)
      /\ \A b \in Accounts : Due(AddRefund(u, p, a, n), b) = Due(u, b) + Part(n, a, b)
      /\ Unwinding(u[p]) => Unwinding(AddRefund(u, p, a, n)[p])
      /\ \A r \in Procs \ {p} : AddRefund(u, p, a, n)[r] = u[r]
  BY <1>1, OweRefund
<1> QED
  BY <1>1, <1>2, <1>3, <1>4

\* borrow: a lease, or a refund if the set is closed or borrowed too often.
LEMMA BorrowStep ==
  ASSUME SetInv, NEW p \in Procs, borrow(p)
  PROVE  SetInv' /\ Stable /\ OthersKeep(p)
<1>a. ~Idle(p) /\ Head(todo[p])[1] = "borrow"
  BY DEF borrow
<1>2. PICK s \in Sets : s = Head(todo[p])[2] /\ Doing(p, "borrow", s)
  BY <1>a, Underway
<1> DEFINE ok == Borrowable(p, set[s])
<1>1. /\ ok => /\ set' = [set EXCEPT ![s].borrowers = @ + 1]
               /\ lease' = [lease EXCEPT ![p] = s]
               /\ todo' = Popped(todo, p)
      /\ ~ok => /\ todo' = [todo EXCEPT ![p] = Refund(AccountOf[p], LeaseBytes)]
                /\ set' = set /\ lease' = lease
      /\ gauge' = gauge
  BY <1>2 DEF borrow, Popped
<1>b. ok => ~set[s].closed /\ set[s].account = AccountOf[p]
  BY DEF Borrowable
<1> HIDE DEF ok
<1>4. /\ AccountOf[p] \in Accounts /\ LeaseBytes \in Nat
      /\ lease[p] = NoSet /\ Published(s) /\ set[s].initialized /\ set[s].borrowers \in Nat
      /\ \A r \in Procs : ~Constructs(r, s)
  BY <1>2, Amounts, Read DEF SetInv, Constructions, Reading
<1> DEFINE n(a) == IF AccountOf[p] = a THEN LeaseBytes ELSE 0
<1>3. /\ Owing(todo') /\ Unwinding(todo'[p])
      /\ \A r \in Procs \ {p} : todo'[r] = todo[r]
      /\ \A z \in Sets : Borrows(todo', z) = Borrows(todo, z)
      /\ ok => \A a \in Accounts : Due(todo', a) = Due(todo, a)
      /\ ~ok => \A a \in Accounts : Due(todo', a) = Due(todo, a) + n(a)
  <2>1. CASE ok
    <3>1. /\ Owing(Popped(todo, p)) /\ Popped(todo, p)[p] = <<>>
          /\ \A r \in Procs \ {p} : Popped(todo, p)[r] = todo[r]
          /\ \A z \in Sets : Borrows(Popped(todo, p), z) = Borrows(todo, z)
          /\ \A a \in Accounts : Due(Popped(todo, p), a) = Due(todo, a)
      BY <1>2, EndCall
    <3>2. Unwinding(Popped(todo, p)[p])
      BY <3>1 DEF Unwinding
    <3> QED
      BY <1>1, <2>1, <3>1, <3>2
  <2>2. CASE ~ok
    <3>1. todo' = [todo EXCEPT ![p] = Refund(AccountOf[p], LeaseBytes)]
      BY <1>1, <2>2
    <3>2. /\ Owing(todo') /\ Unwinding(todo'[p])
          /\ \A r \in Procs \ {p} : todo'[r] = todo[r]
          /\ \A z \in Sets : Borrows(todo', z) = Borrows(todo, z)
          /\ \A a \in Accounts : Due(todo', a) = Due(todo, a) + Part(LeaseBytes, AccountOf[p], a)
      BY <1>2, <1>4, <3>1, ReplaceByRefund
    <3> QED
      BY <2>2, <3>2 DEF Part
  <2> QED
    BY <2>1, <2>2
<1>c. /\ lease'[p] = IF ok THEN s ELSE NoSet
      /\ \A r \in Procs \ {p} : lease'[r] = lease[r]
  BY <1>1, <1>4 DEF SetInv, Types
<1>k. OthersKeep(p)
  BY <1>3, <1>c DEF OthersKeep
<1>5. /\ \A w \in Sets \ {s} : set'[w] = set[w]
      /\ set'[s].initialized = set[s].initialized /\ set'[s].closed = set[s].closed
      /\ set'[s].account = set[s].account /\ set'[s].retained = set[s].retained
      /\ set'[s].entries = set[s].entries /\ set'[s].parent = set[s].parent
      /\ ok => set'[s].borrowers = set[s].borrowers + 1
      /\ ~ok => set'[s] = set[s]
  <2>1. set \in [Sets -> Record] /\ set[s] \in Record
    BY <1>2 DEF SetInv, Types, Record
  <2>2. CASE ok
    <3>1. set' = [set EXCEPT ![s].borrowers = @ + 1]
      BY <1>1, <2>2
    <3>2. set'[s] = [set[s] EXCEPT !.borrowers = @ + 1] /\ \A w \in Sets \ {s} : set'[w] = set[w]
      BY <1>2, <2>1, <3>1
    <3> QED
      BY <2>1, <2>2, <3>2 DEF Record
  <2>3. CASE ~ok
    BY <1>1, <2>3
  <2> QED
    BY <2>2, <2>3
<1>6. Types'
  <2>0. set \in [Sets -> Record]
    BY DEF SetInv, Types, Record
  <2>1. set' \in [Sets -> Record]
    <3>1. CASE ok
      <4>1. set[s] \in Record /\ [set[s] EXCEPT !.borrowers = @ + 1] \in Record
        BY <1>2, <1>4, <2>0 DEF Record
      <4>2. set' = [set EXCEPT ![s] = [set[s] EXCEPT !.borrowers = @ + 1]]
        BY <1>1, <2>0, <3>1
      <4> QED
        BY <1>2, <2>0, <4>1, <4>2
    <3>2. CASE ~ok
      BY <1>1, <2>0, <3>2
    <3> QED
      BY <3>1, <3>2
  <2>2. gauge' \in [Accounts -> Int] /\ lease' \in [Procs -> Sets \cup {NoSet}]
    BY <1>1, <1>2 DEF SetInv, Types
  <2> QED
    BY <1>3, <1>k, <2>1, <2>2, TypesStep DEF SetInv
<1>7. Records'
  <2>1. Sound(set'[s])
    <3>1. CASE ok
      <4>1. set'[s].borrowers # 0 /\ ~set'[s].closed /\ ~set[s].closed
        BY <1>4, <1>5, <1>b, <3>1
      <4> QED
        BY <1>2, <1>4, <1>5, <3>1, <4>1 DEF SetInv, Records, Sound
    <3>2. CASE ~ok
      BY <1>2, <1>5, <3>2 DEF SetInv, Records
    <3> QED
      BY <3>1, <3>2
  <2> QED
    BY <1>5, <2>1 DEF SetInv, Records
<1>8. /\ \A z : ~Doing(p, "import", z)' /\ ~Doing(p, "admit", z)' /\ ~Doing(p, "borrow", z)'
      /\ \A z : ~Constructs(p, z)'
      /\ \A z : ~Doing(p, "import", z) /\ ~Doing(p, "admit", z)
  BY <1>2, <1>3, Returning DEF Doing
<1>9. Stable
  <2>1. ASSUME NEW z \in Sets, Published(z) PROVE Published(z)'
    <3>1. set'[z].initialized
      BY <1>4, <1>5, <2>1 DEF Published
    <3> QED
      BY <1>6, <1>8, <1>k, <2>1, <3>1, StaysPublished DEF SetInv
  <2> QED
    BY <2>1 DEF Stable
<1>10. Constructions'
  <2>1. WorksAlone(p)
    BY <1>4, <1>5, <1>8 DEF WorksAlone
  <2>2. Constructing(p)'
    <3>1. lease'[p] # NoSet => set'[lease'[p]].account = AccountOf[p]
      BY <1>5, <1>b, <1>c
    <3> QED
      BY <1>8, <3>1 DEF Constructing
  <2> QED
    BY <1>6, <1>9, <1>k, <2>1, <2>2, ConstructionsStep
<1>11. BorrowCount' /\ ByteCount'
  <2>0. \A z \in Sets : Admitted(z)' <=> Admitted(z)
    BY <1>6, <1>8, <1>k, StaysAdmitted DEF SetInv
  <2>1. SetsKeep(s)
    BY <1>5, <2>0 DEF SetsKeep
  <2>a. /\ \A z \in Sets : set[z].borrowers \in Nat /\ Borrows(todo, z) \in Nat /\ Is(NoSet, z) = 0
        /\ \A x, z : Is(x, z) \in Nat
        /\ \A a \in Accounts : gauge[a] \in Int /\ Due(todo, a) \in Nat /\ Lent(p, a) \in Nat /\ Charged(s, a) \in Nat
    BY Amounts
  <2>2. BorrowsMove(p, s)
    <3>1. CASE ok
      <4>1. \A z \in Sets : set'[z].borrowers = set[z].borrowers + Is(s, z)
        <5>1. set'[s].borrowers = set[s].borrowers + Is(s, s)
          BY <1>5, <3>1 DEF Is
        <5>2. \A z \in Sets \ {s} : Is(s, z) = 0 /\ set[z].borrowers = set[z].borrowers + 0
          BY <2>a DEF Is
        <5> QED
          BY <1>5, <5>1, <5>2
      <4>2. \A z \in Sets : set'[z].borrowers = set[z].borrowers - Is(NoSet, z) + Is(s, z)
              - Is(set[s].parent, z) + Is(set[s].parent, z) - Borrows(todo, z) + Borrows(todo, z)
        BY <2>a, <4>1
      <4>3. lease[p] = NoSet /\ lease'[p] = s /\ set'[s].parent = set[s].parent
        BY <1>4, <1>5, <1>c, <3>1
      <4> QED
        BY <1>3, <4>2, <4>3 DEF BorrowsMove
    <3>2. CASE ~ok
      <4>1. lease'[p] = lease[p] /\ set'[s].parent = set[s].parent /\ \A z \in Sets : set'[z].borrowers = set[z].borrowers
        BY <1>4, <1>5, <1>c, <3>2
      <4> QED
        BY <1>2, <1>3, <4>1, SameBorrows
    <3> QED
      BY <3>1, <3>2
  <2>3. BytesMove(p, s)
    <3>1. \A a \in Accounts : Charged(s, a)' = Charged(s, a)
      BY <1>5, <2>0 DEF Charged
    <3>2. \A a \in Accounts : Lent(p, a) = n(a) /\ n(a) \in Nat
      BY <1>2, <1>4, LentIs DEF Borrowing, SetInv
    <3>3. CASE ok
      <4>1. \A a \in Accounts : Lent(p, a)' = Lent(p, a)
        <5>1. lease'[p] # NoSet
          BY <1>2, <1>c, <3>3, SetAssumption
        <5> QED
          BY <1>2, <1>6, <5>1, SameLent DEF Borrowing, SetInv
      <4> QED
        BY <1>1, <1>2, <1>3, <3>1, <3>3, <4>1, SameBytes
    <3>4. CASE ~ok
      <4>1. \A a \in Accounts : Lent(p, a)' = 0
        BY <1>6, <1>8, <1>c, <3>4, LentIsNext DEF Borrowing
      <4> HIDE DEF n
      <4>2. \A a \in Accounts : gauge[a] = gauge[a] - Charged(s, a) + Charged(s, a) - n(a) + 0 - Due(todo, a) + (Due(todo, a) + n(a))
        BY <2>a, <3>2
      <4> QED
        BY <1>1, <1>3, <3>1, <3>2, <3>4, <4>1, <4>2 DEF BytesMove
    <3> QED
      BY <3>3, <3>4
  <2> QED
    BY <1>2, <1>3, <1>6, <1>k, <2>1, <2>2, <2>3, CountStep
<1> QED
  BY <1>3, <1>6, <1>7, <1>9, <1>10, <1>11, <1>k DEF SetInv

\* A set with a borrow is nobody's to construct.
LEMMA HeldIsPublished ==
  ASSUME SetInv, NEW s \in Sets, set[s].borrowers >= 1
  PROVE  Published(s) /\ set[s].initialized /\ set[s].entries
<1>1. set[s].borrowers # 0
  OBVIOUS
<1>a. Sound(set[s])
  BY DEF SetInv, Records
<1>b. Unallocated.borrowers = 0
  BY DEF Unallocated
<1>2. set[s].initialized /\ set[s].entries
  BY <1>1, <1>a, <1>b DEF Sound
<1>3. \A p \in Procs : ~Constructs(p, s)
  BY <1>1 DEF SetInv, Constructions
<1> QED
  BY <1>2, <1>3, Read DEF SetInv, Reading

\* What a step gives back of set s: nothing, the borrow of a view, or the
\* lease of process p; t is what the calls owe then.
GivesBack(p, s, t) ==
  \/ /\ set'[s].borrowers = set[s].borrowers /\ lease' = lease
     /\ \A z \in Sets : Borrows(t, z) = Borrows(todo, z)
     /\ \A a \in Accounts : Due(t, a) = Due(todo, a)
  \/ /\ set'[s].borrowers = set[s].borrowers - 1 /\ lease' = lease
     /\ \A z \in Sets : Borrows(t, z) = Borrows(todo, z) - Is(s, z)
     /\ \A a \in Accounts : Due(t, a) = Due(todo, a)
  \/ /\ set'[s].borrowers = set[s].borrowers - 1
     /\ lease[p] = s /\ lease' = [lease EXCEPT ![p] = NoSet]
     /\ \A z \in Sets : Borrows(t, z) = Borrows(todo, z)
     /\ \A a \in Accounts : Due(t, a) = Due(todo, a) + Part(LeaseBytes, AccountOf[p], a)

\* Set s is freed and what it held is owed, or it keeps it.
FreesOrKeeps(s, t) ==
  \/ /\ set'[s].closed /\ set'[s].borrowers = 0
     /\ set'[s].retained = 0 /\ ~set'[s].entries /\ set'[s].parent = NoSet
     /\ \A z \in Sets : Borrows(todo', z) = Borrows(t, z) + Is(set[s].parent, z)
     /\ \A a \in Accounts : Due(todo', a) = Due(t, a) + Part(set[s].retained, set[s].account, a)
  \/ /\ set'[s].retained = set[s].retained /\ set'[s].entries = set[s].entries /\ set'[s].parent = set[s].parent
     /\ set'[s].entries <=> ~(set'[s].closed /\ set'[s].borrowers = 0)
     /\ \A z \in Sets : Borrows(todo', z) = Borrows(t, z)
     /\ \A a \in Accounts : Due(todo', a) = Due(t, a)

\* A step that gives back.
Settles(p, s, t) ==
  /\ \A w \in Sets \ {s} : set'[w] = set[w]
  /\ set' \in [Sets -> Record] /\ set'[s].initialized /\ set'[s].account = set[s].account
  /\ GivesBack(p, s, t) /\ FreesOrKeeps(s, t)
  /\ gauge' = gauge
  /\ \A r \in Procs \ {p} : todo'[r] = todo[r]

\* A step that settles its borrow of set s keeps the invariant.
LEMMA SettleStep ==
  ASSUME SetInv, NEW p \in Procs, NEW s \in Sets, Published(s), NEW t, Owing(t), Owing(todo'),
         Unwinding(todo[p]), Unwinding(todo'[p]), Settles(p, s, t)
  PROVE  SetInv' /\ Stable /\ OthersKeep(p)
<1>1. /\ \A w \in Sets \ {s} : set'[w] = set[w]
      /\ set' \in [Sets -> Record] /\ set'[s].initialized /\ set'[s].account = set[s].account
      /\ gauge' = gauge
      /\ \A r \in Procs \ {p} : todo'[r] = todo[r]
  BY DEF Settles
<1>2. GivesBack(p, s, t) /\ FreesOrKeeps(s, t)
  BY DEF Settles
<1>3. /\ lease' \in [Procs -> Sets \cup {NoSet}]
      /\ \A r \in Procs \ {p} : lease'[r] = lease[r]
      /\ lease'[p] = lease[p] \/ lease'[p] = NoSet
  BY <1>2 DEF GivesBack, SetInv, Types
<1>k. OthersKeep(p)
  BY <1>1, <1>3 DEF OthersKeep
<1>4. set[s].initialized /\ \A r \in Procs : ~Constructs(r, s)
  BY Read DEF SetInv, Reading
<1>5. Types'
  <2>1. gauge' \in [Accounts -> Int]
    BY <1>1 DEF SetInv, Types
  <2> QED
    BY <1>1, <1>3, <1>k, <2>1, TypesStep DEF SetInv
<1>6. Records'
  <2>1. Sound(set'[s])
    <3>1. Sound(set[s])
      BY DEF SetInv, Records
    <3> QED
      BY <1>1, <1>2, <3>1 DEF FreesOrKeeps, Sound
  <2> QED
    BY <1>1, <2>1 DEF SetInv, Records
<1>7. /\ \A z : ~Doing(p, "import", z)' /\ ~Doing(p, "admit", z)' /\ ~Doing(p, "borrow", z)'
      /\ \A z : ~Constructs(p, z)'
      /\ \A z : ~Doing(p, "import", z) /\ ~Doing(p, "admit", z) /\ ~Doing(p, "borrow", z)
  BY Returning, NotDoing
<1>8. Stable
  <2>1. ASSUME NEW z \in Sets, Published(z) PROVE Published(z)'
    <3>1. set'[z].initialized
      BY <1>1, <2>1 DEF Published
    <3> QED
      BY <1>5, <1>7, <1>k, <2>1, <3>1, StaysPublished DEF SetInv
  <2> QED
    BY <2>1 DEF Stable
<1>9. Constructions'
  <2>1. WorksAlone(p)
    BY <1>1, <1>4, <1>7 DEF WorksAlone
  <2>2. Constructing(p)'
    <3>1. ASSUME lease'[p] # NoSet PROVE set'[lease'[p]].account = AccountOf[p]
      <4>1. lease'[p] = lease[p] /\ lease[p] \in Sets /\ set[lease[p]].account = AccountOf[p]
        BY <1>3, <3>1, Leaseholder
      <4> QED
        BY <1>1, <4>1
    <3> QED
      BY <1>7, <3>1 DEF Constructing
  <2> QED
    BY <1>5, <1>8, <1>k, <2>1, <2>2, ConstructionsStep
<1>10. BorrowCount' /\ ByteCount'
  <2>0. \A z \in Sets : Admitted(z)' <=> Admitted(z)
    BY <1>5, <1>7, <1>k, StaysAdmitted DEF SetInv
  <2>1. SetsKeep(s)
    BY <1>1, <2>0 DEF SetsKeep
  <2>a. /\ \A z \in Sets : set[z].borrowers \in Nat /\ Borrows(todo, z) \in Nat /\ Is(NoSet, z) = 0
        /\ \A x, z : Is(x, z) \in Nat
        /\ \A a \in Accounts : gauge[a] \in Int /\ Due(todo, a) \in Nat /\ Lent(p, a) \in Nat /\ Charged(s, a) \in Nat
        /\ set[s].retained \in Nat /\ LeaseBytes \in Nat
    BY Amounts
  <2>b. (\A z \in Sets : Borrows(t, z) \in Nat) /\ (\A a \in Accounts : Due(t, a) \in Nat)
    BY OwingCounts
  <2>2. BorrowsMove(p, s)
    <3>1. ASSUME NEW z \in Sets
          PROVE  set'[z].borrowers = set[z].borrowers - Is(lease[p], z) + Is(lease'[p], z)
                                       - Borrows(todo, z) + Borrows(t, z)
      <4>0. Is(s, s) = 1 /\ (z # s => Is(s, z) = 0 /\ set'[z].borrowers = set[z].borrowers)
        BY <1>1 DEF Is
      <4>1. CASE /\ set'[s].borrowers = set[s].borrowers /\ lease'[p] = lease[p]
                 /\ Borrows(t, z) = Borrows(todo, z)
        BY <2>a, <4>0, <4>1
      <4>2. CASE /\ set'[s].borrowers = set[s].borrowers - 1 /\ lease'[p] = lease[p]
                 /\ Borrows(t, z) = Borrows(todo, z) - Is(s, z)
        BY <2>a, <4>0, <4>2
      <4>3. CASE /\ set'[s].borrowers = set[s].borrowers - 1 /\ lease[p] = s /\ lease'[p] = NoSet
                 /\ Borrows(t, z) = Borrows(todo, z)
        BY <2>a, <4>0, <4>3
      <4> QED
        BY <1>2, <4>1, <4>2, <4>3 DEF GivesBack, SetInv, Types
    <3>2. ASSUME NEW z \in Sets
          PROVE  - Is(set[s].parent, z) + Is(set'[s].parent, z) + Borrows(todo', z) = Borrows(t, z)
      <4>1. CASE set'[s].parent = NoSet /\ Borrows(todo', z) = Borrows(t, z) + Is(set[s].parent, z)
        BY <2>a, <2>b, <4>1
      <4>2. CASE set'[s].parent = set[s].parent /\ Borrows(todo', z) = Borrows(t, z)
        BY <2>a, <2>b, <4>2
      <4> QED
        BY <1>2, <4>1, <4>2 DEF FreesOrKeeps
    <3>3. \A z \in Sets : Borrows(todo', z) \in Nat
      BY OwingCounts
    <3>4. ASSUME NEW z \in Sets
          PROVE set'[z].borrowers = set[z].borrowers - Is(lease[p], z) + Is(lease'[p], z)
              - Is(set[s].parent, z) + Is(set'[s].parent, z) - Borrows(todo, z) + Borrows(todo', z)
      BY <2>a, <2>b, <3>1, <3>2, <3>3
    <3> QED
      BY <3>4 DEF BorrowsMove
  <2>3. BytesMove(p, s)
    <3>0. Admitted(s) /\ Admitted(s)'
      <4>1. Admitted(s)
        BY <1>4, Read DEF SetInv, Reading, Constructs
      <4> QED
        BY <2>0, <4>1
    <3>1. \A a \in Accounts : /\ Charged(s, a) = Part(set[s].retained, set[s].account, a)
                              /\ Charged(s, a)' = Part(set'[s].retained, set[s].account, a)
      BY <1>1, <3>0 DEF Charged, Part
    <3>2. \A a \in Accounts : /\ Part(0, set[s].account, a) = 0
                              /\ Part(LeaseBytes, AccountOf[p], a) \in Nat
                              /\ Part(set[s].retained, set[s].account, a) \in Nat
      BY <2>a DEF Part
    <3>3. ASSUME NEW a \in Accounts
          PROVE  Due(t, a) = Due(todo, a) + Lent(p, a) - Lent(p, a)'
      <4>1. CASE lease'[p] = lease[p] /\ Due(t, a) = Due(todo, a)
        <5>1. Lent(p, a)' = Lent(p, a)
          BY <1>5, <1>7, <4>1, SameLent DEF Borrowing, SetInv
        <5> QED
          BY <2>a, <4>1, <5>1
      <4>2. CASE /\ lease[p] = s /\ lease'[p] = NoSet
                 /\ Due(t, a) = Due(todo, a) + Part(LeaseBytes, AccountOf[p], a)
        <5>1. Lent(p, a)' = 0
          BY <1>5, <1>7, <4>2, LentIsNext DEF Borrowing
        <5>2. Lent(p, a) = Part(LeaseBytes, AccountOf[p], a)
          BY <1>7, <4>2, LentIs, SetAssumption DEF Borrowing, SetInv, Part
        <5> QED
          BY <2>a, <4>2, <5>1, <5>2
      <4> QED
        BY <1>2, <4>1, <4>2 DEF GivesBack, SetInv, Types
    <3>4. ASSUME NEW a \in Accounts
          PROVE  Due(todo', a) = Due(t, a) + Charged(s, a) - Charged(s, a)'
      <4>1. CASE set'[s].retained = 0 /\ Due(todo', a) = Due(t, a) + Part(set[s].retained, set[s].account, a)
        BY <2>b, <3>1, <3>2, <4>1
      <4>2. CASE set'[s].retained = set[s].retained /\ Due(todo', a) = Due(t, a)
        BY <2>b, <3>1, <3>2, <4>2
      <4> QED
        BY <1>2, <4>1, <4>2 DEF FreesOrKeeps
    <3>5. \A a \in Accounts : Lent(p, a)' \in Nat /\ Charged(s, a)' \in Nat
      <4>1. \A a \in Accounts : Lent(p, a)' \in Nat
        BY SetAssumption DEF Lent
      <4>2. set'[s].retained \in Nat
        BY <1>1 DEF Record
      <4> QED
        BY <3>1, <4>1, <4>2 DEF Part
    <3>6. ASSUME NEW a \in Accounts
          PROVE  gauge[a] = gauge[a] - Charged(s, a) + Charged(s, a)' - Lent(p, a) + Lent(p, a)'
                              - Due(todo, a) + Due(todo', a)
      BY <2>a, <2>b, <3>3, <3>4, <3>5
    <3> QED
      BY <1>1, <3>6 DEF BytesMove
  <2> QED
    BY <1>5, <1>k, <2>1, <2>2, <2>3, CountStep
<1> QED
  BY <1>5, <1>6, <1>8, <1>9, <1>10, <1>k DEF SetInv

\* What the free of a set adds to a list.
Freed(t, p, a, n, q) == AddRefund(AddReturn(t, p, q), p, a, n)

\* free leaves two things to do: refund the bytes and release the parent.
LEMMA FreeOwes ==
  ASSUME NEW t, Owing(t), NEW p \in Procs, NEW a \in Accounts, NEW n \in Nat, NEW q \in Sets \cup {NoSet}
  PROVE  /\ Owing(Freed(t, p, a, n, q))
         /\ \A z \in Sets : Borrows(Freed(t, p, a, n, q), z) = Borrows(t, z) + Is(q, z)
         /\ \A b \in Accounts : Due(Freed(t, p, a, n, q), b) = Due(t, b) + Part(n, a, b)
         /\ Unwinding(t[p]) => Unwinding(Freed(t, p, a, n, q)[p])
         /\ \A r \in Procs \ {p} : Freed(t, p, a, n, q)[r] = t[r]
<1> DEFINE u == AddReturn(t, p, q)  w == AddRefund(u, p, a, n)
<1>1. /\ Owing(u)
      /\ \A s \in Sets : Borrows(u, s) = Borrows(t, s) + Is(q, s)
      /\ \A b \in Accounts : Due(u, b) = Due(t, b)
      /\ Unwinding(t[p]) => Unwinding(u[p])
      /\ \A r \in Procs \ {p} : u[r] = t[r]
  BY OweReturn
<1> HIDE DEF u
<1>2. /\ Owing(w)
      /\ \A s \in Sets : Borrows(w, s) = Borrows(u, s)
      /\ \A b \in Accounts : Due(w, b) = Due(u, b) + Part(n, a, b)
      /\ Unwinding(u[p]) => Unwinding(w[p])
      /\ \A r \in Procs \ {p} : w[r] = u[r]
  BY <1>1, OweRefund
<1>4. Freed(t, p, a, n, q) = w
  BY DEF Freed, u
<1> HIDE DEF w
<1> QED
  BY <1>1, <1>2, <1>4

\* The list that a free leaves in front of l.
Unwound(l, a, n, q) == (Refund(a, n) \o ReleaseView(q)) \o l

\* The list of the process after that.
LEMMA FreedList ==
  ASSUME NEW t, Owing(t), NEW p \in Procs, NEW a \in Accounts, NEW n \in Nat, NEW q \in Sets \cup {NoSet}
  PROVE  Freed(t, p, a, n, q)[p] = Unwound(t[p], a, n, q)
<1>1. t \in [Procs -> Seq(Jobs)] /\ t[p] \in Seq(Jobs)
  BY DEF Owing
<1>2. <<"refund", a, n>> \in Jobs /\ (q # NoSet => <<"releaseView", q>> \in Jobs)
  BY DEF Jobs
<1>3. Refund(a, n) \in Seq(Jobs) /\ ReleaseView(q) \in Seq(Jobs)
  BY <1>2 DEF Refund, ReleaseView
<1>4. Unwound(t[p], a, n, q) = Refund(a, n) \o (ReleaseView(q) \o t[p])
  BY <1>1, <1>3, ConcatAssociative DEF Unwound
<1> QED
  BY <1>1, <1>4 DEF Freed, AddRefund, AddReturn

\* The record of a set when a borrow comes back.
LEMMA ReturnedRecord ==
  ASSUME NEW d \in Record, d.borrowers \in Nat, d.borrowers >= 1
  PROVE  /\ Returned(d) \in Record
         /\ Returned(d).initialized = d.initialized /\ Returned(d).account = d.account
         /\ Returned(d).closed = d.closed /\ Returned(d).borrowers = d.borrowers - 1
         /\ Frees(d) => /\ d.closed /\ d.borrowers = 1 /\ Returned(d).retained = 0
                        /\ Returned(d).entries = FALSE /\ Returned(d).parent = NoSet
         /\ ~Frees(d) => /\ ~(d.closed /\ d.borrowers = 1) /\ Returned(d).retained = d.retained
                         /\ Returned(d).entries = d.entries /\ Returned(d).parent = d.parent
<1> DEFINE e == [d EXCEPT !.borrowers = @ - 1]
<1>1. /\ e \in Record /\ e.borrowers = d.borrowers - 1 /\ e.initialized = d.initialized /\ e.closed = d.closed
      /\ e.account = d.account /\ e.retained = d.retained /\ e.entries = d.entries /\ e.parent = d.parent
  BY DEF Record
<1>2. Frees(d) <=> d.closed /\ d.borrowers = 1
  BY DEF Frees
<1>3. e.borrowers = 0 <=> d.borrowers = 1
  BY <1>1
<1>4. Returned(d) = IF e.closed /\ e.borrowers = 0 THEN free(e) ELSE e
  BY DEF Returned
<1> HIDE DEF e
<1>5. /\ free(e) \in Record /\ free(e).borrowers = e.borrowers /\ free(e).initialized = e.initialized
      /\ free(e).closed = e.closed /\ free(e).account = e.account /\ free(e).retained = 0
      /\ free(e).entries = FALSE /\ free(e).parent = NoSet
  BY <1>1 DEF free, Record
<1>6. CASE Frees(d)
  <2>1. Returned(d) = free(e) /\ d.closed /\ d.borrowers = 1
    BY <1>1, <1>2, <1>3, <1>4, <1>6
  <2> QED
    BY <1>1, <1>5, <1>6, <2>1
<1>7. CASE ~Frees(d)
  <2>1. Returned(d) = e /\ ~(d.closed /\ d.borrowers = 1)
    BY <1>1, <1>2, <1>3, <1>4, <1>7
  <2> QED
    BY <1>1, <1>7, <2>1
<1> QED
  BY <1>6, <1>7

\* A borrow of set s comes back, and process p owes t apart from the free.
ReturnsTo(p, s, t) ==
  /\ set' = [set EXCEPT ![s] = Returned(set[s])] /\ gauge' = gauge
  /\ todo' = [t EXCEPT ![p] = (IF Frees(set[s])
                                 THEN Refund(set[s].account, set[s].retained) \o ReleaseView(set[s].parent)
                                 ELSE <<>>) \o t[p]]
  /\ \A r \in Procs \ {p} : t[r] = todo[r]
  /\ set'[s].borrowers = set[s].borrowers - 1 => GivesBack(p, s, t)

\* Returning a borrow settles it: the last one of a closed set frees it.
LEMMA ReturnSettles ==
  ASSUME SetInv, NEW p \in Procs, NEW s \in Sets, set[s].borrowers >= 1, NEW t, Owing(t), Unwinding(t[p]),
         ReturnsTo(p, s, t)
  PROVE  Settles(p, s, t) /\ Owing(todo') /\ Unwinding(todo'[p])
<1> USE DEF ReturnsTo
<1> DEFINE d == set[s]
<1>1. /\ set \in [Sets -> Record] /\ d \in Record /\ d.borrowers \in Nat
      /\ d.account \in Accounts /\ d.retained \in Nat /\ d.parent \in Sets \cup {NoSet}
      /\ d.initialized /\ d.entries
  BY Amounts, HeldIsPublished DEF SetInv, Types, Record
<1>2. set'[s] = Returned(d) /\ \A w \in Sets \ {s} : set'[w] = set[w]
  BY <1>1
<1>3. /\ set'[s] \in Record
      /\ set'[s].initialized = d.initialized /\ set'[s].account = d.account
      /\ set'[s].closed = d.closed /\ set'[s].borrowers = d.borrowers - 1
      /\ Frees(d) => /\ d.closed /\ d.borrowers = 1 /\ set'[s].retained = 0
                     /\ set'[s].entries = FALSE /\ set'[s].parent = NoSet
      /\ ~Frees(d) => /\ ~(d.closed /\ d.borrowers = 1) /\ set'[s].retained = d.retained
                      /\ set'[s].entries = d.entries /\ set'[s].parent = d.parent
  BY <1>1, <1>2, ReturnedRecord
<1>4. set' \in [Sets -> Record]
  BY <1>1, <1>2, <1>3
<1>5. t \in [Procs -> Seq(Jobs)] /\ t[p] \in Seq(Jobs)
  BY DEF Owing
<1>6. GivesBack(p, s, t)
  BY <1>3
<1>7. /\ FreesOrKeeps(s, t) /\ Owing(todo') /\ Unwinding(todo'[p])
      /\ \A r \in Procs \ {p} : todo'[r] = t[r]
  <2>1. CASE Frees(d)
    <3> DEFINE u == Freed(t, p, d.account, d.retained, d.parent)
    <3>1. /\ Owing(u)
          /\ \A z \in Sets : Borrows(u, z) = Borrows(t, z) + Is(d.parent, z)
          /\ \A b \in Accounts : Due(u, b) = Due(t, b) + Part(d.retained, d.account, b)
          /\ Unwinding(t[p]) => Unwinding(u[p])
          /\ \A r \in Procs \ {p} : u[r] = t[r]
      BY <1>1, FreeOwes
    <3>2. todo' = u
      <4>1. u[p] = Unwound(t[p], d.account, d.retained, d.parent)
        BY <1>1, FreedList
      <4>2. todo' = [t EXCEPT ![p] = Unwound(t[p], d.account, d.retained, d.parent)]
        BY <2>1 DEF Unwound
      <4>3. u \in [Procs -> Seq(Jobs)]
        BY <3>1 DEF Owing
      <4> HIDE DEF u, d
      <4> QED
        BY <1>5, <3>1, <4>1, <4>2, <4>3
    <3> HIDE DEF u
    <3>3. set'[s].closed /\ set'[s].borrowers = 0 /\ set'[s].retained = 0 /\ ~set'[s].entries /\ set'[s].parent = NoSet
      BY <1>3, <2>1
    <3> QED
      BY <3>1, <3>2, <3>3 DEF FreesOrKeeps
  <2>2. CASE ~Frees(d)
    <3>1. <<>> \o t[p] = t[p]
      BY <1>5
    <3>2. todo' = t
      BY <1>5, <2>2, <3>1
    <3>3. set'[s].borrowers = 0 <=> d.borrowers = 1
      BY <1>1, <1>3
    <3>4. /\ set'[s].retained = d.retained /\ set'[s].entries = d.entries /\ set'[s].parent = d.parent
          /\ set'[s].entries <=> ~(set'[s].closed /\ set'[s].borrowers = 0)
      BY <1>1, <1>3, <2>2, <3>3
    <3> HIDE DEF d
    <3> QED
      BY <3>2, <3>4 DEF FreesOrKeeps, d
  <2> QED
    BY <2>1, <2>2
<1> QED
  BY <1>1, <1>2, <1>3, <1>4, <1>6, <1>7 DEF Settles

\* release, the end of a session.
LEMMA ReleaseStep ==
  ASSUME SetInv, NEW p \in Procs, release(p)
  PROVE  SetInv' /\ Stable /\ OthersKeep(p)
<1>1. Idle(p) /\ lease[p] # NoSet
  BY DEF release
<1>2. PICK s \in Sets : s = lease[p] /\ set[s].account = AccountOf[p] /\ set[s].borrowers >= 1
  BY <1>1, Leaseholder
<1>3. /\ set' = [set EXCEPT ![s] = Returned(set[s])] /\ gauge' = gauge
      /\ todo' = [todo EXCEPT ![p] =
                   (IF Frees(set[s]) THEN Refund(set[s].account, set[s].retained) \o ReleaseView(set[s].parent)
                                     ELSE <<>>)
                     \o Refund(AccountOf[p], LeaseBytes)]
      /\ lease' = [lease EXCEPT ![p] = NoSet]
  BY <1>2 DEF release
<1> DEFINE t == AddRefund(todo, p, AccountOf[p], LeaseBytes)
<1>4. /\ Owing(todo) /\ AccountOf[p] \in Accounts /\ LeaseBytes \in Nat /\ todo \in [Procs -> Seq(Jobs)]
      /\ todo[p] = <<>> /\ Unwinding(todo[p])
  <2>1. AccountOf[p] \in Accounts /\ LeaseBytes \in Nat
    BY Amounts
  <2> QED
    BY <1>1, <2>1 DEF SetInv, Types, Idle, Unwinding
<1>5. /\ Owing(t)
      /\ \A z \in Sets : Borrows(t, z) = Borrows(todo, z)
      /\ \A b \in Accounts : Due(t, b) = Due(todo, b) + Part(LeaseBytes, AccountOf[p], b)
      /\ Unwinding(todo[p]) => Unwinding(t[p])
      /\ \A r \in Procs \ {p} : t[r] = todo[r]
  BY <1>4, OweRefund
<1>6. t[p] = Refund(AccountOf[p], LeaseBytes) /\ t = [todo EXCEPT ![p] = Refund(AccountOf[p], LeaseBytes)]
  <2>1. Refund(AccountOf[p], LeaseBytes) \o <<>> = Refund(AccountOf[p], LeaseBytes)
    BY DEF Refund
  <2> QED
    BY <1>4, <2>1 DEF AddRefund
<1> HIDE DEF t
<1>7. ReturnsTo(p, s, t)
  <2> DEFINE l == (IF Frees(set[s]) THEN Refund(set[s].account, set[s].retained) \o ReleaseView(set[s].parent)
                                    ELSE <<>>) \o Refund(AccountOf[p], LeaseBytes)
  <2>1. todo' = [todo EXCEPT ![p] = l]
    BY <1>3
  <2>2. todo' = [t EXCEPT ![p] = l]
    <3> HIDE DEF l
    <3> QED
      BY <1>4, <1>6, <2>1
  <2>3. set'[s].borrowers = set[s].borrowers - 1 => GivesBack(p, s, t)
    BY <1>2, <1>3, <1>5 DEF GivesBack
  <2> QED
    BY <1>3, <1>5, <1>6, <2>2, <2>3 DEF ReturnsTo
<1>8. Settles(p, s, t) /\ Owing(todo') /\ Unwinding(todo'[p])
  BY <1>2, <1>4, <1>5, <1>7, ReturnSettles
<1>9. Published(s)
  BY <1>2, HeldIsPublished
<1> QED
  BY <1>4, <1>5, <1>8, <1>9, SettleStep

\* releaseView, the end of a view's borrow of its parent.
LEMMA ReleaseViewStep ==
  ASSUME SetInv, NEW p \in Procs, releaseView(p)
  PROVE  SetInv' /\ Stable /\ OthersKeep(p) /\ \A z \in Sets : ~Constructs(p, z)
<1>1. todo[p] # <<>> /\ Head(todo[p])[1] = "releaseView"
  BY DEF releaseView, Idle
<1>2. /\ Owing(todo) /\ todo \in [Procs -> Seq(Jobs)] /\ Shaped(todo[p])
  BY Read DEF SetInv, Types, Reading
<1> DEFINE t == Popped(todo, p)  e == Head(todo[p])
<1>3. /\ Owing(t) /\ e \in Jobs
      /\ \A z \in Sets : Borrows(t, z) = Borrows(todo, z) - Bit(e = <<"releaseView", z>>)
      /\ \A a \in Accounts : Due(t, a) = Due(todo, a) - Worth(e, a)
  BY <1>1, <1>2, OwePop
<1>4. PICK s \in Sets : e = <<"releaseView", s>>
  BY <1>1, <1>3 DEF Jobs
<1>5. /\ set' = [set EXCEPT ![s] = Returned(set[s])] /\ gauge' = gauge /\ lease' = lease
      /\ todo' = [todo EXCEPT ![p] =
                   (IF Frees(set[s]) THEN Refund(set[s].account, set[s].retained) \o ReleaseView(set[s].parent)
                                     ELSE <<>>) \o Tail(todo[p])]
  <2>1. Head(todo[p])[2] = s
    BY <1>4
  <2> QED
    BY <2>1 DEF releaseView
<1>6. Unwinding(todo[p]) /\ Unwinding(Tail(todo[p]))
  BY <1>1, <1>2, ListHead
<1>7. t[p] = Tail(todo[p]) /\ (\A r \in Procs \ {p} : t[r] = todo[r]) /\ t = [todo EXCEPT ![p] = Tail(todo[p])]
  BY <1>2 DEF Popped
<1>a. \A z \in Sets : Borrows(todo, z) \in Nat /\ Borrows(t, z) \in Nat
  BY <1>2, <1>3, OwingCounts
<1>b. \A a \in Accounts : Due(todo, a) \in Nat
  BY <1>2, OwingCounts
<1>8. /\ \A z \in Sets : Borrows(t, z) = Borrows(todo, z) - Is(s, z)
      /\ \A a \in Accounts : Due(t, a) = Due(todo, a)
  <2>1. \A z \in Sets : Bit(e = <<"releaseView", z>>) = Is(s, z)
    BY <1>4 DEF Bit, Is
  <2>2. \A a \in Accounts : Worth(e, a) = 0
    BY <1>4 DEF Worth
  <2>3. \A n \in Nat : n - 0 = n
    OBVIOUS
  <2> HIDE DEF t, e
  <2> QED
    BY <1>3, <1>b, <2>1, <2>2, <2>3
<1>9. set[s].borrowers >= 1
  <2>1. Borrows(todo, s) >= 1
    <3> HIDE DEF t
    <3>1. Is(s, s) = 1
      BY DEF Is
    <3> QED
      BY <1>8, <1>a, <3>1
  <2> QED
    BY <2>1, Held
<1> HIDE DEF t, e
<1>10. ReturnsTo(p, s, t)
  <2> DEFINE l == (IF Frees(set[s]) THEN Refund(set[s].account, set[s].retained) \o ReleaseView(set[s].parent)
                                    ELSE <<>>) \o Tail(todo[p])
  <2>1. todo' = [todo EXCEPT ![p] = l]
    BY <1>5
  <2>2. todo' = [t EXCEPT ![p] = l]
    <3> HIDE DEF l
    <3> QED
      BY <1>2, <1>7, <2>1
  <2>3. set'[s].borrowers = set[s].borrowers - 1 => GivesBack(p, s, t)
    BY <1>5, <1>8 DEF GivesBack
  <2> QED
    BY <1>5, <1>7, <2>2, <2>3 DEF ReturnsTo
<1>11. Settles(p, s, t) /\ Owing(todo') /\ Unwinding(todo'[p])
  BY <1>3, <1>6, <1>7, <1>9, <1>10, ReturnSettles
<1>12. Published(s)
  BY <1>9, HeldIsPublished
<1>13. \A z \in Sets : ~Constructs(p, z)
  BY <1>6, NotDoing DEF Constructs
<1> QED
  BY <1>3, <1>6, <1>11, <1>12, <1>13, SettleStep

\* Close: frees an unborrowed set, leaves a borrowed one to its last reader.
LEMMA CloseStep ==
  ASSUME SetInv, NEW p \in Procs, NEW s \in Sets, Published(s), Close(p, s)
  PROVE  SetInv' /\ Stable /\ OthersKeep(p)
<1> DEFINE d == set[s]  e == [d EXCEPT !.closed = TRUE]
<1>1. /\ Idle(p) /\ d.initialized /\ gauge' = gauge /\ lease' = lease
      /\ e.borrowers = 0 =>
           /\ set' = [set EXCEPT ![s] = free(e)]
           /\ todo' = [todo EXCEPT ![p] = ReleaseView(e.parent) \o Refund(e.account, e.retained)]
      /\ e.borrowers # 0 => set' = [set EXCEPT ![s] = e] /\ todo' = todo
  BY DEF Close
<1>2. /\ set \in [Sets -> Record] /\ d \in Record /\ d.borrowers \in Nat
      /\ d.account \in Accounts /\ d.retained \in Nat /\ d.parent \in Sets \cup {NoSet}
  BY Amounts DEF SetInv, Types, Record
<1>3. /\ e \in Record /\ e.initialized = d.initialized /\ e.borrowers = d.borrowers /\ e.account = d.account
      /\ e.retained = d.retained /\ e.entries = d.entries /\ e.parent = d.parent /\ e.closed
  BY <1>2 DEF Record
<1>d. Sound(d)
  BY DEF SetInv, Records
<1>4. /\ Owing(todo) /\ todo \in [Procs -> Seq(Jobs)] /\ todo[p] = <<>> /\ Unwinding(todo[p])
  BY <1>1 DEF SetInv, Types, Idle, Unwinding
<1> HIDE DEF e
<1>5. CASE d.borrowers = 0
  <2>1. /\ free(e) \in Record /\ free(e).borrowers = e.borrowers /\ free(e).initialized = e.initialized
        /\ free(e).closed = e.closed /\ free(e).account = e.account /\ free(e).retained = 0
        /\ free(e).entries = FALSE /\ free(e).parent = NoSet
    BY <1>3 DEF free, Record
  <2>2. set'[s] = free(e) /\ (\A w \in Sets \ {s} : set'[w] = set[w]) /\ set' \in [Sets -> Record]
    BY <1>1, <1>2, <1>3, <1>5, <2>1
  <2> DEFINE u == AddRefund(todo, p, d.account, d.retained)  w == AddReturn(u, p, d.parent)
  <2>3. /\ Owing(u)
        /\ \A z \in Sets : Borrows(u, z) = Borrows(todo, z)
        /\ \A b \in Accounts : Due(u, b) = Due(todo, b) + Part(d.retained, d.account, b)
        /\ Unwinding(todo[p]) => Unwinding(u[p])
        /\ \A r \in Procs \ {p} : u[r] = todo[r]
    BY <1>2, <1>4, OweRefund
  <2>4. /\ Owing(w)
        /\ \A z \in Sets : Borrows(w, z) = Borrows(u, z) + Is(d.parent, z)
        /\ \A b \in Accounts : Due(w, b) = Due(u, b)
        /\ Unwinding(u[p]) => Unwinding(w[p])
        /\ \A r \in Procs \ {p} : w[r] = u[r]
    <3> HIDE DEF u
    <3> QED
      BY <1>2, <2>3, OweReturn
  <2>5. todo' = w
    <3>1. Refund(d.account, d.retained) \o <<>> = Refund(d.account, d.retained)
      BY DEF Refund
    <3>2. u[p] = Refund(d.account, d.retained) /\ w[p] = ReleaseView(d.parent) \o Refund(d.account, d.retained)
      BY <1>4, <3>1 DEF AddRefund, AddReturn
    <3>3. todo' = [todo EXCEPT ![p] = ReleaseView(d.parent) \o Refund(d.account, d.retained)]
      BY <1>1, <1>3, <1>5
    <3>4. w \in [Procs -> Seq(Jobs)]
      BY <2>4 DEF Owing
    <3> HIDE DEF u, w, d
    <3> QED
      BY <1>4, <2>3, <2>4, <3>2, <3>3, <3>4
  <2> HIDE DEF u, w
  <2>6. GivesBack(p, s, todo)
    BY <1>1, <1>3, <1>5, <2>1, <2>2 DEF GivesBack
  <2>7. FreesOrKeeps(s, todo)
    BY <1>3, <1>5, <2>1, <2>2, <2>3, <2>4, <2>5 DEF FreesOrKeeps
  <2>8. Settles(p, s, todo)
    BY <1>1, <1>3, <2>1, <2>2, <2>3, <2>4, <2>5, <2>6, <2>7 DEF Settles
  <2>9. Owing(todo') /\ Unwinding(todo'[p])
    BY <1>4, <2>3, <2>4, <2>5
  <2> QED
    BY <1>4, <2>8, <2>9, SettleStep
<1>6. CASE d.borrowers # 0
  <2>1. set'[s] = e /\ (\A w \in Sets \ {s} : set'[w] = set[w]) /\ set' \in [Sets -> Record] /\ todo' = todo
    BY <1>1, <1>2, <1>3, <1>6
  <2>2. d.entries
    BY <1>1, <1>6, <1>d DEF Sound
  <2>3. GivesBack(p, s, todo)
    BY <1>1, <1>3, <2>1 DEF GivesBack
  <2>4. FreesOrKeeps(s, todo)
    BY <1>3, <1>6, <2>1, <2>2 DEF FreesOrKeeps
  <2>5. Settles(p, s, todo)
    BY <1>1, <1>3, <2>1, <2>3, <2>4 DEF Settles
  <2>6. Owing(todo') /\ Unwinding(todo'[p])
    BY <1>4, <2>1
  <2> QED
    BY <1>4, <2>5, <2>6, SettleStep
<1> QED
  BY <1>5, <1>6

\* refund, the release of bytes after the mutex.
LEMMA RefundStep ==
  ASSUME SetInv, NEW p \in Procs, refund(p)
  PROVE  SetInv' /\ Stable /\ OthersKeep(p) /\ \A z \in Sets : ~Constructs(p, z)
<1>1. todo[p] # <<>> /\ Head(todo[p])[1] = "refund" /\ set' = set /\ lease' = lease
  BY DEF refund, Idle
<1>2. /\ Owing(todo) /\ todo \in [Procs -> Seq(Jobs)] /\ Shaped(todo[p])
  BY Read DEF SetInv, Types, Reading
<1> DEFINE e == Head(todo[p])
<1>3. /\ Owing(Popped(todo, p)) /\ e \in Jobs
      /\ \A z \in Sets : Borrows(Popped(todo, p), z) = Borrows(todo, z) - Bit(e = <<"releaseView", z>>)
      /\ \A a \in Accounts : Due(Popped(todo, p), a) = Due(todo, a) - Worth(e, a)
  BY <1>1, <1>2, OwePop
<1>4. PICK b \in Accounts, n \in Nat : e = <<"refund", b, n>>
  BY <1>1, <1>3 DEF Jobs
<1>5. gauge' = [gauge EXCEPT ![b] = @ - n] /\ todo' = Popped(todo, p)
  <2>1. Head(todo[p])[2] = b /\ Head(todo[p])[3] = n
    BY <1>4
  <2> QED
    BY <2>1 DEF refund, Popped
<1>6. Unwinding(todo[p]) /\ Unwinding(Tail(todo[p]))
  BY <1>1, <1>2, ListHead
<1>7. todo'[p] = Tail(todo[p]) /\ \A r \in Procs \ {p} : todo'[r] = todo[r]
  BY <1>2, <1>5 DEF Popped
<1>a. /\ \A z \in Sets : set[z].borrowers \in Nat /\ Borrows(todo, z) \in Nat
      /\ \A a \in Accounts : Due(todo, a) \in Nat /\ gauge[a] \in Int
  BY Amounts
<1>8. /\ \A z \in Sets : Borrows(todo', z) = Borrows(todo, z)
      /\ \A a \in Accounts : Due(todo', a) = Due(todo, a) - Part(n, b, a)
  <2>1. \A z \in Sets : Bit(e = <<"releaseView", z>>) = 0
    BY <1>4 DEF Bit
  <2>2. \A a \in Accounts : Worth(e, a) = Part(n, b, a)
    BY <1>4 DEF Worth, Part
  <2>3. \A m \in Nat : m - 0 = m
    OBVIOUS
  <2> HIDE DEF e
  <2> QED
    BY <1>3, <1>5, <1>a, <2>1, <2>2, <2>3
<1>k. OthersKeep(p)
  BY <1>1, <1>7 DEF OthersKeep
<1>9. Types' /\ Owing(todo')
  <2>1. /\ set' \in [Sets -> Record]
        /\ gauge' \in [Accounts -> Int] /\ lease' \in [Procs -> Sets \cup {NoSet}]
    BY <1>1, <1>5 DEF SetInv, Types, Record
  <2>2. Owing(todo') /\ Unwinding(todo'[p])
    BY <1>3, <1>5, <1>6, <1>7
  <2> QED
    BY <1>k, <2>1, <2>2, TypesStep DEF SetInv
<1>10. Records'
  BY <1>1 DEF SetInv, Records
<1>11. /\ \A z : ~Doing(p, "import", z)' /\ ~Doing(p, "admit", z)' /\ ~Doing(p, "borrow", z)'
       /\ \A z : ~Constructs(p, z)' /\ ~Constructs(p, z)
       /\ \A z : ~Doing(p, "import", z) /\ ~Doing(p, "admit", z) /\ ~Doing(p, "borrow", z)
  BY <1>6, <1>7, Returning, NotDoing DEF Constructs
<1>12. Stable
  <2>1. ASSUME NEW z \in Sets, Published(z) PROVE Published(z)'
    <3>1. set'[z].initialized
      BY <1>1, <2>1 DEF Published
    <3> QED
      BY <1>9, <1>11, <1>k, <2>1, <3>1, StaysPublished DEF SetInv
  <2> QED
    BY <2>1 DEF Stable
<1>13. Constructions'
  <2>1. WorksAlone(p)
    BY <1>1, <1>11 DEF WorksAlone
  <2>2. Constructing(p)'
    BY <1>1, <1>11 DEF Constructing, SetInv, Constructions
  <2> QED
    BY <1>9, <1>12, <1>k, <2>1, <2>2, ConstructionsStep
<1>14. BorrowCount'
  BY <1>1, <1>8 DEF SetInv, BorrowCount, Leases, Views
<1>15. ByteCount'
  <2>1. \A z \in Sets : Admitted(z)' <=> Admitted(z)
    BY <1>9, <1>11, <1>k, StaysAdmitted DEF SetInv
  <2>2. ASSUME NEW a \in Accounts
        PROVE  /\ IsFiniteSet(SetBytes(a)')
               /\ gauge'[a] = Cardinality(SetBytes(a)') + LeaseBytes * Cardinality(Leased(a)') + Due(todo', a)
    <3>1. SetBytes(a)' = SetBytes(a)
      BY <1>1, <2>1 DEF SetBytes
    <3>2. Leased(a)' = Leased(a)
      <4>1. \A r \in Procs : (todo'[r] # <<>> /\ Head(todo'[r])[1] = "borrow") <=> (todo[r] # <<>> /\ Head(todo[r])[1] = "borrow")
        <5>1. \A r \in Procs : (\E s \in Sets : Doing(r, "borrow", s)') <=> \E s \in Sets : Doing(r, "borrow", s)
          BY <1>11, <1>k, OthersDo
        <5> QED
          BY <1>9, <5>1, Read, ReadNext DEF SetInv, Reading
      <4> QED
        BY <1>1, <4>1 DEF Leased, Idle
    <3>3. gauge[a] = Cardinality(SetBytes(a)) + LeaseBytes * Cardinality(Leased(a)) + Due(todo, a) /\ IsFiniteSet(SetBytes(a))
      BY DEF SetInv, ByteCount
    <3>4. Cardinality(SetBytes(a)) \in Nat /\ LeaseBytes * Cardinality(Leased(a)) \in Nat
      <4>1. IsFiniteSet(Leased(a))
        BY SetAssumption, FS_Subset DEF Leased
      <4>2. Cardinality(Leased(a)) \in Nat /\ LeaseBytes \in Nat
        BY <4>1, FS_CardinalityType, SetAssumption
      <4> DEFINE c == Cardinality(Leased(a))
      <4>3. c \in Nat /\ LeaseBytes \in Nat
        BY <4>2
      <4> HIDE DEF c
      <4>4. LeaseBytes * c \in Nat
        BY <4>3
      <4> QED
        BY <3>3, <4>4, FS_CardinalityType DEF c
    <3>5. gauge'[a] = gauge[a] - Part(n, b, a) /\ Part(n, b, a) \in Nat
      BY <1>5, <1>a DEF SetInv, Types, Part
    <3> DEFINE x == Cardinality(SetBytes(a))  y == LeaseBytes * Cardinality(Leased(a))
    <3>6. x \in Nat /\ y \in Nat /\ gauge[a] = x + y + Due(todo, a)
      BY <3>3, <3>4
    <3>7. Due(todo', a) = Due(todo, a) - Part(n, b, a) /\ Due(todo, a) \in Nat
      BY <1>8, <1>a
    <3> HIDE DEF x, y
    <3>8. gauge'[a] = x + y + Due(todo', a)
      BY <3>5, <3>6, <3>7
    <3> QED
      BY <3>1, <3>2, <3>3, <3>8 DEF x, y
  <2> QED
    BY <2>2 DEF ByteCount
<1> QED
  BY <1>9, <1>10, <1>11, <1>12, <1>13, <1>14, <1>15, <1>k DEF SetInv

\* The import of the bundled set under the mutex of the cache, in one step.
LEMMA CacheImportedStep ==
  ASSUME SetInv, NEW p \in Procs, NEW s \in Sets, CacheImported(p, s)
  PROVE  SetInv' /\ Stable /\ OthersKeep(p) /\ Published(s)'
<1>1. /\ ~set[s].initialized
      /\ set' = [set EXCEPT ![s] = Fresh(ImportAccount, Bytes, NoSet)]
      /\ gauge' = [gauge EXCEPT ![ImportAccount] = @ + Bytes]
      /\ todo' = todo /\ lease' = lease
  BY DEF CacheImported, FirstFree
<1>k. OthersKeep(p)
  BY <1>1 DEF OthersKeep
<1>3. /\ ImportAccount \in Accounts /\ Bytes \in Nat
      /\ set'[s] = Fresh(ImportAccount, Bytes, NoSet) /\ set[s] = Unallocated
      /\ \A w \in Sets \ {s} : set'[w] = set[w]
  BY <1>1, SetAssumption, CallAssumption DEF SetInv, Types, Records, Sound
<1>4. Types' /\ Owing(todo')
  BY <1>1, <1>3 DEF SetInv, Types, Fresh, Doing
<1>5. Records'
  BY <1>3 DEF SetInv, Records, Sound, Fresh
<1>6. \A r, kind, z : (Doing(r, kind, z)' <=> Doing(r, kind, z)) /\ (Constructs(r, z)' <=> Constructs(r, z))
  BY <1>1 DEF Doing, Constructs
<1>a. \A r \in Procs : ~Constructs(r, s) /\ ~Constructs(r, s)'
  BY <1>1, <1>6 DEF SetInv, Constructions
<1>b. Published(s)'
  <2>1. set'[s].initialized
    BY <1>3 DEF Fresh
  <2> QED
    BY <1>4, <1>a, <2>1, ReadNext DEF Reading
<1>7. Stable
  <2>1. ASSUME NEW z \in Sets, Published(z) PROVE Published(z)'
    <3>1. z # s /\ set'[z].initialized /\ ~Constructs(p, z)'
      BY <1>1, <1>3, <1>6, <2>1, Read DEF SetInv, Reading
    <3> QED
      BY <1>4, <1>k, <2>1, <3>1, StaysPublished DEF SetInv
  <2> QED
    BY <2>1 DEF Stable
<1>8. Constructions'
  <2>0. set[s].borrowers = 0
    BY <1>3 DEF Unallocated
  <2>1. WorksAlone(p)
    <3>1. \A r \in Procs \ {p}, z \in Sets : Constructs(r, z) => set'[z] = set[z] /\ ~Constructs(p, z)'
      BY <1>3, <1>6, <1>a DEF SetInv, Constructions
    <3>2. ASSUME NEW z \in Sets, set[z].borrowers >= 1 PROVE set'[z].account = set[z].account
      <4>1. z # s
        BY <2>0, <3>2
      <4> QED
        BY <1>3, <4>1
    <3> QED
      BY <3>1, <3>2 DEF WorksAlone
  <2>2. Constructing(p)'
    <3>1. ASSUME lease[p] # NoSet PROVE lease[p] \in Sets \ {s} /\ set[lease[p]].account = AccountOf[p]
      BY <2>0, <3>1, Leaseholder
    <3>2. \A z \in Sets : Constructs(p, z) => z # s
      BY <1>a
    <3>3. \A z \in Sets : Doing(p, "borrow", z) => lease[p] = NoSet /\ Published(z)'
      BY <1>7 DEF SetInv, Constructions, Stable
    <3>4. \A z \in Sets : Constructs(p, z) =>
            /\ set[z].initialized /\ ~set[z].closed /\ set[z].borrowers = 0
            /\ set[z].account = AccountOf[p]
            /\ Doing(p, "import", z) => set[z].parent = NoSet
      BY DEF SetInv, Constructions
    <3> QED
      BY <1>1, <1>3, <1>6, <3>1, <3>2, <3>3, <3>4 DEF Constructing
  <2> QED
    BY <1>4, <1>7, <1>k, <2>1, <2>2, ConstructionsStep
<1>9. BorrowCount' /\ ByteCount'
  <2>1. SetsKeep(s)
    BY <1>3, <1>4, <1>6, <1>k, StaysAdmitted DEF SetInv, SetsKeep
  <2>a. \A a \in Accounts : gauge[a] \in Int /\ Due(todo, a) \in Nat /\ Lent(p, a) \in Nat
    BY Amounts
  <2>2. BorrowsMove(p, s)
    <3>1. lease'[p] = lease[p] /\ set'[s].parent = set[s].parent /\ \A z \in Sets : set'[z].borrowers = set[z].borrowers
      BY <1>1, <1>3 DEF Fresh, Unallocated
    <3> QED
      BY <1>1, <3>1, SameBorrows
  <2>3. BytesMove(p, s)
    <3> DEFINE n(a) == Part(Bytes, ImportAccount, a)
    <3>2. \A a \in Accounts : Lent(p, a)' = Lent(p, a)
      BY <1>1, <1>4, <1>6, SameLent DEF Borrowing, SetInv
    <3>3. \A a \in Accounts : Charged(s, a) = 0
      BY <1>3 DEF Charged, Unallocated
    <3>4. Admitted(s)'
      BY <1>4, <1>a, ReadNext DEF Reading, Constructs
    <3>5. \A a \in Accounts : Charged(s, a)' = n(a) /\ n(a) \in Nat
      BY <1>3, <3>4 DEF Charged, Fresh, Part
    <3>6. \A a \in Accounts : gauge'[a] = gauge[a] + n(a)
      BY <1>1, <1>3, <2>a DEF SetInv, Types, Part
    <3> HIDE DEF n
    <3>7. \A a \in Accounts : gauge'[a] = gauge[a] - 0 + n(a) - Lent(p, a) + Lent(p, a) - Due(todo, a) + Due(todo, a)
      BY <2>a, <3>5, <3>6
    <3> QED
      BY <1>1, <3>2, <3>3, <3>5, <3>7 DEF BytesMove
  <2> QED
    BY <1>4, <1>k, <2>1, <2>2, <2>3, CountStep
<1> QED
  BY <1>4, <1>5, <1>7, <1>8, <1>9, <1>b, <1>k DEF SetInv

-----------------------------------------------------------------------------
(* The calls                                                                *)

\* A step that leaves the sets alone.
LEMMA SetsUnchanged ==
  ASSUME SetInv, UNCHANGED setVars, NEW p
  PROVE  SetInv' /\ Stable /\ OthersKeep(p)
<1>1. set' = set /\ gauge' = gauge /\ lease' = lease /\ todo' = todo
  BY DEF setVars
<1>2. \A s : Published(s)' <=> Published(s)
  BY <1>1 DEF Published, Idle
<1>3. \A r, kind, s : (Doing(r, kind, s)' <=> Doing(r, kind, s)) /\ (Constructs(r, s)' <=> Constructs(r, s))
  BY <1>1 DEF Doing, Constructs
<1>4. Types' /\ Owing(todo') /\ Records'
  <2>1. Types'
    BY <1>1 DEF SetInv, Types, Doing
  <2>2. Records'
    BY <1>1 DEF SetInv, Records
  <2> QED
    BY <1>1, <2>1, <2>2 DEF SetInv
<1>5. Constructions'
  BY <1>1, <1>2, <1>3 DEF SetInv, Constructions
<1>6. BorrowCount'
  BY <1>1 DEF SetInv, BorrowCount, Leases, Views
<1>7. ByteCount'
  BY <1>1 DEF SetInv, ByteCount, SetBytes, Leased, Admitted, Idle
<1> QED
  BY <1>1, <1>2, <1>4, <1>5, <1>6, <1>7 DEF SetInv, Stable, OthersKeep

\* What a step of process p leaves to the calls of the others.
CallsKeep(p) ==
  /\ \A r \in Procs \ {p} : pc'[r] = pc[r] /\ mine'[r] = mine[r]
  /\ pc' = [r \in Procs |-> pc'[r]]
  /\ mine' \in [Procs -> Sets \cup {NoSet}]
  /\ cache' = cache \/ (cache' \in Sets /\ \A s \in Sets : cache' = s => Published(s)')

\* A step of one call keeps what the others know: sets stay published.
LEMMA CallsStep ==
  ASSUME Calls, NEW p \in Procs, Stable, OthersKeep(p), CallsKeep(p), CallOf(p)'
  PROVE  Calls'
<1>1. cache' \in Sets \cup {NoSet} /\ (\A s \in Sets : cache' = s => Published(s)') /\ (cache # NoSet => cache' # NoSet)
  BY SetAssumption DEF Calls, CallsKeep, Stable
<1>2. ASSUME NEW r \in Procs PROVE CallOf(r)'
  <2>1. CASE r = p
    BY <2>1
  <2>2. CASE r # p
    <3>1. pc'[r] = pc[r] /\ mine'[r] = mine[r] /\ CallOf(r)
      BY <2>2 DEF CallsKeep, Calls
    <3>2. \A s \in Sets : Constructs(r, s) => Constructs(r, s)'
      BY <2>2, OthersDo
    <3> QED
      BY <1>1, <3>1, <3>2 DEF CallOf, Stable
  <2> QED
    BY <2>1, <2>2
<1> QED
  BY <1>1, <1>2 DEF Calls, CallsKeep

\* Process p goes to a label that promises nothing.
LEMMA Goes ==
  ASSUME Calls, NEW p \in Procs, NEW l, Goto(p, l), mine' = mine, cache' = cache
  PROVE  CallsKeep(p) /\ pc'[p] = l
<1>1. pc = [r \in Procs |-> pc[r]] /\ pc' = [pc EXCEPT ![p] = l]
  BY DEF Calls, Goto
<1> QED
  BY <1>1 DEF CallsKeep, Calls

\* The frame of a step that moves a call to l with set v.
LEMMA GoesWith ==
  ASSUME Calls, NEW p \in Procs, NEW l, Goto(p, l), NEW v \in Sets \cup {NoSet},
         mine' = [mine EXCEPT ![p] = v], cache' = cache
  PROVE  CallsKeep(p) /\ pc'[p] = l /\ mine'[p] = v
<1>1. pc = [r \in Procs |-> pc[r]] /\ pc' = [pc EXCEPT ![p] = l] /\ mine \in [Procs -> Sets \cup {NoSet}]
  BY DEF Calls, Goto
<1> QED
  BY <1>1 DEF CallsKeep

\* A step that leaves the sets alone.
LEMMA PureStep ==
  ASSUME Inv, NEW p \in Procs, UNCHANGED setVars, NEW l, Goto(p, l), mine' = mine, cache' = cache,
         l \notin {"loading", "begin", "beginning", "session"},
         l = "share" => cache # NoSet, l = "close" => pc[p] = "begin"
  PROVE  Inv'
<1>1. SetInv' /\ Stable /\ OthersKeep(p)
  BY SetsUnchanged DEF Inv
<1>2. CallsKeep(p) /\ pc'[p] = l
  BY Goes DEF Inv
<1>3. CallOf(p)'
  BY <1>1, <1>2 DEF CallOf, Inv, Calls, Stable
<1> QED
  BY <1>1, <1>2, <1>3, CallsStep DEF Inv

\* A step that leaves the calls where they are.
LEMMA SameCalls ==
  ASSUME Inv, NEW p \in Procs, SetInv', Stable, OthersKeep(p), UNCHANGED callVars,
         pc[p] # "loading" \/ \A z \in Sets : ~Constructs(p, z)
  PROVE  Inv'
<1>1. pc' = pc /\ mine' = mine /\ cache' = cache
  BY DEF callVars
<1>2. CallsKeep(p)
  BY <1>1 DEF Inv, Calls, CallsKeep
<1>3. CallOf(p)'
  <2>1. mine[p] \in Sets \cup {NoSet} /\ CallOf(p)
    BY DEF Inv, Calls
  <2>2. pc[p] # "loading"
    BY <2>1 DEF CallOf
  <2> QED
    BY <1>1, <2>1, <2>2 DEF CallOf, Stable
<1> QED
  BY <1>2, <1>3, CallsStep DEF Inv

\* The invariant holds initially: no set is allocated.
LEMMA Initial == Init => Inv
<1> SUFFICES ASSUME Init PROVE Inv
  OBVIOUS
<1>1. /\ set = [s \in Sets |-> Unallocated] /\ gauge = [a \in Accounts |-> 0]
      /\ lease = [p \in Procs |-> NoSet] /\ todo = [p \in Procs |-> <<>>]
      /\ pc \in Programs /\ mine = [p \in Procs |-> NoSet] /\ cache = NoSet
  BY DEF Init, InitSets
<1>0. \A p \in Procs : AccountOf[p] \in Accounts
  BY SetAssumption
<1>a. ImportAccount \in Accounts
  BY CallAssumption
<1>2. Types
  <2>1. Unallocated \in Record
    BY <1>a DEF Unallocated, Record
  <2> QED
    BY <1>1, <2>1 DEF Types, Record, Unwinding
<1>e. Cardinality({}) = 0 /\ IsFiniteSet({})
  BY FS_EmptySet
<1>3. /\ Items(todo) = {}
      /\ \A s : Returns(todo, s) = {}
      /\ \A a : Refunds(todo, a) = {}
  <2>1. Items(todo) = {}
    BY <1>1 DEF Items
  <2> QED
    BY <2>1 DEF Returns, Refunds
<1>4. Owing(todo)
  BY <1>2, <1>3, <1>e DEF Owing, Types
<1>5. Records
  BY <1>1 DEF Records, Sound, Unallocated
<1>6. \A p \in Procs : \A kind, s : ~Doing(p, kind, s)
  BY <1>1 DEF Doing
<1>7. Constructions
  BY <1>1, <1>6 DEF Constructions, Constructs
<1>8. BorrowCount
  <2>1. \A s \in Sets : Leases(s) = {} /\ Views(s) = {}
    BY <1>1, SetAssumption DEF Leases, Views, Unallocated
  <2>2. \A s \in Sets : set[s].borrowers = 0
    BY <1>1 DEF Unallocated
  <2> QED
    BY <1>3, <1>e, <2>1, <2>2 DEF BorrowCount, Borrows
<1>9. ByteCount
  <2>1. \A a \in Accounts : SetBytes(a) = {}
    BY <1>1 DEF SetBytes, Unallocated
  <2>2. \A a \in Accounts : Leased(a) = {}
    BY <1>1 DEF Leased, Idle
  <2>3. LeaseBytes * 0 = 0
    BY SetAssumption
  <2>4. ASSUME NEW a \in Accounts
        PROVE  /\ IsFiniteSet(SetBytes(a))
               /\ gauge[a] = Cardinality(SetBytes(a)) + LeaseBytes * Cardinality(Leased(a)) + Due(todo, a)
    <3>1. gauge[a] = 0 /\ Cardinality(SetBytes(a)) = 0 /\ Due(todo, a) = 0 /\ Cardinality(Leased(a)) = 0
      BY <1>1, <1>3, <1>e, <2>1, <2>2 DEF Due
    <3>2. LeaseBytes * Cardinality(Leased(a)) = 0
      BY <2>3, <3>1
    <3>3. 0 = 0 + 0 + 0
      OBVIOUS
    <3> QED
      BY <1>e, <2>1, <3>1, <3>2, <3>3
  <2> QED
    BY <2>4 DEF ByteCount
<1>10. Calls
  <2>1. pc \in [Procs -> {"load", "user", "done"}]
    BY <1>1, CallAssumption
  <2> QED
    BY <1>1, <2>1, SetAssumption DEF Calls, CallOf
<1> QED
  BY <1>2, <1>4, <1>5, <1>7, <1>8, <1>9, <1>10 DEF Inv, SetInv

\* Every step of a call keeps the invariant.
LEMMA CallStep ==
  ASSUME Inv, NEW p \in Procs, Step(p)
  PROVE  Inv'
<1>0. SetInv /\ Calls /\ CallOf(p) /\ mine[p] \in Sets \cup {NoSet} /\ cache \in Sets \cup {NoSet}
  BY DEF Inv, Calls
<1>1. CASE Load(p)
  <2>1. PICK next \in {"done", "lock", "import"} : Goto(p, next)
    BY <1>1 DEF Load
  <2> QED
    BY <1>1, <2>1, PureStep DEF Load
<1>2. CASE LockCache(p)
  BY <1>2, PureStep DEF LockCache
<1>3. CASE CacheHit(p)
  BY <1>3, PureStep DEF CacheHit
<1>4. CASE CacheMiss(p)
  BY <1>4, PureStep DEF CacheMiss
<1>5. CASE CacheFailure(p)
  BY <1>5, PureStep DEF CacheFailure
<1>6. ASSUME NEW s \in Sets, CacheImported(p, s) PROVE Inv'
  <2>1. SetInv' /\ Stable /\ OthersKeep(p) /\ Published(s)'
    BY <1>0, <1>6, CacheImportedStep
  <2>2. cache' = s /\ Goto(p, "share") /\ mine' = mine
    BY <1>6 DEF CacheImported
  <2>3. CallsKeep(p) /\ pc'[p] = "share"
    BY <1>0, <2>1, <2>2 DEF CallsKeep, Calls, Goto
  <2>4. CallOf(p)'
    BY <2>2, <2>3, SetAssumption DEF CallOf
  <2> QED
    BY <1>0, <2>1, <2>3, <2>4, CallsStep DEF Inv
<1>7. ASSUME NEW v \in Sets, ShareCached(p, v) PROVE Inv'
  <2>1. PICK q \in Sets : q = cache /\ Published(q)
    BY <1>0, <1>7 DEF ShareCached, CallOf, Calls
  <2>2. /\ shareDictionarySet(p, q, v) /\ mine' = [mine EXCEPT ![p] = v] /\ Goto(p, "loading")
        /\ cache' = cache
    BY <1>7, <2>1 DEF ShareCached
  <2>3. SetInv' /\ Stable /\ OthersKeep(p) /\ Constructs(p, v)'
    BY <1>0, <2>1, <2>2, ShareStep
  <2>4. CallsKeep(p) /\ pc'[p] = "loading" /\ mine'[p] = v
    BY <1>0, <2>2, GoesWith
  <2>5. CallOf(p)'
    BY <2>3, <2>4, SetAssumption DEF CallOf
  <2> QED
    BY <1>0, <2>3, <2>4, <2>5, CallsStep DEF Inv
<1>8. ASSUME NEW v \in Sets, ImportOwn(p, v) PROVE Inv'
  <2>2. /\ NewDictionarySet(p, v, AccountOf[p]) /\ mine' = [mine EXCEPT ![p] = v] /\ Goto(p, "loading")
        /\ cache' = cache
    BY <1>8 DEF ImportOwn
  <2>3. SetInv' /\ Stable /\ OthersKeep(p) /\ Constructs(p, v)'
    BY <1>0, <2>2, NewStep
  <2>4. CallsKeep(p) /\ pc'[p] = "loading" /\ mine'[p] = v
    BY <1>0, <2>2, GoesWith
  <2>5. CallOf(p)'
    BY <2>3, <2>4, SetAssumption DEF CallOf
  <2> QED
    BY <1>0, <2>3, <2>4, <2>5, CallsStep DEF Inv
<1>9. CASE LoadRefused(p)
  BY <1>9, PureStep DEF LoadRefused
<1>10. ASSUME NEW ok \in BOOLEAN, EndLoad(p, ok) PROVE Inv'
  <2>1. /\ pc[p] = "loading" /\ Goto(p, IF ok THEN "begin" ELSE "done")
        /\ mine' = [mine EXCEPT ![p] = IF ok THEN mine[p] ELSE NoSet] /\ cache' = cache
    BY <1>10 DEF EndLoad
  <2>2. /\ SetInv' /\ Stable /\ OthersKeep(p)
        /\ ok => \A s \in Sets : Constructs(p, s) => Published(s)'
    BY <1>0, <1>10, EndImportStep, AdmitStep DEF EndLoad
  <2>3. CASE ok
    <3>1. Goto(p, "begin") /\ mine' = [mine EXCEPT ![p] = mine[p]]
      BY <2>1, <2>3
    <3>2. CallsKeep(p) /\ pc'[p] = "begin" /\ mine'[p] = mine[p]
      BY <1>0, <2>1, <3>1, GoesWith
    <3>3. CallOf(p)'
      BY <1>0, <2>1, <2>2, <2>3, <3>2 DEF CallOf
    <3> QED
      BY <1>0, <2>2, <3>2, <3>3, CallsStep DEF Inv
  <2>4. CASE ~ok
    <3>1. Goto(p, "done") /\ mine' = [mine EXCEPT ![p] = NoSet]
      BY <2>1, <2>4
    <3>2. CallsKeep(p) /\ pc'[p] = "done"
      <4>1. NoSet \in Sets \cup {NoSet}
        OBVIOUS
      <4>2. CallsKeep(p) /\ pc'[p] = "done" /\ mine'[p] = NoSet
        BY <1>0, <2>1, <3>1, <4>1, GoesWith
      <4> QED
        BY <4>2
    <3>3. CallOf(p)'
      BY <3>2 DEF CallOf
    <3> QED
      BY <1>0, <2>2, <3>2, <3>3, CallsStep DEF Inv
  <2> QED
    BY <2>3, <2>4
<1>11. CASE Begin(p)
  <2>1. pc[p] = "begin" /\ Goto(p, "beginning") /\ mine' = mine /\ cache' = cache
    BY <1>11 DEF Begin
  <2>2. PICK s \in Sets : s = mine[p] /\ Published(s)
    BY <1>0, <2>1 DEF CallOf
  <2>3. SetInv' /\ Stable /\ OthersKeep(p)
    BY <1>0, <1>11, <2>2, ChargeLeaseStep DEF Begin
  <2>4. CallsKeep(p) /\ pc'[p] = "beginning"
    BY <1>0, <2>1, Goes
  <2>5. CallOf(p)'
    BY <1>0, <2>1, <2>3, <2>4 DEF CallOf, Stable
  <2> QED
    BY <1>0, <2>3, <2>4, <2>5, CallsStep DEF Inv
<1>12. CASE BeginRefused(p)
  BY <1>12, PureStep DEF BeginRefused
<1>13. CASE Borrow(p)
  <2>1. /\ pc[p] = "beginning" /\ mine' = mine /\ cache' = cache
        /\ Goto(p, IF lease'[p] = NoSet THEN "close" ELSE "session")
    BY <1>13 DEF Borrow
  <2>2. PICK l \in {"close", "session"} : Goto(p, l)
    BY <2>1
  <2>3. SetInv' /\ Stable /\ OthersKeep(p)
    BY <1>0, <1>13, BorrowStep DEF Borrow
  <2>4. CallsKeep(p) /\ pc'[p] = l
    BY <1>0, <2>1, <2>2, Goes
  <2>5. CallOf(p)'
    BY <1>0, <2>1, <2>3, <2>4 DEF CallOf, Stable
  <2> QED
    BY <1>0, <2>3, <2>4, <2>5, CallsStep DEF Inv
<1>14. CASE EndSession(p)
  <2>1. pc[p] = "session" /\ Goto(p, "close") /\ mine' = mine /\ cache' = cache
    BY <1>14 DEF EndSession
  <2>3. SetInv' /\ Stable /\ OthersKeep(p)
    BY <1>0, <1>14, ReleaseStep DEF EndSession
  <2>4. CallsKeep(p) /\ pc'[p] = "close"
    BY <1>0, <2>1, Goes
  <2>5. CallOf(p)'
    BY <1>0, <2>1, <2>3, <2>4 DEF CallOf, Stable
  <2> QED
    BY <1>0, <2>3, <2>4, <2>5, CallsStep DEF Inv
<1>15. CASE CloseOwn(p)
  <2>1. pc[p] = "close" /\ Goto(p, "done") /\ mine' = mine /\ cache' = cache
    BY <1>15 DEF CloseOwn
  <2>2. PICK s \in Sets : s = mine[p] /\ Published(s)
    BY <1>0, <2>1 DEF CallOf
  <2>3. SetInv' /\ Stable /\ OthersKeep(p)
    BY <1>0, <1>15, <2>2, CloseStep DEF CloseOwn
  <2>4. CallsKeep(p) /\ pc'[p] = "done"
    BY <1>0, <2>1, Goes
  <2>5. CallOf(p)'
    BY <2>4 DEF CallOf
  <2> QED
    BY <1>0, <2>3, <2>4, <2>5, CallsStep DEF Inv
<1>16. CASE Unwind(p)
  <2>1. UNCHANGED callVars
    BY <1>16 DEF Unwind
  <2>2. SetInv' /\ Stable /\ OthersKeep(p) /\ \A z \in Sets : ~Constructs(p, z)
    BY <1>0, <1>16, ReleaseViewStep, RefundStep DEF Unwind
  <2> QED
    BY <2>1, <2>2, SameCalls
<1> QED
  BY <1>1, <1>2, <1>3, <1>4, <1>5, <1>6, <1>7, <1>8, <1>9, <1>10, <1>11, <1>12, <1>13, <1>14, <1>15, <1>16 DEF Step

\* Every operation of a direct user of sets keeps the invariant.
LEMMA UseStep ==
  ASSUME Inv, NEW p \in Procs, UseSets(p)
  PROVE  Inv' /\ OthersKeep(p)
<1>0. SetInv /\ UserSets \subseteq Sets
  BY CallAssumption DEF Inv
<1>1. pc[p] = "user" /\ Use(p, UserSets) /\ UNCHANGED callVars
  BY DEF UseSets
<1>2. SetInv' /\ Stable /\ OthersKeep(p)
  <2>1. CASE Continue(p)
    <3>1. ASSUME NEW ok \in BOOLEAN, EndImport(p, ok) \/ AdmitView(p, ok) PROVE SetInv' /\ Stable /\ OthersKeep(p)
      BY <1>0, <3>1, EndImportStep, AdmitStep
    <3> QED
      BY <1>0, <2>1, <3>1, BorrowStep, ReleaseViewStep, RefundStep DEF Continue
  <2>2. CASE release(p)
    BY <1>0, <2>2, ReleaseStep
  <2>3. ASSUME NEW s \in UserSets, NewDictionarySet(p, s, AccountOf[p]) PROVE SetInv' /\ Stable /\ OthersKeep(p)
    BY <1>0, <2>3, NewStep
  <2>4. ASSUME NEW s \in UserSets, Published(s), ChargeLease(p, s) PROVE SetInv' /\ Stable /\ OthersKeep(p)
    BY <1>0, <2>4, ChargeLeaseStep
  <2>5. ASSUME NEW s \in UserSets, Published(s), Close(p, s) PROVE SetInv' /\ Stable /\ OthersKeep(p)
    BY <1>0, <2>5, CloseStep
  <2>6. ASSUME NEW s \in UserSets, NEW q \in UserSets, Published(q), shareDictionarySet(p, q, s)
        PROVE  SetInv' /\ Stable /\ OthersKeep(p)
    BY <1>0, <2>6, ShareStep
  <2> QED
    BY <1>1, <2>1, <2>2, <2>3, <2>4, <2>5, <2>6 DEF Use
<1> QED
  BY <1>1, <1>2, SameCalls

\* Borrows, bytes, records and calls fit together after every interleaving of
\* NewDictionarySet, shareDictionarySet, borrow, release and Close by any number
\* of goroutines.
THEOREM SetsInductive == Spec => []Inv
<1>1. Init => Inv
  BY Initial
<1>2. Inv /\ [Next]_vars => Inv'
  <2> SUFFICES ASSUME Inv, [Next]_vars PROVE Inv'
    OBVIOUS
  <2>1. ASSUME NEW p \in Callers, Step(p) PROVE Inv'
    BY <2>1, CallStep DEF Callers
  <2>2. ASSUME NEW p \in Procs \ Callers, UseSets(p) PROVE Inv'
    BY <2>2, UseStep
  <2>3. CASE UNCHANGED vars
    <3>1. UNCHANGED setVars /\ pc' = pc /\ mine' = mine /\ cache' = cache
      BY <2>3 DEF vars, callVars
    <3>2. SetInv'
      BY <3>1, SetsUnchanged DEF Inv
    <3>3. set' = set /\ todo' = todo
      BY <3>1 DEF setVars
    <3>4. Calls'
      BY <3>1, <3>3 DEF Inv, Calls, CallOf, Published, Constructs, Doing, Idle
    <3> QED
      BY <3>2, <3>4 DEF Inv
  <2> QED
    BY <2>1, <2>2, <2>3 DEF Next
<1> QED
  BY <1>1, <1>2, PTL DEF Spec

\* The borrow count of a set is the number of its sessions, views and returns
\* under way, it keeps its entries exactly until it is closed and unborrowed, and
\* the gauge of an account is what its sets and leases hold and what is being
\* refunded: whichever of Close, release and releaseView comes last frees a set,
\* once.
THEOREM EveryBorrowAndByteHasAnOwner == Spec => []AccountsExact
<1>1. Inv => AccountsExact
  <2> SUFFICES ASSUME Inv PROVE AccountsExact
    OBVIOUS
  <2>1. BorrowersExact
    BY DEF Inv, SetInv, BorrowCount, Records, Sound, Borrows, BorrowersExact
  <2>2. GaugeExact
    BY DEF Inv, SetInv, ByteCount, Due, GaugeExact
  <2> QED
    BY <2>1, <2>2 DEF AccountsExact
<1> QED
  BY <1>1, SetsInductive, PTL

\* A session that borrow admitted, and a view that shareDictionarySet made, read
\* entries that are still there, although Close may run at any moment.
THEOREM ReadersAlwaysKeepData == Spec => []ReadersKeepData
<1>1. Inv => ReadersKeepData
  <2> SUFFICES ASSUME Inv PROVE ReadersKeepData
    OBVIOUS
  <2>1. SetInv
    BY DEF Inv
  <2>2. ASSUME NEW p \in Procs, lease[p] # NoSet PROVE set[lease[p]].entries
    BY <2>1, <2>2, Leaseholder, HeldIsPublished
  <2>3. ASSUME NEW v \in Sets, set[v].parent # NoSet PROVE set[set[v].parent].entries
    <3>1. set[v].parent \in Sets
      BY <2>1, <2>3, Amounts
    <3>2. set[set[v].parent].borrowers >= 1
      BY <2>1, <3>1, Held
    <3> QED
      BY <2>1, <3>1, <3>2, HeldIsPublished
  <2> QED
    BY <2>2, <2>3 DEF ReadersKeepData
<1> QED
  BY <1>1, SetsInductive, PTL

-----------------------------------------------------------------------------
(* What the calls leave                                                     *)

\* The sets are used directly, not by calls.
UserRun == \E p \in Procs : pc[p] = "user"

\* A call has a set of its own.
Active(p) == pc[p] \in {"loading", "begin", "beginning", "session", "close"}

\* The parents of views: the cached set is the only one that calls share.
Parents == IF UserRun THEN Sets ELSE {cache}

\* What a list gives back: no bytes of the cache, and borrows of sets of V only;
\* it asks for borrows of sets of B only.
Clean(l, V, B) ==
  \A i \in 1..Len(l) : /\ l[i][1] = "refund" => l[i][2] # ImportAccount
                       /\ l[i][1] = "releaseView" => l[i][2] \in V
                       /\ l[i][1] = "borrow" => l[i][2] \in B

\* The sets that process p may be about to borrow: a call only its own.
Asked(p) == IF UserRun THEN Sets ELSE IF pc[p] = "beginning" THEN {mine[p]} ELSE {}

\* The cached set: open, with the bundled data.
IsBundle(d) ==
  /\ d.initialized /\ ~d.closed /\ d.account = ImportAccount /\ d.retained = Bytes /\ d.parent = NoSet

\* The cached set is the only one of its account, and nothing gives it back.
Bundled ==
  /\ \A s \in Sets : set[s].initialized /\ set[s].account = ImportAccount => s = cache
  /\ \A s \in Sets : s = cache => IsBundle(set[s])
  /\ \A s \in Sets : set[s].parent \in {NoSet} \cup Parents
  /\ \A p \in Procs : Clean(todo[p], Parents, Asked(p))

\* One call at a time is in the cache, and none in a run of users.
Exclusive ==
  /\ \A p \in Procs : pc[p] \in {"cache", "importing"} => lock = p
  /\ \A p \in Procs : pc[p] = "importing" => cache = NoSet
  /\ UserRun => cache = NoSet /\ \A p \in Procs : pc[p] \in {"user", "done"}

\* What a call knows of its own set and of its own session.
OwnSet(p) ==
  Active(p) => mine[p] # cache /\ ~set[mine[p]].closed /\ set[mine[p]].account = AccountOf[p]
OwnLease(p) == lease[p] # NoSet => pc[p] = "session" /\ lease[p] = mine[p]

\* A set that holds data is the cached one or the own set of one call.
Private ==
  /\ \A p \in Procs : OwnSet(p) /\ OwnLease(p)
  /\ \A p, r \in Procs : Active(p) /\ Active(r) /\ mine[p] = mine[r] => p = r
  /\ \A s \in Sets : set[s].entries => s = cache \/ \E p \in Procs : Active(p) /\ mine[p] = s

\* The invariant of the calls.
CallInv == Bundled /\ Exclusive /\ (~UserRun => Private)

-----------------------------------------------------------------------------
(* Lists                                                                    *)

\* Lists stay clean when they are put together,
LEMMA CleanConcat ==
  ASSUME NEW l \in Seq(Jobs), NEW m \in Seq(Jobs), NEW V, NEW B, Clean(l, V, B), Clean(m, V, B)
  PROVE  Clean(l \o m, V, B)
<1>1. /\ Len(l) \in Nat /\ Len(m) \in Nat /\ Len(l \o m) = Len(l) + Len(m)
      /\ \A i \in 1..Len(l) : (l \o m)[i] = l[i]
      /\ \A i \in 1..Len(m) : (l \o m)[Len(l) + i] = m[i]
  BY ConcatProperties
<1>2. ASSUME NEW i \in 1..(Len(l) + Len(m)), ~(i \in 1..Len(l)) PROVE i - Len(l) \in 1..Len(m) /\ (l \o m)[i] = m[i - Len(l)]
  <2>1. i - Len(l) \in 1..Len(m) /\ Len(l) + (i - Len(l)) = i
    BY <1>1, <1>2
  <2> QED
    BY <1>1, <2>1
<1> QED
  BY <1>1, <1>2 DEF Clean

\* when their first step is done,
LEMMA CleanTail ==
  ASSUME NEW l \in Seq(Jobs), l # <<>>, NEW V, NEW B, Clean(l, V, B)
  PROVE  Clean(Tail(l), V, B) /\ Tail(l) \in Seq(Jobs)
<1>1. /\ Len(l) \in Nat /\ Len(Tail(l)) = Len(l) - 1
      /\ \A i \in 1..Len(Tail(l)) : i + 1 \in 1..Len(l) /\ Tail(l)[i] = l[i + 1]
  OBVIOUS
<1> QED
  BY <1>1 DEF Clean

\* and the steps that the operations put in them are.
LEMMA CleanShort ==
  ASSUME NEW V, NEW B
  PROVE  /\ Clean(<<>>, V, B)
         /\ \A s \in B : Clean(<<<<"borrow", s>>>>, V, B)
         /\ \A kind \in {"import", "admit"} : \A s : Clean(<<<<kind, s>>>>, V, B)
         /\ \A a \in Accounts \ {ImportAccount}, n \in Nat : Clean(Refund(a, n), V, B) /\ Refund(a, n) \in Seq(Jobs)
         /\ \A q \in Sets \cup {NoSet} :
              /\ q \in V \cup {NoSet} => Clean(ReleaseView(q), V, B)
              /\ ReleaseView(q) \in Seq(Jobs)
<1>1. \A e : Len(<<e>>) = 1 /\ <<e>>[1] = e /\ Len(<<>>) = 0
  OBVIOUS
<1>2. \A kind \in {"import", "admit"} : \A s : Clean(<<<<kind, s>>>>, V, B)
  BY <1>1 DEF Clean
<1>6. \A s \in B : Clean(<<<<"borrow", s>>>>, V, B)
  BY <1>1 DEF Clean
<1>3. Clean(<<>>, V, B) /\ <<>> \in Seq(Jobs)
  BY DEF Clean
<1>4. ASSUME NEW a \in Accounts \ {ImportAccount}, NEW n \in Nat
      PROVE  Clean(Refund(a, n), V, B) /\ Refund(a, n) \in Seq(Jobs)
  <2>1. CASE n = 0
    BY <1>3, <2>1 DEF Refund
  <2>2. CASE n # 0
    <3>1. Refund(a, n) = <<<<"refund", a, n>>>> /\ <<"refund", a, n>> \in Jobs
      BY <2>2 DEF Refund, Jobs
    <3> QED
      BY <1>1, <3>1 DEF Clean
  <2> QED
    BY <2>1, <2>2
<1>5. ASSUME NEW q \in Sets \cup {NoSet}
      PROVE  /\ q \in V \cup {NoSet} => Clean(ReleaseView(q), V, B)
             /\ ReleaseView(q) \in Seq(Jobs)
  <2>1. CASE q = NoSet
    BY <1>3, <2>1 DEF ReleaseView
  <2>2. CASE q # NoSet
    <3>1. ReleaseView(q) = <<<<"releaseView", q>>>> /\ <<"releaseView", q>> \in Jobs
      BY <2>2 DEF ReleaseView, Jobs
    <3> QED
      BY <1>1, <2>2, <3>1 DEF Clean
  <2> QED
    BY <2>1, <2>2
<1> QED
  BY <1>2, <1>3, <1>4, <1>5, <1>6

-----------------------------------------------------------------------------
(* What the operations do to the records                                    *)

\* A record keeps everything but its borrowers.
Lives(s) ==
  /\ set'[s].initialized = set[s].initialized /\ set'[s].closed = set[s].closed
  /\ set'[s].account = set[s].account /\ set'[s].retained = set[s].retained
  /\ set'[s].entries = set[s].entries /\ set'[s].parent = set[s].parent

\* The list of process p stays clean.
StaysClean(p) == \A V, B : Clean(todo[p], V, B) => Clean(todo'[p], V, B)

\* The end of a construction and a refund leave the records alone.
LEMMA QuietSteps ==
  ASSUME SetInv, NEW p \in Procs, EndImport(p, TRUE) \/ AdmitView(p, TRUE) \/ refund(p)
  PROVE  (\A w \in Sets : Lives(w)) /\ StaysClean(p) /\ lease' = lease
<1>0. todo \in [Procs -> Seq(Jobs)] /\ todo[p] \in Seq(Jobs)
  BY DEF SetInv, Types
<1>1. ASSUME todo' = [todo EXCEPT ![p] = Tail(todo[p])], ~Idle(p) PROVE StaysClean(p)
  BY <1>0, <1>1, CleanTail DEF StaysClean, Idle
<1>2. ASSUME set' = set PROVE \A w \in Sets : Lives(w)
  BY <1>2 DEF Lives
<1>3. CASE EndImport(p, TRUE)
  BY <1>1, <1>2, <1>3 DEF EndImport
<1>4. CASE AdmitView(p, TRUE)
  BY <1>1, <1>2, <1>4 DEF AdmitView
<1>5. CASE refund(p)
  BY <1>1, <1>2, <1>5 DEF refund
<1> QED
  BY <1>3, <1>4, <1>5

\* So do the two halves of borrow.
LEMMA LeaseSteps ==
  ASSUME SetInv, NEW p \in Procs
  PROVE  /\ \A s \in Sets : ChargeLease(p, s) =>
              /\ \A w \in Sets : Lives(w)
              /\ todo'[p] = <<<<"borrow", s>>>> /\ lease' = lease
         /\ borrow(p) => /\ \A w \in Sets : Lives(w)
                         /\ \A V, B : Clean(todo'[p], V, B)
                         /\ \E s \in Sets : Doing(p, "borrow", s) /\ lease'[p] \in {s, NoSet}
<1>0. /\ set \in [Sets -> Record] /\ todo \in [Procs -> Seq(Jobs)] /\ todo[p] \in Seq(Jobs)
      /\ lease \in [Procs -> Sets \cup {NoSet}]
  BY DEF SetInv, Types, Record
<1>1. ASSUME NEW s \in Sets, ChargeLease(p, s)
      PROVE  (\A w \in Sets : Lives(w)) /\ todo'[p] = <<<<"borrow", s>>>> /\ lease' = lease
  BY <1>0, <1>1 DEF ChargeLease, Lives
<1>2. ASSUME borrow(p)
      PROVE  /\ \A w \in Sets : Lives(w)
             /\ \A V, B : Clean(todo'[p], V, B)
             /\ \E s \in Sets : Doing(p, "borrow", s) /\ lease'[p] \in {s, NoSet}
  <2>1. PICK s \in Sets : s = Head(todo[p])[2] /\ Doing(p, "borrow", s)
    BY <1>2, Underway DEF borrow
  <2>2. CASE Borrowable(p, set[s])
    <3>1. /\ set' = [set EXCEPT ![s].borrowers = @ + 1] /\ todo' = [todo EXCEPT ![p] = Tail(todo[p])]
          /\ lease' = [lease EXCEPT ![p] = s]
      BY <1>2, <2>1, <2>2 DEF borrow
    <3>2. \A w \in Sets : Lives(w)
      BY <1>0, <3>1 DEF Lives, Record
    <3>3. todo'[p] = <<>>
      BY <1>0, <2>1, <3>1 DEF Doing
    <3> QED
      BY <1>0, <2>1, <3>1, <3>2, <3>3, CleanShort
  <2>3. CASE ~Borrowable(p, set[s])
    <3>1. set' = set /\ todo' = [todo EXCEPT ![p] = Refund(AccountOf[p], LeaseBytes)] /\ lease' = lease
      BY <1>2, <2>1, <2>3 DEF borrow
    <3>2. AccountOf[p] \in Accounts \ {ImportAccount} /\ LeaseBytes \in Nat
      BY SetAssumption, CallAssumption
    <3>3. lease[p] = NoSet
      BY <2>1 DEF SetInv, Constructions
    <3>4. \A w \in Sets : Lives(w)
      BY <3>1 DEF Lives
    <3>5. \A V, B : Clean(todo'[p], V, B)
      BY <1>0, <3>1, <3>2, CleanShort
    <3> QED
      BY <2>1, <3>1, <3>3, <3>4, <3>5
  <2> QED
    BY <2>2, <2>3
<1> QED
  BY <1>1, <1>2

\* A construction that fails leaves no set.
LEMMA FailSteps ==
  ASSUME SetInv, NEW p \in Procs, EndImport(p, FALSE) \/ AdmitView(p, FALSE)
  PROVE  \E s \in Sets : /\ Constructs(p, s) /\ set'[s] = Unallocated
                         /\ \A w \in Sets \ {s} : Lives(w)
                         /\ lease' = lease
                         /\ \A V, B : set[s].parent \in V \cup {NoSet} /\ Clean(todo[p], V, B) => Clean(todo'[p], V, B)
<1>0. set \in [Sets -> Record] /\ todo \in [Procs -> Seq(Jobs)] /\ todo[p] \in Seq(Jobs)
  BY DEF SetInv, Types, Record
<1>1. CASE EndImport(p, FALSE)
  <2>1. PICK s \in Sets : s = Head(todo[p])[2] /\ Doing(p, "import", s)
    BY <1>1, Underway DEF EndImport
  <2>2. set' = [set EXCEPT ![s] = Unallocated] /\ todo' = [todo EXCEPT ![p] = Tail(todo[p])] /\ ~Idle(p)
    BY <1>1, <2>1 DEF EndImport
  <2>3. StaysClean(p)
    BY <1>0, <2>2, CleanTail DEF StaysClean, Idle
  <2>4. set'[s] = Unallocated /\ \A w \in Sets \ {s} : Lives(w)
    BY <1>0, <2>2 DEF Lives
  <2>5. lease' = lease /\ Constructs(p, s)
    BY <1>1, <2>1 DEF EndImport, Constructs
  <2> QED
    BY <2>3, <2>4, <2>5 DEF StaysClean
<1>2. CASE AdmitView(p, FALSE)
  <2>1. PICK s \in Sets : s = Head(todo[p])[2] /\ Doing(p, "admit", s)
    BY <1>2, Underway DEF AdmitView
  <2>2. set' = [set EXCEPT ![s] = Unallocated] /\ todo' = [todo EXCEPT ![p] = ReleaseView(set[s].parent)]
    BY <1>2, <2>1 DEF AdmitView
  <2>3. set[s].parent \in Sets \cup {NoSet}
    BY <1>0 DEF Record
  <2>4. set'[s] = Unallocated /\ \A w \in Sets \ {s} : Lives(w)
    BY <1>0, <2>2 DEF Lives
  <2>5. lease' = lease /\ Constructs(p, s)
    BY <1>2, <2>1 DEF AdmitView, Constructs
  <2>6. ASSUME NEW V, NEW B, set[s].parent \in V \cup {NoSet} PROVE Clean(todo'[p], V, B)
    <3>1. todo'[p] = ReleaseView(set[s].parent)
      BY <1>0, <2>2
    <3> QED
      BY <2>3, <2>6, <3>1, CleanShort
  <2> QED
    BY <2>4, <2>5, <2>6
<1> QED
  BY <1>1, <1>2

\* A new set, and a new view of set q.
Made(p, s, q) ==
  /\ ~set[s].initialized /\ set'[s].initialized /\ ~set'[s].closed
  /\ set'[s].account = AccountOf[p] /\ set'[s].parent = q
  /\ \A w \in Sets \ {s} : Lives(w)
  /\ StaysClean(p) /\ lease' = lease

\* NewDictionarySet and shareDictionarySet make one set each.
LEMMA MakeSteps ==
  ASSUME SetInv, NEW p \in Procs, NEW s \in Sets
  PROVE  /\ NewDictionarySet(p, s, AccountOf[p]) => Made(p, s, NoSet)
         /\ \A q \in Sets : shareDictionarySet(p, q, s) => Made(p, s, q)
<1>0. set \in [Sets -> Record] /\ todo \in [Procs -> Seq(Jobs)]
  BY DEF SetInv, Types, Record
<1>1. ASSUME NewDictionarySet(p, s, AccountOf[p]) PROVE Made(p, s, NoSet)
  <2>1. /\ ~set[s].initialized /\ set' = [set EXCEPT ![s] = Fresh(AccountOf[p], Bytes, NoSet)]
        /\ todo'[p] = <<<<"import", s>>>> /\ lease' = lease
    BY <1>0, <1>1 DEF NewDictionarySet, FirstFree
  <2>2. set'[s] = Fresh(AccountOf[p], Bytes, NoSet) /\ \A w \in Sets \ {s} : Lives(w)
    BY <1>0, <2>1 DEF Lives
  <2>3. StaysClean(p)
    BY <2>1, CleanShort, Zenon DEF StaysClean
  <2> QED
    BY <2>1, <2>2, <2>3 DEF Made, Fresh
<1>2. ASSUME NEW q \in Sets, shareDictionarySet(p, q, s) PROVE Made(p, s, q)
  <2>1. /\ ~set[s].initialized /\ set[q].initialized
        /\ set' = [set EXCEPT ![q].borrowers = @ + 1, ![s] = Fresh(AccountOf[p], set[q].retained, q)]
        /\ todo'[p] = <<<<"admit", s>>>> /\ lease' = lease
    BY <1>0, <1>2 DEF shareDictionarySet, FirstFree
  <2>2. set'[s] = Fresh(AccountOf[p], set[q].retained, q) /\ \A w \in Sets \ {s} : Lives(w)
    BY <1>0, <2>1 DEF Lives, Record
  <2>3. StaysClean(p)
    BY <2>1, CleanShort, Zenon DEF StaysClean
  <2> QED
    BY <2>1, <2>2, <2>3 DEF Made, Fresh
<1> QED
  BY <1>1, <1>2

\* Set s, of account a, is closed, and may be freed.
Ends(p, s) ==
  /\ set[s].initialized /\ set'[s].initialized /\ set'[s].account = set[s].account
  /\ set'[s].parent \in {NoSet, set[s].parent} /\ set'[s].closed
  /\ \A V, B : set[s].account # ImportAccount /\ set[s].parent \in V \cup {NoSet} /\ Clean(todo[p], V, B)
              => Clean(todo'[p], V, B)

\* A borrow that some call has yet to return is counted.
LEMMA ReturnIsHeld ==
  ASSUME SetInv, NEW p \in Procs, NEW s \in Sets, todo[p] # <<>>, Head(todo[p]) = <<"releaseView", s>>
  PROVE  set[s].borrowers >= 1
<1> DEFINE t == Popped(todo, p)  e == Head(todo[p])
<1>1. Owing(todo) /\ todo[p] \in Seq(Jobs)
  BY DEF SetInv, Types
<1>2. Owing(t) /\ \A z \in Sets : Borrows(t, z) = Borrows(todo, z) - Bit(e = <<"releaseView", z>>)
  BY <1>1, OwePop
<1>3. Bit(e = <<"releaseView", s>>) = 1
  BY DEF Bit
<1> HIDE DEF t, e
<1>4. Borrows(todo, s) \in Nat /\ Borrows(t, s) \in Nat
  BY <1>1, <1>2, OwingCounts
<1>5. Borrows(todo, s) >= 1
  BY <1>2, <1>3, <1>4
<1> QED
  BY <1>5, Held

\* A borrow that comes back frees a closed set only.
LEMMA ReturnSteps ==
  ASSUME SetInv, NEW p \in Procs, release(p) \/ releaseView(p)
  PROVE  \E s \in Sets : /\ \A w \in Sets \ {s} : Lives(w)
                         /\ (Lives(s) /\ StaysClean(p)) \/ (set[s].closed /\ Ends(p, s))
                         /\ release(p) => lease[p] = s
                         /\ releaseView(p) => todo[p] # <<>> /\ Head(todo[p]) = <<"releaseView", s>>
<1>0. set \in [Sets -> Record] /\ todo \in [Procs -> Seq(Jobs)] /\ todo[p] \in Seq(Jobs)
  BY DEF SetInv, Types, Record
<1> DEFINE After(s, m) == (IF Frees(set[s]) THEN Refund(set[s].account, set[s].retained) \o ReleaseView(set[s].parent)
                                            ELSE <<>>) \o m
<1>1. ASSUME NEW s \in Sets, set[s].borrowers >= 1, set' = [set EXCEPT ![s] = Returned(set[s])],
             NEW m \in Seq(Jobs), \A V, B : Clean(todo[p], V, B) => Clean(m, V, B), todo'[p] = After(s, m)
      PROVE  /\ \A w \in Sets \ {s} : Lives(w)
             /\ (Lives(s) /\ StaysClean(p)) \/ (set[s].closed /\ Ends(p, s))
  <2> HIDE DEF After
  <2>1. /\ set[s] \in Record /\ set[s].borrowers \in Nat /\ set[s].initialized
        /\ set[s].account \in Accounts /\ set[s].retained \in Nat /\ set[s].parent \in Sets \cup {NoSet}
    BY <1>0, <1>1, Amounts, HeldIsPublished
  <2>2. set'[s] = Returned(set[s]) /\ \A w \in Sets \ {s} : set'[w] = set[w]
    BY <1>0, <1>1
  <2>3. /\ set'[s].initialized = set[s].initialized /\ set'[s].account = set[s].account
        /\ set'[s].closed = set[s].closed
        /\ Frees(set[s]) => set[s].closed /\ set'[s].parent = NoSet
        /\ ~Frees(set[s]) => Lives(s)
    <3> DEFINE d == set[s]
    <3>1. d \in Record /\ d.borrowers \in Nat /\ d.borrowers >= 1 /\ set'[s] = Returned(d)
      BY <1>1, <2>1, <2>2
    <3> HIDE DEF d
    <3>2. /\ Returned(d).initialized = d.initialized /\ Returned(d).account = d.account
          /\ Returned(d).closed = d.closed
          /\ Frees(d) => d.closed /\ Returned(d).parent = NoSet
          /\ ~Frees(d) => /\ Returned(d).retained = d.retained
                         /\ Returned(d).entries = d.entries /\ Returned(d).parent = d.parent
      BY <3>1, ReturnedRecord
    <3> QED
      BY <3>1, <3>2 DEF Lives, d
  <2>4. CASE Frees(set[s])
    <3>1. todo'[p] = (Refund(set[s].account, set[s].retained) \o ReleaseView(set[s].parent)) \o m
      BY <1>1, <2>4 DEF After
    <3>2. ASSUME NEW V, NEW B, set[s].account # ImportAccount, set[s].parent \in V \cup {NoSet}, Clean(todo[p], V, B)
          PROVE  Clean(todo'[p], V, B)
      <4>1. /\ Clean(Refund(set[s].account, set[s].retained), V, B) /\ Refund(set[s].account, set[s].retained) \in Seq(Jobs)
            /\ Clean(ReleaseView(set[s].parent), V, B) /\ ReleaseView(set[s].parent) \in Seq(Jobs)
        BY <2>1, <3>2, CleanShort
      <4>2. /\ Clean(Refund(set[s].account, set[s].retained) \o ReleaseView(set[s].parent), V, B)
            /\ Refund(set[s].account, set[s].retained) \o ReleaseView(set[s].parent) \in Seq(Jobs)
        BY <4>1, CleanConcat
      <4> QED
        BY <1>1, <3>1, <3>2, <4>2, CleanConcat
    <3> QED
      BY <2>1, <2>2, <2>3, <2>4, <3>2 DEF Lives, Ends
  <2>5. CASE ~Frees(set[s])
    <3>1. todo'[p] = m
      <4>1. <<>> \o m = m
        BY <1>1
      <4> QED
        BY <1>1, <2>5, <4>1 DEF After
    <3> QED
      BY <1>1, <2>2, <2>3, <2>5, <3>1 DEF Lives, StaysClean
  <2> QED
    BY <2>4, <2>5
<1>2. CASE release(p)
  <2>1. PICK s \in Sets : s = lease[p] /\ set[s].account = AccountOf[p] /\ set[s].borrowers >= 1
    BY <1>2, Leaseholder DEF release
  <2>2. /\ set' = [set EXCEPT ![s] = Returned(set[s])]
        /\ todo'[p] = After(s, Refund(AccountOf[p], LeaseBytes)) /\ todo[p] = <<>>
    BY <1>0, <1>2, <2>1 DEF release, Idle
  <2>3. AccountOf[p] \in Accounts \ {ImportAccount} /\ LeaseBytes \in Nat
    BY SetAssumption, CallAssumption
  <2>4. Refund(AccountOf[p], LeaseBytes) \in Seq(Jobs) /\ \A V, B : Clean(Refund(AccountOf[p], LeaseBytes), V, B)
    BY <2>3, CleanShort
  <2>5. ~releaseView(p)
    BY <2>2 DEF releaseView, Idle
  <2> HIDE DEF After
  <2>6. /\ \A w \in Sets \ {s} : Lives(w)
        /\ (Lives(s) /\ StaysClean(p)) \/ (set[s].closed /\ Ends(p, s))
    BY <1>1, <2>1, <2>2, <2>4
  <2> QED
    BY <2>1, <2>5, <2>6
<1>3. CASE releaseView(p)
  <2>a. todo[p] # <<>> /\ Head(todo[p])[1] = "releaseView"
    BY <1>3 DEF releaseView, Idle
  <2>1. todo[p] # <<>> /\ Head(todo[p])[1] = "releaseView" /\ Head(todo[p]) \in Jobs
    BY <1>0, <2>a
  <2>2. PICK s \in Sets : Head(todo[p]) = <<"releaseView", s>>
    BY <2>1 DEF Jobs
  <2>3. /\ set' = [set EXCEPT ![s] = Returned(set[s])] /\ todo'[p] = After(s, Tail(todo[p]))
    <3>1. Head(todo[p])[2] = s
      BY <2>2
    <3>2. /\ set' = [set EXCEPT ![s] = Returned(set[s])]
          /\ todo' = [todo EXCEPT ![p] = After(s, Tail(todo[p]))]
      BY <1>3, <3>1 DEF releaseView
    <3> QED
      BY <1>0, <3>2
  <2>4. set[s].borrowers >= 1
    BY <2>1, <2>2, ReturnIsHeld
  <2>5. Tail(todo[p]) \in Seq(Jobs) /\ \A V, B : Clean(todo[p], V, B) => Clean(Tail(todo[p]), V, B)
    BY <1>0, <2>1, CleanTail
  <2>6. ~release(p)
    BY <2>1 DEF release, Idle
  <2> HIDE DEF After
  <2>7. /\ \A w \in Sets \ {s} : Lives(w)
        /\ (Lives(s) /\ StaysClean(p)) \/ (set[s].closed /\ Ends(p, s))
    BY <1>1, <2>3, <2>4, <2>5
  <2> QED
    BY <2>1, <2>2, <2>6, <2>7
<1> QED
  BY <1>2, <1>3

\* Close ends a set.
LEMMA CloseEnds ==
  ASSUME SetInv, NEW p \in Procs, NEW s \in Sets, Close(p, s)
  PROVE  /\ Ends(p, s) /\ \A w \in Sets \ {s} : Lives(w)
         /\ set[s].borrowers = 0 => ~set'[s].entries
<1>0. set \in [Sets -> Record] /\ todo \in [Procs -> Seq(Jobs)] /\ set[s] \in Record
  BY DEF SetInv, Types, Record
<1> DEFINE d == [set[s] EXCEPT !.closed = TRUE]
<1>1. /\ d \in Record /\ d.closed /\ d.borrowers = set[s].borrowers /\ d.initialized = set[s].initialized
      /\ d.account = set[s].account /\ d.retained = set[s].retained /\ d.parent = set[s].parent
      /\ d.account \in Accounts /\ d.retained \in Nat /\ d.parent \in Sets \cup {NoSet}
  BY <1>0 DEF Record
<1>2. /\ Idle(p) /\ set[s].initialized
      /\ IF d.borrowers = 0
           THEN /\ set' = [set EXCEPT ![s] = free(d)]
                /\ todo' = [todo EXCEPT ![p] = ReleaseView(d.parent) \o Refund(d.account, d.retained)]
           ELSE set' = [set EXCEPT ![s] = d] /\ UNCHANGED todo
  BY DEF Close
<1> HIDE DEF d
<1>3. CASE d.borrowers = 0
  <2>1. /\ set'[s] = free(d) /\ \A w \in Sets \ {s} : set'[w] = set[w]
        /\ todo'[p] = ReleaseView(d.parent) \o Refund(d.account, d.retained)
    BY <1>0, <1>2, <1>3
  <2>2. /\ free(d).initialized = d.initialized /\ free(d).account = d.account /\ free(d).closed = d.closed
        /\ free(d).parent = NoSet /\ free(d).entries = FALSE
    BY <1>1 DEF free, Record
  <2>3. ASSUME NEW V, NEW B, d.account # ImportAccount, d.parent \in V \cup {NoSet} PROVE Clean(todo'[p], V, B)
    <3>1. /\ Clean(Refund(d.account, d.retained), V, B) /\ Refund(d.account, d.retained) \in Seq(Jobs)
          /\ Clean(ReleaseView(d.parent), V, B) /\ ReleaseView(d.parent) \in Seq(Jobs)
      BY <1>1, <2>3, CleanShort
    <3> QED
      BY <2>1, <3>1, CleanConcat
  <2> QED
    BY <1>1, <1>2, <2>1, <2>2, <2>3 DEF Ends, Lives
<1>4. CASE d.borrowers # 0
  BY <1>0, <1>1, <1>2, <1>4 DEF Ends, Lives
<1> QED
  BY <1>3, <1>4

-----------------------------------------------------------------------------
(* The cached set                                                           *)

\* Set w changes, is not the cached one, and does not become one like it.
Swapped(w) ==
  /\ w # cache /\ set'[w].parent \in {NoSet} \cup Parents
  /\ set'[w].initialized => set'[w].account # ImportAccount

\* A step that leaves the cached set alone.
LEMMA BundledStep ==
  ASSUME Bundled, NEW p \in Procs, OthersKeep(p), cache' = cache, Parents' = Parents,
         \A r \in Procs \ {p} : Asked(r)' = Asked(r),
         \A w \in Sets : Lives(w) \/ Swapped(w),
         Clean(todo'[p], Parents, Asked(p)')
  PROVE  Bundled'
<1>1. ASSUME NEW s \in Sets PROVE set'[s].initialized /\ set'[s].account = ImportAccount => s = cache'
  BY DEF Bundled, Lives, Swapped
<1>2. ASSUME NEW s \in Sets, s = cache' PROVE IsBundle(set'[s])
  <2>1. Lives(s) /\ IsBundle(set[s])
    BY <1>2 DEF Bundled, Swapped
  <2> QED
    BY <2>1 DEF IsBundle, Lives
<1>3. ASSUME NEW s \in Sets PROVE set'[s].parent \in {NoSet} \cup Parents'
  BY DEF Bundled, Lives, Swapped
<1>4. ASSUME NEW r \in Procs PROVE Clean(todo'[r], Parents', Asked(r)')
  <2>1. CASE r = p
    BY <2>1
  <2>2. CASE r # p
    BY <2>2 DEF Bundled, OthersKeep
  <2> QED
    BY <2>1, <2>2
<1> QED
  BY <1>1, <1>2, <1>3, <1>4 DEF Bundled

\* The end of another set than the cached one.
LEMMA EndsOther ==
  ASSUME Bundled, NEW p \in Procs, NEW s \in Sets, Ends(p, s), s # cache, \A w \in Sets \ {s} : Lives(w)
  PROVE  (\A w \in Sets : Lives(w) \/ Swapped(w)) /\ Clean(todo'[p], Parents, Asked(p))
<1>1. set[s].account # ImportAccount
  BY DEF Bundled, Ends
<1>2. set[s].parent \in {NoSet} \cup Parents
  BY DEF Bundled
<1>3. Swapped(s)
  BY <1>1, <1>2 DEF Swapped, Ends
<1>4. Clean(todo[p], Parents, Asked(p))
  BY DEF Bundled
<1>5. Clean(todo'[p], Parents, Asked(p))
  BY <1>1, <1>2, <1>4 DEF Ends
<1> QED
  BY <1>3, <1>5

\* The operations other than the two halves of borrow and a Close.
Operation(p) ==
  \/ \E ok \in BOOLEAN : EndImport(p, ok) \/ AdmitView(p, ok)
  \/ refund(p) \/ release(p) \/ releaseView(p)
  \/ \E s \in Sets : \/ NewDictionarySet(p, s, AccountOf[p])
                     \/ \E q \in Sets \cap Parents : shareDictionarySet(p, q, s)
                     \/ s # cache /\ Close(p, s)

\* No operation gives the cached set back.
LEMMA OperationKeeps ==
  ASSUME SetInv, Bundled, NEW p \in Procs, Operation(p)
  PROVE  (\A w \in Sets : Lives(w) \/ Swapped(w)) /\ Clean(todo'[p], Parents, Asked(p))
<1>1. Clean(todo[p], Parents, Asked(p)) /\ AccountOf[p] # ImportAccount
  BY CallAssumption DEF Bundled
<1>2. ASSUME EndImport(p, TRUE) \/ AdmitView(p, TRUE) \/ refund(p)
      PROVE  (\A w \in Sets : Lives(w)) /\ Clean(todo'[p], Parents, Asked(p))
  BY <1>1, <1>2, QuietSteps DEF StaysClean
<1>3. ASSUME EndImport(p, FALSE) \/ AdmitView(p, FALSE)
      PROVE  (\A w \in Sets : Lives(w) \/ Swapped(w)) /\ Clean(todo'[p], Parents, Asked(p))
  <2>1. PICK s \in Sets :
          /\ Constructs(p, s) /\ set'[s] = Unallocated
          /\ \A w \in Sets \ {s} : Lives(w)
          /\ \A V, B : set[s].parent \in V \cup {NoSet} /\ Clean(todo[p], V, B) => Clean(todo'[p], V, B)
    BY <1>3, FailSteps
  <2>2. set[s].parent \in Parents \cup {NoSet}
    BY DEF Bundled
  <2>3. set[s].initialized /\ set[s].account = AccountOf[p]
    BY <2>1 DEF SetInv, Constructions
  <2>4. s # cache
    BY <1>1, <2>3 DEF Bundled, IsBundle
  <2>5. Swapped(s)
    BY <2>1, <2>4 DEF Swapped, Unallocated
  <2> QED
    BY <1>1, <2>1, <2>2, <2>5
<1>4. ASSUME release(p) \/ releaseView(p)
      PROVE  (\A w \in Sets : Lives(w) \/ Swapped(w)) /\ Clean(todo'[p], Parents, Asked(p))
  <2>1. PICK s \in Sets : /\ \A w \in Sets \ {s} : Lives(w)
                          /\ (Lives(s) /\ StaysClean(p)) \/ (set[s].closed /\ Ends(p, s))
    BY <1>4, ReturnSteps
  <2>2. CASE Lives(s) /\ StaysClean(p)
    BY <1>1, <2>1, <2>2 DEF StaysClean
  <2>3. CASE set[s].closed /\ Ends(p, s)
    <3>1. s # cache
      BY <2>3 DEF Bundled, IsBundle
    <3> QED
      BY <2>1, <2>3, <3>1, EndsOther
  <2> QED
    BY <2>1, <2>2, <2>3
<1>5. ASSUME NEW s \in Sets, NEW q \in {NoSet} \cup Parents, Made(p, s, q)
      PROVE  (\A w \in Sets : Lives(w) \/ Swapped(w)) /\ Clean(todo'[p], Parents, Asked(p))
  <2>1. s # cache
    BY <1>5 DEF Made, Bundled, IsBundle
  <2>2. Swapped(s)
    BY <1>1, <1>5, <2>1 DEF Swapped, Made
  <2> QED
    BY <1>1, <1>5, <2>2 DEF Made, StaysClean
<1>6. ASSUME NEW s \in Sets, NewDictionarySet(p, s, AccountOf[p])
      PROVE  (\A w \in Sets : Lives(w) \/ Swapped(w)) /\ Clean(todo'[p], Parents, Asked(p))
  BY <1>5, <1>6, MakeSteps
<1>7. ASSUME NEW s \in Sets, NEW q \in Sets \cap Parents, shareDictionarySet(p, q, s)
      PROVE  (\A w \in Sets : Lives(w) \/ Swapped(w)) /\ Clean(todo'[p], Parents, Asked(p))
  BY <1>5, <1>7, MakeSteps
<1>8. ASSUME NEW s \in Sets, s # cache, Close(p, s)
      PROVE  (\A w \in Sets : Lives(w) \/ Swapped(w)) /\ Clean(todo'[p], Parents, Asked(p))
  BY <1>8, CloseEnds, EndsOther
<1>9. CASE \E ok \in BOOLEAN : EndImport(p, ok) \/ AdmitView(p, ok)
  BY <1>2, <1>3, <1>9
<1> QED
  BY <1>2, <1>4, <1>6, <1>7, <1>8, <1>9 DEF Operation

\* A run of users never changes into one of calls.
LEMMA UserStep ==
  ASSUME Inv, CallInv, UserRun, NEW p \in Procs, OthersKeep(p),
         UseSets(p) \/ Unwind(p)
  PROVE  CallInv'
<1>1. cache = NoSet /\ Parents = Sets /\ \A r \in Procs : Asked(r) = Sets
  BY DEF CallInv, Exclusive, Parents, Asked
<1>2. pc' = pc /\ mine' = mine /\ cache' = cache /\ lock' = lock
  BY DEF UseSets, Unwind, callVars
<1>3. UserRun' /\ Parents' = Parents /\ \A r \in Procs : Asked(r)' = Asked(r)
  <2>1. UserRun'
    BY <1>2 DEF UserRun
  <2> QED
    BY <1>1, <2>1 DEF Parents, Asked
<1>4. Exclusive'
  BY <1>2, <1>3 DEF CallInv, Exclusive
<1>5. SetInv /\ Bundled /\ UserSets \subseteq Sets /\ Clean(todo[p], Parents, Sets)
  BY <1>1, CallAssumption DEF Inv, CallInv, Bundled
<1>6. (\A w \in Sets : Lives(w) \/ Swapped(w)) /\ Clean(todo'[p], Parents, Sets)
  <2>1. CASE Operation(p)
    BY <1>1, <1>5, <2>1, OperationKeeps
  <2>2. ASSUME NEW s \in Sets, ChargeLease(p, s) PROVE (\A w \in Sets : Lives(w)) /\ Clean(todo'[p], Parents, Sets)
    BY <1>5, <2>2, LeaseSteps, CleanShort
  <2>3. CASE borrow(p)
    BY <1>5, <2>3, LeaseSteps
  <2>4. ASSUME Use(p, UserSets) PROVE Operation(p) \/ borrow(p) \/ \E s \in Sets : ChargeLease(p, s)
    <3>1. \A s \in Sets : s # cache /\ s \in Parents
      BY <1>1, SetAssumption
    <3>2. CASE Continue(p)
      BY <3>2 DEF Continue, Operation
    <3>3. CASE release(p)
      BY <3>3 DEF Operation
    <3>4. ASSUME NEW s \in UserSets, NewDictionarySet(p, s, AccountOf[p]) PROVE Operation(p)
      BY <1>5, <3>4 DEF Operation
    <3>5. ASSUME NEW s \in UserSets, ChargeLease(p, s) PROVE \E z \in Sets : ChargeLease(p, z)
      BY <1>5, <3>5
    <3>6. ASSUME NEW s \in UserSets, Close(p, s) PROVE Operation(p)
      BY <1>5, <3>1, <3>6 DEF Operation
    <3>7. ASSUME NEW s \in UserSets, NEW q \in UserSets, shareDictionarySet(p, q, s) PROVE Operation(p)
      BY <1>5, <3>1, <3>7 DEF Operation
    <3> QED
      BY <2>4, <3>2, <3>3, <3>4, <3>5, <3>6, <3>7 DEF Use
  <2>5. ASSUME Unwind(p) PROVE Operation(p)
    BY <2>5 DEF Unwind, Operation
  <2> QED
    BY <2>1, <2>2, <2>3, <2>4, <2>5 DEF UseSets
<1>7. Bundled'
  BY <1>1, <1>2, <1>3, <1>5, <1>6, BundledStep
<1> QED
  BY <1>3, <1>4, <1>7 DEF CallInv

-----------------------------------------------------------------------------
(* The sets of the calls                                                    *)

\* The set of a call is there.
LEMMA OwnIsThere ==
  ASSUME Inv, NEW p \in Procs, Active(p)
  PROVE  /\ mine[p] \in Sets /\ set[mine[p]].initialized
         /\ pc[p] = "loading" => Constructs(p, mine[p])
<1>1. CallOf(p) /\ mine[p] \in Sets \cup {NoSet}
  BY DEF Inv, Calls
<1>2. mine[p] # NoSet
  BY <1>1 DEF CallOf, Active
<1>3. CASE pc[p] = "loading"
  <2>1. Constructs(p, mine[p])
    BY <1>1, <1>2, <1>3 DEF CallOf
  <2> QED
    BY <1>1, <1>2, <2>1 DEF Inv, SetInv, Constructions
<1>4. CASE pc[p] # "loading"
  <2>1. Published(mine[p])
    BY <1>1, <1>2, <1>4 DEF CallOf, Active
  <2> QED
    BY <1>1, <1>2, <1>4, <2>1 DEF Published
<1> QED
  BY <1>3, <1>4

\* What a step of a call does to the sets: it leaves those of the others alone,
\* and a set that holds data after it is the cached one, the call's, or one that
\* another call has.
Keeps(p) ==
  /\ \A w \in Sets : Lives(w) \/ (Active(p) /\ w = mine[p]) \/ ~set[w].initialized
  /\ \A w \in Sets : set'[w].entries =>
       \/ w = cache' \/ (Active(p)' /\ mine'[p] = w)
       \/ w # cache /\ set[w].entries /\ ~(Active(p) /\ mine[p] = w)

\* Where it takes its own set from.
Takes(p) ==
  Active(p)' => \/ Active(p) /\ mine'[p] = mine[p]
                \/ mine'[p] \in Sets /\ ~set[mine'[p]].initialized

\* The cached set stays, or is new.
CacheStays == cache' = cache \/ (cache' \in Sets /\ ~set[cache'].initialized)

\* A step of a call keeps what the others know of their sets.
LEMMA PrivateStep ==
  ASSUME Inv, Private, NEW p \in Procs, OthersKeep(p),
         \A r \in Procs \ {p} : pc'[r] = pc[r] /\ mine'[r] = mine[r],
         CacheStays, Keeps(p), Takes(p), OwnSet(p)', OwnLease(p)'
  PROVE  Private'
<1>1. ASSUME NEW r \in Procs \ {p}, Active(r)
      PROVE  mine[r] \in Sets /\ set[mine[r]].initialized /\ Lives(mine[r]) /\ mine[r] # cache'
  <2>1. mine[r] \in Sets /\ set[mine[r]].initialized /\ mine[r] # cache
    BY <1>1, OwnIsThere DEF Private, OwnSet
  <2>2. ~(Active(p) /\ mine[r] = mine[p])
    BY <1>1 DEF Private
  <2> QED
    BY <2>1, <2>2 DEF Keeps, CacheStays
<1>2. \A r \in Procs \ {p} : Active(r)' <=> Active(r)
  BY DEF Active
<1>3. ASSUME NEW r \in Procs PROVE OwnSet(r)' /\ OwnLease(r)'
  <2>1. CASE r = p
    BY <2>1
  <2>2. CASE r # p
    <3>1. OwnSet(r)'
      BY <1>1, <1>2, <2>2 DEF Private, OwnSet, Lives
    <3>2. OwnLease(r)'
      BY <2>2 DEF Private, OwnLease, OthersKeep
    <3> QED
      BY <3>1, <3>2
  <2> QED
    BY <2>1, <2>2
<1>4. ASSUME NEW r \in Procs \ {p}, Active(p)', Active(r)' PROVE mine'[p] # mine'[r]
  <2>1. Active(r) /\ mine'[r] = mine[r] /\ set[mine[r]].initialized
    BY <1>1, <1>2, <1>4
  <2> QED
    BY <1>4, <2>1 DEF Takes, Private
<1>5. ASSUME NEW r \in Procs, NEW q \in Procs, Active(r)', Active(q)', mine'[r] = mine'[q] PROVE r = q
  <2>1. CASE r # p /\ q # p
    BY <1>2, <1>5, <2>1 DEF Private
  <2> QED
    BY <1>4, <1>5, <2>1
<1>6. ASSUME NEW w \in Sets, set'[w].entries PROVE w = cache' \/ \E r \in Procs : Active(r)' /\ mine'[r] = w
  <2>1. CASE w # cache /\ set[w].entries /\ ~(Active(p) /\ mine[p] = w)
    <3>1. PICK r \in Procs : Active(r) /\ mine[r] = w
      BY <2>1 DEF Private
    <3>2. r # p
      BY <2>1, <3>1
    <3>3. Active(r)' /\ mine'[r] = w
      BY <1>2, <3>1, <3>2
    <3> QED
      BY <3>3
  <2> QED
    BY <1>6, <2>1 DEF Keeps
<1> QED
  BY <1>3, <1>5, <1>6 DEF Private

\* A step of a call that takes no set and gives none back.
LEMMA SamePrivate ==
  ASSUME Inv, Private, NEW p \in Procs, OthersKeep(p),
         \A r \in Procs \ {p} : pc'[r] = pc[r] /\ mine'[r] = mine[r],
         cache' = cache, \A w \in Sets : Lives(w), mine'[p] = mine[p], Active(p)' <=> Active(p), OwnLease(p)'
  PROVE  Private'
<1>1. CacheStays /\ Takes(p)
  BY DEF CacheStays, Takes
<1>2. Keeps(p)
  <2>1. ASSUME NEW w \in Sets, set'[w].entries
        PROVE  \/ w = cache' \/ (Active(p)' /\ mine'[p] = w)
               \/ w # cache /\ set[w].entries /\ ~(Active(p) /\ mine[p] = w)
    BY <2>1 DEF Lives
  <2> QED
    BY <2>1 DEF Keeps
<1>3. OwnSet(p)'
  <2> SUFFICES ASSUME Active(p)' PROVE mine'[p] # cache' /\ ~set'[mine'[p]].closed /\ set'[mine'[p]].account = AccountOf[p]
    BY DEF OwnSet
  <2>1. mine[p] \in Sets /\ OwnSet(p)
    BY OwnIsThere DEF Private
  <2> QED
    BY <2>1 DEF OwnSet, Lives
<1> QED
  BY <1>1, <1>2, <1>3, PrivateStep

\* The calls of the others, and who is asked for what, when a call moves on.
LEMMA Moves ==
  ASSUME Inv, Exclusive, ~UserRun, NEW p \in Procs, CallsKeep(p), pc'[p] # "user"
  PROVE  /\ ~UserRun'
         /\ \A r \in Procs \ {p} : pc'[r] = pc[r] /\ mine'[r] = mine[r] /\ Asked(r)' = Asked(r)
         /\ Parents = {cache} /\ Parents' = {cache'}
         /\ pc[p] # "beginning" => Asked(p) = {}
         /\ Asked(p)' = IF pc'[p] = "beginning" THEN {mine'[p]} ELSE {}
<1>1. \A r \in Procs \ {p} : pc'[r] = pc[r] /\ mine'[r] = mine[r]
  BY DEF CallsKeep
<1>2. ~UserRun'
  BY <1>1 DEF UserRun
<1> QED
  BY <1>1, <1>2 DEF Parents, Asked

\* Exclusive, when a call moves on.
LEMMA ExclusiveStep ==
  ASSUME Inv, Exclusive, ~UserRun', NEW p \in Procs, CallsKeep(p),
         \/ cache' = cache /\ lock' = lock /\ pc'[p] \notin {"cache", "importing"}
         \/ cache' = cache /\ lock = p /\ pc'[p] \notin {"cache", "importing"}
         \/ cache' = cache /\ lock = NoProc /\ lock' = p /\ pc'[p] = "cache"
         \/ cache' = cache /\ cache = NoSet /\ lock' = lock /\ lock = p /\ pc'[p] = "importing"
         \/ pc[p] = "importing" /\ pc'[p] = "share"
  PROVE  Exclusive'
<1>1. \A r \in Procs \ {p} : pc'[r] = pc[r]
  BY DEF CallsKeep
<1>2. p # NoProc /\ \A r \in Procs : r # NoProc
  BY CallAssumption
<1>3. ASSUME NEW r \in Procs
      PROVE  /\ pc'[r] \in {"cache", "importing"} => lock' = r
             /\ pc'[r] = "importing" => cache' = NoSet
  BY <1>1, <1>2 DEF Exclusive
<1> QED
  BY <1>3 DEF Exclusive

\* The invariant after a step of a call.
LEMMA CallInvStep ==
  ASSUME Inv, CallInv, ~UserRun, NEW p \in Procs, CallsKeep(p), pc'[p] # "user", Bundled', Exclusive', Private'
  PROVE  CallInv'
BY Moves DEF CallInv

\* The control flow that leaves the sets alone.
LEMMA PureCall ==
  ASSUME Inv, CallInv, ~UserRun, NEW p \in Procs, UNCHANGED setVars, NEW l, Goto(p, l), mine' = mine, cache' = cache,
         pc[p] \notin {"session", "beginning"}, l \notin {"user", "beginning"},
         l \in {"loading", "begin", "session", "close"} <=> Active(p)
  PROVE  CallsKeep(p) /\ pc'[p] = l /\ ~UserRun' /\ Bundled' /\ Private'
<1>1. CallsKeep(p) /\ pc'[p] = l
  BY Goes DEF Inv
<1>2. OthersKeep(p) /\ set' = set /\ todo' = todo /\ lease' = lease
  BY SetsUnchanged DEF Inv, setVars
<1>3. \A w \in Sets : Lives(w)
  BY <1>2 DEF Lives
<1>4. /\ ~UserRun' /\ \A r \in Procs \ {p} : pc'[r] = pc[r] /\ mine'[r] = mine[r] /\ Asked(r)' = Asked(r)
      /\ Parents' = Parents /\ Asked(p)' = Asked(p)
  BY <1>1, Moves DEF CallInv
<1>5. Bundled'
  <2>1. Clean(todo'[p], Parents, Asked(p)')
    BY <1>2, <1>4 DEF CallInv, Bundled
  <2> QED
    BY <1>2, <1>3, <1>4, <2>1, BundledStep DEF CallInv
<1>6. Private'
  <2>1. Active(p)' <=> Active(p)
    BY <1>1 DEF Active
  <2>2. Private /\ OwnLease(p)'
    BY <1>2 DEF CallInv, Private, OwnLease
  <2> QED
    BY <1>2, <1>3, <1>4, <2>1, <2>2, SamePrivate
<1> QED
  BY <1>1, <1>4, <1>5, <1>6

\* A call takes a new set, its own or a view of the cached one.
LEMMA TakeCall ==
  ASSUME Inv, CallInv, ~UserRun, NEW p \in Procs, OthersKeep(p), NEW v \in Sets, NEW q \in {NoSet} \cup Parents,
         Made(p, v, q), Goto(p, "loading"), mine' = [mine EXCEPT ![p] = v], cache' = cache,
         pc[p] \in {"share", "import"}, (\A w \in Sets : Lives(w) \/ Swapped(w)),
         Clean(todo'[p], Parents, Asked(p))
  PROVE  CallsKeep(p) /\ pc'[p] = "loading" /\ Bundled' /\ Private'
<1>1. CallsKeep(p) /\ pc'[p] = "loading" /\ mine'[p] = v
  BY GoesWith DEF Inv
<1>2. /\ \A r \in Procs \ {p} : pc'[r] = pc[r] /\ mine'[r] = mine[r] /\ Asked(r)' = Asked(r)
      /\ Parents' = Parents /\ Asked(p)' = Asked(p)
  BY <1>1, Moves DEF CallInv
<1>3. Bundled'
  BY <1>2, BundledStep DEF CallInv
<1>4. Private /\ ~Active(p) /\ lease[p] = NoSet
  BY DEF CallInv, Private, OwnLease, Active
<1>5. v # cache
  BY DEF Made, CallInv, Bundled, IsBundle
<1>6. CacheStays /\ Takes(p)
  BY <1>1 DEF CacheStays, Takes, Made
<1>7. Keeps(p)
  <2>1. ASSUME NEW w \in Sets, set'[w].entries
        PROVE  \/ w = cache' \/ (Active(p)' /\ mine'[p] = w)
               \/ w # cache /\ set[w].entries /\ ~(Active(p) /\ mine[p] = w)
    <3>1. CASE w = v
      BY <1>1, <3>1 DEF Active
    <3>2. CASE w # v
      BY <1>4, <2>1, <3>2 DEF Made, Lives
    <3> QED
      BY <3>1, <3>2
  <2> QED
    BY <2>1 DEF Keeps, Made
<1>8. OwnSet(p)'
  BY <1>1, <1>5 DEF OwnSet, Made
<1>9. OwnLease(p)'
  BY <1>4 DEF OwnLease, Made
<1> QED
  BY <1>1, <1>2, <1>3, <1>4, <1>6, <1>7, <1>8, <1>9, PrivateStep

\* The set on which a call ends is unborrowed.
LEMMA OwnIsUnborrowed ==
  ASSUME Inv, CallInv, ~UserRun, NEW p \in Procs, pc[p] = "close"
  PROVE  set[mine[p]].borrowers = 0
<1>1. Private /\ Bundled /\ SetInv /\ Active(p) /\ mine[p] \in Sets /\ mine[p] # cache /\ mine[p] # NoSet
  BY OwnIsThere, SetAssumption DEF CallInv, Inv, Private, OwnSet, Active
<1>2. Leases(mine[p]) = {}
  <2> SUFFICES ASSUME NEW r \in Procs, lease[r] = mine[p] PROVE FALSE
    BY DEF Leases
  <2>1. pc[r] = "session" /\ lease[r] = mine[r]
    BY <1>1 DEF Private, OwnLease
  <2>2. Active(r) /\ r # p
    BY <2>1 DEF Active
  <2> QED
    BY <1>1, <2>1, <2>2 DEF Private
<1>3. Views(mine[p]) = {}
  BY <1>1 DEF Views, Bundled, Parents
<1>4. Returns(todo, mine[p]) = {}
  <2> SUFFICES ASSUME NEW d \in Items(todo), Item(todo, d) = <<"releaseView", mine[p]>> PROVE FALSE
    BY DEF Returns
  <2>1. PICK r \in Procs : d \in {r} \X (1..Len(todo[r]))
    BY DEF Items
  <2>2. d[1] = r /\ d[2] \in 1..Len(todo[r])
    BY <2>1
  <2>3. Len(todo[r]) \in Nat
    BY <1>1 DEF SetInv, Types
  <2> DEFINE i == Len(todo[r]) + 1 - d[2]
  <2>4. i \in 1..Len(todo[r])
    BY <2>2, <2>3
  <2>5. todo[r][i] = <<"releaseView", mine[p]>>
    BY <2>2 DEF Item
  <2> HIDE DEF i
  <2>6. todo[r][i][1] = "releaseView" /\ todo[r][i][2] = mine[p]
    BY <2>5
  <2>7. mine[p] \in Parents
    BY <1>1, <2>4, <2>6 DEF Bundled, Clean
  <2> QED
    BY <1>1, <2>7 DEF Parents
<1>5. Cardinality({}) = 0 /\ 0 + 0 + 0 = 0
  BY FS_EmptySet
<1>6. set[mine[p]].borrowers =
        Cardinality(Leases(mine[p])) + Cardinality(Views(mine[p])) + Cardinality(Returns(todo, mine[p]))
  BY <1>1 DEF SetInv, BorrowCount, Borrows
<1> QED
  BY <1>2, <1>3, <1>4, <1>5, <1>6

\* A step of a call that leaves the sets as they are, but for their borrowers.
LEMMA GentleCall ==
  ASSUME Inv, CallInv, ~UserRun, NEW p \in Procs, OthersKeep(p), CallsKeep(p), pc'[p] # "user",
         cache' = cache, mine'[p] = mine[p], Active(p)' <=> Active(p), OwnLease(p)',
         \A w \in Sets : Lives(w), Clean(todo'[p], Parents, Asked(p)'), Exclusive'
  PROVE  CallInv'
<1>1. /\ \A r \in Procs \ {p} : pc'[r] = pc[r] /\ mine'[r] = mine[r] /\ Asked(r)' = Asked(r)
      /\ Parents' = Parents
  BY Moves DEF CallInv
<1>2. Bundled'
  BY <1>1, BundledStep DEF CallInv
<1>3. Private'
  BY <1>1, SamePrivate DEF CallInv
<1> QED
  BY <1>2, <1>3, CallInvStep

\* The steps of a call to and from the cache.
LEMMA CacheSteps ==
  ASSUME Inv, CallInv, ~UserRun, NEW p \in Procs,
         \/ Load(p) \/ LockCache(p) \/ CacheHit(p) \/ CacheMiss(p) \/ CacheFailure(p)
         \/ LoadRefused(p) \/ BeginRefused(p)
  PROVE  CallInv'
<1>1. ASSUME NEW l, Goto(p, l), UNCHANGED setVars, mine' = mine, cache' = cache,
             pc[p] \notin {"session", "beginning"}, l \notin {"user", "beginning"},
             l \in {"loading", "begin", "session", "close"} <=> Active(p),
             \/ lock' = lock /\ l \notin {"cache", "importing"}
             \/ lock = p /\ l \notin {"cache", "importing"}
             \/ lock = NoProc /\ lock' = p /\ l = "cache"
             \/ cache = NoSet /\ lock' = lock /\ lock = p /\ l = "importing"
      PROVE  CallInv'
  <2>1. CallsKeep(p) /\ pc'[p] = l /\ ~UserRun' /\ Bundled' /\ Private'
    BY <1>1, PureCall
  <2>2. Exclusive'
    BY <1>1, <2>1, ExclusiveStep DEF CallInv
  <2> QED
    BY <1>1, <2>1, <2>2, CallInvStep
<1>2. pc[p] \in {"cache", "importing"} => lock = p
  BY DEF CallInv, Exclusive
<1>3. CASE Load(p)
  <2>1. PICK next \in {"done", "lock", "import"} : Goto(p, next)
    BY <1>3 DEF Load
  <2> QED
    BY <1>1, <1>3, <2>1 DEF Load, Active
<1>4. CASE LockCache(p)
  BY <1>1, <1>4 DEF LockCache, Active
<1>5. CASE CacheHit(p)
  BY <1>1, <1>2, <1>5 DEF CacheHit, Active
<1>6. CASE CacheMiss(p)
  BY <1>1, <1>2, <1>6 DEF CacheMiss, Active
<1>7. CASE CacheFailure(p)
  BY <1>1, <1>2, <1>7 DEF CacheFailure, Active
<1>8. CASE LoadRefused(p)
  BY <1>1, <1>8 DEF LoadRefused, Active
<1>9. CASE BeginRefused(p)
  BY <1>1, <1>9 DEF BeginRefused, Active
<1> QED
  BY <1>3, <1>4, <1>5, <1>6, <1>7, <1>8, <1>9

\* The import for the cache: the first, since the importer holds the mutex.
LEMMA ImportCall ==
  ASSUME Inv, CallInv, ~UserRun, NEW p \in Procs, NEW s \in Sets, CacheImported(p, s)
  PROVE  CallInv'
<1>1. /\ pc[p] = "importing" /\ ~set[s].initialized /\ set' = [set EXCEPT ![s] = Fresh(ImportAccount, Bytes, NoSet)]
      /\ cache' = s /\ Goto(p, "share") /\ mine' = mine /\ lease' = lease /\ todo' = todo
  BY DEF CacheImported, FirstFree
<1>2. Bundled /\ Exclusive /\ Private /\ cache = NoSet /\ Parents = {NoSet}
  BY <1>1 DEF CallInv, Exclusive, Parents
<1>3. SetInv' /\ OthersKeep(p) /\ Published(s)' /\ SetInv /\ Calls
  BY CacheImportedStep DEF Inv
<1>4. CallsKeep(p) /\ pc'[p] = "share"
  BY <1>1, <1>3 DEF CallsKeep, Calls, Goto
<1>5. /\ ~UserRun' /\ \A r \in Procs \ {p} : pc'[r] = pc[r] /\ mine'[r] = mine[r] /\ Asked(r)' = Asked(r)
      /\ Parents' = {s} /\ Asked(p) = {} /\ Asked(p)' = {}
  BY <1>1, <1>2, <1>4, Moves
<1>6. set'[s] = Fresh(ImportAccount, Bytes, NoSet) /\ \A w \in Sets \ {s} : set'[w] = set[w]
  BY <1>1, <1>3 DEF SetInv, Types
<1>7. Bundled'
  <2>1. ASSUME NEW w \in Sets, set'[w].initialized, set'[w].account = ImportAccount PROVE w = cache'
    <3>1. CASE w # s
      BY <1>2, <1>6, <2>1, <3>1, SetAssumption DEF Bundled
    <3> QED
      BY <1>1, <3>1
  <2>2. ASSUME NEW w \in Sets, w = cache' PROVE IsBundle(set'[w])
    BY <1>1, <1>6, <2>2 DEF IsBundle, Fresh
  <2>3. ASSUME NEW w \in Sets PROVE set'[w].parent \in {NoSet} \cup Parents'
    BY <1>2, <1>5, <1>6 DEF Bundled, Fresh
  <2>4. ASSUME NEW r \in Procs PROVE Clean(todo'[r], Parents', Asked(r)')
    <3>1. Clean(todo[r], {NoSet}, Asked(r)) /\ Asked(r)' = Asked(r)
      BY <1>2, <1>5 DEF Bundled
    <3>2. todo[r] \in Seq(Jobs)
      BY <1>3 DEF SetInv, Types
    <3>3. ASSUME NEW i \in 1..Len(todo[r]), todo[r][i][1] = "releaseView" PROVE FALSE
      <4>1. todo[r][i] \in Jobs /\ todo[r][i][2] = NoSet
        BY <3>1, <3>2, <3>3 DEF Clean
      <4>2. todo[r][i][2] \in Sets
        BY <3>3, <4>1 DEF Jobs
      <4> QED
        BY <4>1, <4>2, SetAssumption
    <3>4. Clean(todo[r], {s}, Asked(r))
      BY <3>1, <3>3 DEF Clean
    <3> QED
      BY <1>1, <1>5, <3>1, <3>4
  <2> QED
    BY <2>1, <2>2, <2>3, <2>4 DEF Bundled
<1>8. Exclusive'
  BY <1>1, <1>2, <1>4, <1>5, ExclusiveStep
<1>9. ~Active(p) /\ ~Active(p)' /\ lease[p] = NoSet
  BY <1>1, <1>2, <1>4 DEF Active, Private, OwnLease
<1>10. Private'
  <2>1. CacheStays /\ Takes(p) /\ OwnSet(p)' /\ OwnLease(p)'
    BY <1>1, <1>9 DEF CacheStays, Takes, OwnSet, OwnLease
  <2>2. \A w \in Sets : Lives(w) \/ ~set[w].initialized
    BY <1>1, <1>6 DEF Lives
  <2>3. ASSUME NEW w \in Sets, set'[w].entries, w # s PROVE w # cache /\ set[w].entries
    BY <1>2, <1>6, <2>3, SetAssumption
  <2>4. Keeps(p)
    BY <1>1, <1>9, <2>2, <2>3 DEF Keeps
  <2> QED
    BY <1>2, <1>3, <1>5, <2>1, <2>4, PrivateStep
<1> QED
  BY <1>4, <1>7, <1>8, <1>10, CallInvStep

\* A call takes its set.
LEMMA TakeSteps ==
  ASSUME Inv, CallInv, ~UserRun, NEW p \in Procs, NEW v \in Sets, ShareCached(p, v) \/ ImportOwn(p, v)
  PROVE  CallInv'
<1>1. /\ pc[p] \in {"share", "import"} /\ Goto(p, "loading") /\ mine' = [mine EXCEPT ![p] = v]
      /\ cache' = cache /\ lock' = lock
  BY DEF ShareCached, ImportOwn
<1>2. SetInv /\ Bundled /\ Calls /\ CallOf(p) /\ Parents = {cache}
  BY DEF Inv, CallInv, Calls, Parents
<1>3. \E q \in {NoSet} \cup Parents : Operation(p) /\ Made(p, v, q) /\ OthersKeep(p)
  <2>1. CASE ShareCached(p, v)
    <3>1. PICK q \in Sets : q = cache /\ Published(q)
      BY <1>2, <2>1 DEF ShareCached, CallOf, Calls
    <3>2. shareDictionarySet(p, q, v)
      BY <2>1, <3>1 DEF ShareCached
    <3>3. OthersKeep(p) /\ Made(p, v, q)
      BY <1>2, <3>1, <3>2, ShareStep, MakeSteps
    <3>4. Operation(p)
      BY <1>2, <3>1, <3>2 DEF Operation
    <3> QED
      BY <1>2, <3>1, <3>3, <3>4
  <2>2. CASE ImportOwn(p, v)
    <3>1. NewDictionarySet(p, v, AccountOf[p])
      BY <2>2 DEF ImportOwn
    <3>2. OthersKeep(p) /\ Made(p, v, NoSet)
      BY <1>2, <3>1, NewStep, MakeSteps
    <3>3. Operation(p)
      BY <3>1 DEF Operation
    <3> QED
      BY <3>2, <3>3
  <2> QED
    BY <2>1, <2>2
<1>4. PICK q \in {NoSet} \cup Parents : Operation(p) /\ Made(p, v, q) /\ OthersKeep(p)
  BY <1>3
<1>5. (\A w \in Sets : Lives(w) \/ Swapped(w)) /\ Clean(todo'[p], Parents, Asked(p))
  BY <1>2, <1>4, OperationKeeps
<1>6. CallsKeep(p) /\ pc'[p] = "loading" /\ Bundled' /\ Private'
  BY <1>1, <1>4, <1>5, TakeCall
<1>7. ~UserRun'
  BY <1>6, Moves DEF CallInv
<1>8. Exclusive'
  BY <1>1, <1>6, <1>7, ExclusiveStep DEF CallInv
<1> QED
  BY <1>6, <1>8, CallInvStep

\* A call ends without its set, which holds no data any more.
LEMMA DropCall ==
  ASSUME Inv, CallInv, ~UserRun, NEW p \in Procs, OthersKeep(p), CallsKeep(p), pc'[p] = "done", Active(p),
         pc[p] # "beginning", cache' = cache, lock' = lock, Operation(p), lease'[p] = NoSet,
         ~set'[mine[p]].entries, \A w \in Sets \ {mine[p]} : Lives(w)
  PROVE  CallInv'
<1>1. Bundled /\ SetInv /\ Private /\ Exclusive
  BY DEF CallInv, Inv
<1>2. /\ \A r \in Procs \ {p} : pc'[r] = pc[r] /\ mine'[r] = mine[r] /\ Asked(r)' = Asked(r)
      /\ Parents' = Parents /\ Asked(p)' = Asked(p) /\ ~UserRun'
  BY <1>1, Moves
<1>3. Bundled'
  BY <1>1, <1>2, OperationKeeps, BundledStep
<1>4. Exclusive'
  BY <1>1, <1>2, ExclusiveStep
<1>5. ~Active(p)' /\ mine[p] # cache
  BY <1>1 DEF Active, Private, OwnSet
<1>6. CacheStays /\ Takes(p) /\ OwnSet(p)' /\ OwnLease(p)'
  BY <1>5 DEF CacheStays, Takes, OwnSet, OwnLease
<1>7. ASSUME NEW w \in Sets, set'[w].entries PROVE w # mine[p] /\ set[w].entries
  BY <1>7 DEF Lives
<1>8. Keeps(p)
  BY <1>7 DEF Keeps
<1>9. Private'
  BY <1>1, <1>2, <1>6, <1>8, PrivateStep
<1> QED
  BY <1>3, <1>4, <1>9, CallInvStep

\* The end of a load.
LEMMA EndLoadCall ==
  ASSUME Inv, CallInv, ~UserRun, NEW p \in Procs, NEW ok \in BOOLEAN, EndLoad(p, ok)
  PROVE  CallInv'
<1>0. SetInv /\ Calls /\ Bundled /\ Exclusive /\ Private
  BY DEF Inv, CallInv
<1>1. /\ pc[p] = "loading" /\ Goto(p, IF ok THEN "begin" ELSE "done")
      /\ mine' = [mine EXCEPT ![p] = IF ok THEN mine[p] ELSE NoSet] /\ cache' = cache /\ lock' = lock
      /\ EndImport(p, ok) \/ AdmitView(p, ok)
  BY DEF EndLoad
<1>2. OthersKeep(p) /\ Operation(p)
  BY <1>0, <1>1, EndImportStep, AdmitStep DEF Operation
<1>3. Active(p) /\ mine[p] \in Sets /\ Constructs(p, mine[p]) /\ lease[p] = NoSet
  BY <1>0, <1>1, OwnIsThere DEF Active, Private, OwnLease
<1>4. CASE ok = TRUE
  <2>1. Goto(p, "begin") /\ mine' = [mine EXCEPT ![p] = mine[p]]
    BY <1>1, <1>4
  <2>2. CallsKeep(p) /\ pc'[p] = "begin" /\ mine'[p] = mine[p]
    <3>1. mine[p] \in Sets \cup {NoSet} /\ cache' = cache
      BY <1>1, <1>3
    <3> QED
      BY <1>0, <2>1, <3>1, GoesWith
  <2>3. (\A w \in Sets : Lives(w)) /\ lease' = lease
    BY <1>0, <1>1, <1>4, QuietSteps
  <2>4. ~UserRun' /\ Asked(p)' = Asked(p)
    BY <1>0, <1>1, <2>2, Moves
  <2>5. Exclusive'
    BY <1>0, <1>1, <2>2, <2>4, ExclusiveStep
  <2>6. Clean(todo'[p], Parents, Asked(p)')
    BY <1>0, <1>2, <2>4, OperationKeeps
  <2>7. OwnLease(p)' /\ (Active(p)' <=> Active(p))
    BY <1>3, <2>2, <2>3 DEF OwnLease, Active
  <2> QED
    BY <1>1, <1>2, <2>2, <2>3, <2>5, <2>6, <2>7, GentleCall
<1>5. CASE ok = FALSE
  <2>1. Goto(p, "done") /\ mine' = [mine EXCEPT ![p] = NoSet] /\ NoSet \in Sets \cup {NoSet}
    BY <1>1, <1>5
  <2>2. CallsKeep(p) /\ pc'[p] = "done" /\ mine'[p] = NoSet
    <3>1. cache' = cache
      BY <1>1
    <3> QED
      BY <1>0, <2>1, <3>1, GoesWith
  <2>3. PICK s \in Sets : /\ Constructs(p, s) /\ set'[s] = Unallocated
                          /\ \A w \in Sets \ {s} : Lives(w)
                          /\ lease' = lease
    BY <1>0, <1>1, <1>5, FailSteps
  <2>4. s = mine[p]
    BY <1>3, <2>3 DEF Constructs, Doing
  <2>5. ~set'[mine[p]].entries
    BY <2>3, <2>4 DEF Unallocated
  <2> QED
    BY <1>1, <1>2, <1>3, <2>2, <2>3, <2>4, <2>5, DropCall
<1> QED
  BY <1>4, <1>5

\* The session of a call.
LEMMA SessionCall ==
  ASSUME Inv, CallInv, ~UserRun, NEW p \in Procs, Begin(p) \/ Borrow(p) \/ EndSession(p)
  PROVE  CallInv'
<1>0. SetInv /\ Calls /\ Bundled /\ Exclusive /\ Private /\ CallOf(p)
  BY DEF Inv, CallInv, Calls
<1>1. /\ pc[p] \in {"begin", "beginning", "session"} /\ mine' = mine /\ cache' = cache /\ lock' = lock
      /\ \E l \in {"beginning", "session", "close"} : Goto(p, l)
  BY DEF Begin, Borrow, EndSession
<1>2. PICK l \in {"beginning", "session", "close"} : Goto(p, l)
  BY <1>1
<1>3. CallsKeep(p) /\ pc'[p] = l /\ mine'[p] = mine[p]
  BY <1>0, <1>1, <1>2, Goes
<1>4. ~UserRun' /\ Parents = {cache} /\ (pc[p] # "beginning" => Asked(p) = {})
  BY <1>0, <1>3, Moves
<1>5. Exclusive' /\ Active(p) /\ Active(p)'
  <2>1. Exclusive'
    BY <1>0, <1>1, <1>3, <1>4, ExclusiveStep
  <2> QED
    BY <1>1, <1>3, <2>1 DEF Active
<1>6. mine[p] \in Sets /\ mine[p] # cache /\ ~set[mine[p]].closed /\ OwnLease(p) /\ lease \in [Procs -> Sets \cup {NoSet}]
  BY <1>0, <1>5, OwnIsThere DEF Private, OwnSet, SetInv, Types
<1>7. CASE Begin(p)
  <2>1. ChargeLease(p, mine[p]) /\ pc[p] = "begin" /\ Goto(p, "beginning")
    BY <1>7 DEF Begin
  <2>2. OthersKeep(p)
    BY <1>0, <1>6, <2>1, ChargeLeaseStep DEF CallOf
  <2>3. (\A w \in Sets : Lives(w)) /\ todo'[p] = <<<<"borrow", mine[p]>>>> /\ lease' = lease
    BY <1>0, <1>6, <2>1, LeaseSteps
  <2>4. pc'[p] = "beginning"
    BY <1>0, <1>1, <2>1, Goes
  <2>5. Asked(p)' = {mine[p]}
    BY <1>3, <1>4, <2>4 DEF Asked
  <2>6. Clean(todo'[p], Parents, Asked(p)')
    BY <2>3, <2>5, CleanShort
  <2>7. OwnLease(p)'
    BY <1>6, <2>1, <2>3 DEF OwnLease
  <2> QED
    BY <1>1, <1>3, <1>5, <2>2, <2>3, <2>6, <2>7, GentleCall
<1>8. CASE Borrow(p)
  <2>1. borrow(p) /\ pc[p] = "beginning" /\ Goto(p, IF lease'[p] = NoSet THEN "close" ELSE "session")
    BY <1>8 DEF Borrow
  <2>2. OthersKeep(p)
    BY <1>0, <2>1, BorrowStep
  <2>3. (\A w \in Sets : Lives(w)) /\ Clean(todo'[p], Parents, Asked(p)')
    BY <1>0, <2>1, LeaseSteps
  <2>4. PICK s \in Sets : Doing(p, "borrow", s) /\ lease'[p] \in {s, NoSet}
    BY <1>0, <2>1, LeaseSteps
  <2>5. s = mine[p]
    <3>1. Asked(p) = {mine[p]} /\ Clean(todo[p], Parents, Asked(p))
      BY <1>0, <2>1 DEF Asked, Bundled
    <3>2. Len(todo[p]) = 1 /\ todo[p][1] = <<"borrow", s>>
      BY <2>4 DEF Doing
    <3>3. 1 \in 1..Len(todo[p]) /\ todo[p][1][1] = "borrow" /\ todo[p][1][2] = s
      BY <3>2
    <3> QED
      BY <3>1, <3>3 DEF Clean
  <2>6. lease'[p] # NoSet => pc'[p] = "session"
    <3>1. CASE lease'[p] # NoSet
      <4>1. Goto(p, "session")
        BY <2>1, <3>1
      <4> QED
        BY <1>0, <1>1, <4>1, Goes
    <3> QED
      BY <3>1
  <2>7. OwnLease(p)'
    BY <1>3, <2>4, <2>5, <2>6 DEF OwnLease
  <2> QED
    BY <1>1, <1>3, <1>5, <2>2, <2>3, <2>7, GentleCall
<1>9. CASE EndSession(p)
  <2>1. release(p) /\ pc[p] = "session" /\ Goto(p, "close")
    BY <1>9 DEF EndSession
  <2>2. OthersKeep(p) /\ lease'[p] = NoSet
    BY <1>0, <1>6, <2>1, ReleaseStep DEF release
  <2>3. PICK s \in Sets : /\ \A w \in Sets \ {s} : Lives(w)
                          /\ (Lives(s) /\ StaysClean(p)) \/ (set[s].closed /\ Ends(p, s))
                          /\ lease[p] = s
    BY <1>0, <2>1, ReturnSteps
  <2>4. s = mine[p]
    BY <1>6, <2>3, SetAssumption DEF OwnLease
  <2>5. (\A w \in Sets : Lives(w)) /\ StaysClean(p)
    BY <1>6, <2>3, <2>4
  <2>6. pc'[p] = "close"
    BY <1>0, <1>1, <2>1, Goes
  <2>7. Clean(todo'[p], Parents, Asked(p)')
    <3>1. Clean(todo[p], Parents, Asked(p)) /\ Asked(p) = {} /\ Asked(p)' = {}
      BY <1>0, <1>4, <2>1, <2>6 DEF Bundled, Asked
    <3> QED
      BY <2>5, <3>1 DEF StaysClean
  <2>8. OwnLease(p)'
    BY <2>2 DEF OwnLease
  <2> QED
    BY <1>1, <1>3, <1>5, <2>2, <2>5, <2>7, <2>8, GentleCall
<1> QED
  BY <1>7, <1>8, <1>9

\* The deferred Close of a call frees its set: nobody else has it.
LEMMA CloseCall ==
  ASSUME Inv, CallInv, ~UserRun, NEW p \in Procs, CloseOwn(p)
  PROVE  CallInv'
<1>0. SetInv /\ Calls /\ Bundled /\ Private /\ CallOf(p)
  BY DEF Inv, CallInv, Calls
<1>1. /\ pc[p] = "close" /\ Close(p, mine[p]) /\ Goto(p, "done")
      /\ mine' = mine /\ cache' = cache /\ lock' = lock
  BY DEF CloseOwn
<1>2. CallsKeep(p) /\ pc'[p] = "done"
  BY <1>0, <1>1, Goes
<1>3. Active(p) /\ mine[p] \in Sets /\ mine[p] # cache /\ lease[p] = NoSet /\ Published(mine[p])
  BY <1>0, <1>1, OwnIsThere DEF Active, Private, OwnSet, OwnLease, CallOf
<1>4. OthersKeep(p)
  BY <1>0, <1>1, <1>3, CloseStep
<1>5. (\A w \in Sets \ {mine[p]} : Lives(w)) /\ ~set'[mine[p]].entries
  BY <1>0, <1>1, <1>3, CloseEnds, OwnIsUnborrowed
<1>6. Operation(p) /\ lease'[p] = NoSet
  BY <1>1, <1>3 DEF Operation, Close
<1> QED
  BY <1>1, <1>2, <1>3, <1>4, <1>5, <1>6, DropCall

\* What a call has left to give back.
LEMMA UnwindCall ==
  ASSUME Inv, CallInv, ~UserRun, NEW p \in Procs, Unwind(p)
  PROVE  CallInv'
<1>0. SetInv /\ Calls /\ Bundled /\ Exclusive /\ Private
  BY DEF Inv, CallInv
<1>1. (releaseView(p) \/ refund(p)) /\ pc' = pc /\ mine' = mine /\ cache' = cache /\ lock' = lock
  BY DEF Unwind, callVars
<1>2. OthersKeep(p)
  BY <1>0, <1>1, ReleaseViewStep, RefundStep
<1>3. CallsKeep(p) /\ pc'[p] # "user" /\ Exclusive' /\ (Active(p)' <=> Active(p)) /\ Asked(p)' = Asked(p)
  <2>1. UserRun' <=> UserRun
    BY <1>1 DEF UserRun
  <2>2. pc'[p] # "user"
    BY <1>1 DEF UserRun
  <2>3. Exclusive'
    BY <1>0, <1>1, <2>1 DEF Exclusive
  <2>4. CallsKeep(p)
    BY <1>0, <1>1 DEF CallsKeep, Calls
  <2> QED
    BY <1>1, <2>1, <2>2, <2>3, <2>4 DEF Active, Asked
<1>4. (\A w \in Sets : Lives(w)) /\ lease' = lease
  <2>1. CASE refund(p)
    BY <1>0, <2>1, QuietSteps
  <2>2. CASE releaseView(p)
    <3>1. PICK s \in Sets : /\ \A w \in Sets \ {s} : Lives(w)
                            /\ (Lives(s) /\ StaysClean(p)) \/ (set[s].closed /\ Ends(p, s))
                            /\ todo[p] # <<>> /\ Head(todo[p]) = <<"releaseView", s>>
      BY <1>0, <2>2, ReturnSteps
    <3>2. s = cache
      <4>1. todo[p] \in Seq(Jobs)
        BY <1>0 DEF SetInv, Types
      <4>2. 1 \in 1..Len(todo[p]) /\ todo[p][1] = <<"releaseView", s>>
        BY <3>1, <4>1
      <4>3. todo[p][1][1] = "releaseView" /\ todo[p][1][2] = s
        BY <4>2
      <4>4. s \in Parents
        BY <1>0, <4>2, <4>3 DEF Bundled, Clean
      <4> QED
        BY <4>4 DEF Parents
    <3>3. ~set[s].closed
      BY <1>0, <3>2 DEF Bundled, IsBundle
    <3> QED
      BY <2>2, <3>1, <3>3 DEF releaseView
  <2> QED
    BY <1>1, <2>1, <2>2
<1>5. Clean(todo'[p], Parents, Asked(p)')
  <2>1. Operation(p)
    BY <1>1 DEF Operation
  <2> QED
    BY <1>0, <1>3, <2>1, OperationKeeps
<1>6. OwnLease(p)'
  BY <1>0, <1>1, <1>4 DEF Private, OwnLease
<1> QED
  BY <1>1, <1>2, <1>3, <1>4, <1>5, <1>6, GentleCall

\* Before the first call.
LEMMA CallsInitial == Init => CallInv
<1> SUFFICES ASSUME Init PROVE CallInv
  OBVIOUS
<1>1. /\ set = [s \in Sets |-> Unallocated] /\ lease = [p \in Procs |-> NoSet] /\ todo = [p \in Procs |-> <<>>]
      /\ pc \in Programs /\ mine = [p \in Procs |-> NoSet] /\ cache = NoSet
  BY DEF Init, InitSets
<1>2. \A p \in Procs : pc[p] \in {"load", "user", "done"}
  BY <1>1, CallAssumption
<1>3. UserRun => \A p \in Procs : pc[p] \in {"user", "done"}
  <2> SUFFICES ASSUME NEW r \in Procs, pc[r] = "user", NEW p \in Procs PROVE pc[p] \in {"user", "done"}
    BY DEF UserRun
  <2>1. pc[p] # "load"
    BY <1>1, CallAssumption
  <2> QED
    BY <1>2, <2>1
<1>4. \A s \in Sets : set[s] = Unallocated
  BY <1>1
<1>5. Bundled
  <2>1. \A p \in Procs : Clean(todo[p], Parents, Asked(p))
    BY <1>1, CleanShort
  <2> QED
    BY <1>1, <1>4, <2>1, SetAssumption DEF Bundled, Unallocated
<1>6. Exclusive
  BY <1>1, <1>2, <1>3 DEF Exclusive
<1>7. Private
  BY <1>1, <1>2, <1>4 DEF Private, OwnSet, OwnLease, Active, Unallocated
<1> QED
  BY <1>5, <1>6, <1>7 DEF CallInv

\* Every step of a call keeps the invariant of the calls.
LEMMA CallKeepsCalls ==
  ASSUME Inv, CallInv, NEW p \in Procs, Step(p)
  PROVE  CallInv'
<1>1. CASE UserRun
  <2>1. pc[p] \in {"user", "done"}
    BY <1>1 DEF CallInv, Exclusive
  <2>2. Unwind(p)
    BY <2>1 DEF Step, Load, LockCache, CacheHit, CacheMiss, CacheFailure, CacheImported, ShareCached, ImportOwn,
                LoadRefused, EndLoad, Begin, BeginRefused, Borrow, EndSession, CloseOwn
  <2>3. OthersKeep(p)
    BY <2>2, ReleaseViewStep, RefundStep DEF Unwind, Inv
  <2> QED
    BY <1>1, <2>2, <2>3, UserStep
<1>2. CASE ~UserRun
  BY <1>2, CacheSteps, ImportCall, TakeSteps, EndLoadCall, SessionCall, CloseCall, UnwindCall DEF Step
<1> QED
  BY <1>1, <1>2

\* Every operation of a direct user of sets keeps it.
LEMMA UseKeepsCalls ==
  ASSUME Inv, CallInv, NEW p \in Procs, UseSets(p)
  PROVE  CallInv'
<1>1. UserRun
  BY DEF UseSets, UserRun
<1>2. OthersKeep(p)
  BY UseStep
<1> QED
  BY <1>1, <1>2, UserStep

\* What the calls know of the cached set and of their own sets, in every
\* interleaving of calls that share the cache: only the owner of the mutex
\* imports (cachedBundledDictionarySet), no call closes the cached set or holds
\* a set of another, and a run of direct users has no cached set.
THEOREM CallsInductive == Spec => [](Inv /\ CallInv)
<1>1. Init => CallInv
  BY CallsInitial
<1>2. Inv /\ CallInv /\ [Next]_vars => CallInv'
  <2> SUFFICES ASSUME Inv, CallInv, [Next]_vars PROVE CallInv'
    OBVIOUS
  <2>1. ASSUME NEW p \in Callers, Step(p) PROVE CallInv'
    BY <2>1, CallKeepsCalls DEF Callers
  <2>2. ASSUME NEW p \in Procs \ Callers, UseSets(p) PROVE CallInv'
    BY <2>2, UseKeepsCalls
  <2>3. CASE UNCHANGED vars
    <3>1. /\ set' = set /\ lease' = lease /\ todo' = todo
          /\ pc' = pc /\ mine' = mine /\ cache' = cache /\ lock' = lock
      BY <2>3 DEF vars, setVars, callVars
    <3>2. (UserRun' <=> UserRun) /\ \A r \in Procs : Active(r)' <=> Active(r)
      BY <3>1 DEF UserRun, Active
    <3>3. Parents' = Parents /\ \A r \in Procs : Asked(r)' = Asked(r)
      BY <3>1, <3>2 DEF Parents, Asked
    <3>4. Bundled' /\ Exclusive'
      BY <3>1, <3>2, <3>3 DEF CallInv, Bundled, Exclusive
    <3>5. ~UserRun => Private'
      BY <3>1, <3>2 DEF CallInv, Private, OwnSet, OwnLease
    <3> QED
      BY <3>2, <3>4, <3>5 DEF CallInv
  <2> QED
    BY <2>1, <2>2, <2>3 DEF Next
<1> QED
  BY <1>1, <1>2, SetsInductive, PTL DEF Spec

-----------------------------------------------------------------------------
(* The cached set and its account                                           *)

\* A number that counts nothing.
LEMMA NothingCounts ==
  /\ Cardinality({}) = 0 /\ 0 + 0 + 0 = 0 /\ LeaseBytes * 0 = 0
  /\ \A n \in Nat : n + 0 + 0 = n
BY FS_EmptySet, SetAssumption

\* After all calls no set but the cached one holds data.
LEMMA AllReturned ==
  ASSUME Inv, CallInv, \A p \in Procs : Done(p)
  PROVE  NothingRetained
<1>1. ~UserRun /\ SetInv /\ Bundled /\ Private
  BY DEF Done, UserRun, CallInv, Inv
<1>2. \A p \in Procs : todo[p] = <<>> /\ lease[p] = NoSet /\ ~Active(p)
  BY <1>1 DEF Done, Idle, Private, OwnLease, Active
<1>3. \A s \in Sets : set[s].entries => s = cache
  BY <1>1, <1>2 DEF Private
<1>4. Items(todo) = {}
  BY <1>2 DEF Items
<1>5. ASSUME NEW a \in Accounts \ {ImportAccount} PROVE gauge[a] = 0
  <2>1. ASSUME NEW s \in Sets, set[s].account = a PROVE set[s].retained = 0
    BY <1>1, <1>3, <2>1 DEF SetInv, Records, Sound, Bundled, IsBundle
  <2>2. SetBytes(a) = {}
    BY <2>1 DEF SetBytes
  <2>3. Leased(a) = {}
    BY <1>2 DEF Leased, Idle
  <2>4. Refunds(todo, a) = {}
    BY <1>4 DEF Refunds
  <2>5. gauge[a] = Cardinality(SetBytes(a)) + LeaseBytes * Cardinality(Leased(a)) + Cardinality(Refunds(todo, a))
    BY <1>1 DEF SetInv, ByteCount, Due
  <2> QED
    BY <2>2, <2>3, <2>4, <2>5, NothingCounts
<1>6. ASSUME cache # NoSet PROVE set[cache].borrowers = 0
  <2>1. cache \in Sets
    BY <1>6 DEF Inv, Calls
  <2>2. Leases(cache) = {}
    BY <1>2, <1>6 DEF Leases
  <2>3. Views(cache) = {}
    <3> SUFFICES ASSUME NEW v \in Sets, set[v].parent = cache PROVE FALSE
      BY DEF Views
    <3>1. set[v].entries
      BY <1>1, <1>6 DEF SetInv, Records, Sound
    <3>2. v = cache
      BY <1>3, <3>1
    <3> QED
      BY <1>1, <1>6, <3>2 DEF Bundled, IsBundle
  <2>4. Returns(todo, cache) = {}
    BY <1>4 DEF Returns
  <2>5. set[cache].borrowers = Cardinality(Leases(cache)) + Cardinality(Views(cache)) + Cardinality(Returns(todo, cache))
    BY <1>1, <2>1 DEF SetInv, BorrowCount, Borrows
  <2> QED
    BY <2>2, <2>3, <2>4, <2>5, NothingCounts
<1> QED
  BY <1>5, <1>6 DEF NothingRetained

\* The account of the cache is charged for the cached set only.
LEMMA OneImport ==
  ASSUME Inv, CallInv
  PROVE  ImportedOnce
<1>1. SetInv /\ Bundled /\ ImportAccount \in Accounts /\ Bytes \in Nat
  BY CallAssumption, SetAssumption DEF CallInv, Inv
<1>2. Cardinality({s \in Sets : set[s].initialized /\ set[s].account = ImportAccount}) <= 1
  <2>1. {s \in Sets : set[s].initialized /\ set[s].account = ImportAccount} \subseteq {cache}
    BY <1>1 DEF Bundled
  <2>2. IsFiniteSet({cache}) /\ Cardinality({cache}) = 1
    BY FS_Singleton
  <2>3. Cardinality({s \in Sets : set[s].initialized /\ set[s].account = ImportAccount}) <= Cardinality({cache})
    BY <2>1, <2>2, FS_Subset
  <2> QED
    BY <2>2, <2>3
<1>3. Cardinality(SetBytes(ImportAccount)) <= Bytes /\ Cardinality(SetBytes(ImportAccount)) \in Nat
  <2>1. ASSUME NEW s \in Sets, set[s].account = ImportAccount, set[s].retained # 0
        PROVE  s = cache /\ set[s].retained = Bytes
    <3>1. Sound(set[s])
      BY <1>1 DEF SetInv, Records
    <3>2. set[s].initialized
      BY <2>1, <3>1 DEF Sound, Unallocated
    <3>3. s = cache
      BY <1>1, <2>1, <3>2 DEF Bundled
    <3>4. IsBundle(set[s])
      BY <1>1, <3>3 DEF Bundled
    <3> QED
      BY <3>3, <3>4 DEF IsBundle
  <2>2. SetBytes(ImportAccount) \subseteq {cache} \X (1..Bytes)
    <3> SUFFICES ASSUME NEW s \in Sets, set[s].account = ImportAccount, NEW x \in {s} \X (1..set[s].retained)
                 PROVE  x \in {cache} \X (1..Bytes)
      BY DEF SetBytes
    <3>1. set[s].retained # 0
      OBVIOUS
    <3> QED
      BY <2>1, <3>1
  <2>3. IsFiniteSet({cache} \X (1..Bytes)) /\ Cardinality({cache} \X (1..Bytes)) = Bytes
    <3> DEFINE K == {}
    <3>1. IsFiniteSet(K) /\ Cardinality(K) = 0 /\ K \cap ({cache} \X Nat) = {}
      BY FS_EmptySet
    <3> HIDE DEF K
    <3>2. /\ IsFiniteSet(K \cup ({cache} \X (1..Bytes)))
          /\ Cardinality(K \cup ({cache} \X (1..Bytes))) = Cardinality(K) + Bytes
      BY <1>1, <3>1, Block
    <3>3. K \cup ({cache} \X (1..Bytes)) = {cache} \X (1..Bytes)
      BY DEF K
    <3>4. 0 + Bytes = Bytes
      BY <1>1
    <3> QED
      BY <3>1, <3>2, <3>3, <3>4
  <2>4. /\ Cardinality(SetBytes(ImportAccount)) <= Cardinality({cache} \X (1..Bytes))
        /\ IsFiniteSet(SetBytes(ImportAccount))
    BY <2>2, <2>3, FS_Subset
  <2> QED
    BY <2>3, <2>4, FS_CardinalityType
<1>4. Leased(ImportAccount) = {}
  BY CallAssumption DEF Leased
<1>5. Refunds(todo, ImportAccount) = {}
  <2>1. ASSUME NEW d \in Items(todo), Item(todo, d)[1] = "refund", Item(todo, d)[2] = ImportAccount PROVE FALSE
    <3>1. PICK r \in Procs : d \in {r} \X (1..Len(todo[r]))
      BY DEF Items
    <3>2. d[1] = r /\ d[2] \in 1..Len(todo[r])
      BY <3>1
    <3>3. Len(todo[r]) \in Nat
      BY <1>1 DEF SetInv, Types
    <3> DEFINE i == Len(todo[r]) + 1 - d[2]
    <3>4. i \in 1..Len(todo[r])
      BY <3>2, <3>3
    <3>5. todo[r][i][1] = "refund" /\ todo[r][i][2] = ImportAccount
      BY <2>1, <3>2 DEF Item
    <3> HIDE DEF i
    <3> QED
      BY <1>1, <3>4, <3>5 DEF Bundled, Clean
  <2> QED
    BY <2>1 DEF Refunds
<1>6. gauge[ImportAccount] = Cardinality(SetBytes(ImportAccount)) + LeaseBytes * Cardinality(Leased(ImportAccount))
                               + Cardinality(Refunds(todo, ImportAccount))
  BY <1>1 DEF SetInv, ByteCount, Due
<1>7. gauge[ImportAccount] = Cardinality(SetBytes(ImportAccount))
  BY <1>3, <1>4, <1>5, <1>6, NothingCounts
<1> QED
  BY <1>2, <1>3, <1>7 DEF ImportedOnce

\* Whatever fails on the way, calls of inspectXMLWithDictionaries and
\* assessModelWithDictionaries that have returned leave nothing charged to their
\* accounts; the bundled data is imported once, and the cached set stays open and
\* readable although every call closes the view that it was given.
THEOREM CallsLeaveOnlyTheCache == Spec => []CallsLeaveCacheOnly
<1>1. Inv /\ CallInv => CallsLeaveCacheOnly
  <2> SUFFICES ASSUME Inv, CallInv PROVE CallsLeaveCacheOnly
    OBVIOUS
  <2>1. NothingRetained
    BY AllReturned DEF NothingRetained
  <2>2. ImportedOnce
    BY OneImport
  <2>3. CacheStaysReadable
    <3> SUFFICES ASSUME cache # NoSet PROVE ~set[cache].closed /\ set[cache].entries
      BY DEF CacheStaysReadable
    <3>1. cache \in Sets
      BY DEF Inv, Calls
    <3>2. IsBundle(set[cache]) /\ Sound(set[cache])
      BY <3>1 DEF CallInv, Bundled, Inv, SetInv, Records
    <3> QED
      BY <3>2 DEF IsBundle, Sound
  <2> QED
    BY <2>1, <2>2, <2>3 DEF CallsLeaveCacheOnly
<1> QED
  BY <1>1, CallsInductive, PTL

=============================================================================
