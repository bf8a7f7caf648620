--------------------------- MODULE DictionarySets ---------------------------
(***************************************************************************)
(* The life of dictionary sets (validation/dictionary_set.go). A set is    *)
(* imported on an account, or is a view that reads the data of another set *)
(* and holds one of its borrows. Sessions of the same account borrow a set *)
(* with a lease. Close refuses new borrows at once; the last borrow of a   *)
(* closed set frees it, which returns a view's borrow to its parent.       *)
(*                                                                         *)
(* Processes are goroutines. An action is a critical section of one set's  *)
(* mutex or one operation of an account, so that every order of them is    *)
(* explored; todo[p] is what the call that process p is in has left to do  *)
(* after it unlocked the mutex.                                            *)
(***************************************************************************)
EXTENDS Integers, Sequences, FiniteSets

CONSTANTS
  Procs, Accounts,
  Sets,           \* names of sets, numbers: a new set takes the first free one
  AccountOf,      \* the account that a process passes to its calls
  Limit,          \* buffered-bytes limit of each account
  Bytes,          \* storage of an imported set
  LeaseBytes,     \* storage of a lease
  MaxBorrowers,   \* the largest borrow count (2^63 - 1)
  NoSet

ASSUME SetAssumption ==
  /\ AccountOf \in [Procs -> Accounts]
  /\ Limit \in [Accounts -> Nat]
  /\ {Bytes, LeaseBytes, MaxBorrowers} \subseteq Nat \ {0}
  /\ Sets \subseteq Nat /\ NoSet \notin Sets
  /\ IsFiniteSet(Sets) /\ IsFiniteSet(Procs)

VARIABLES
  set,     \* the DictionarySet records
  gauge,   \* the buffered bytes charged to each account
  lease,   \* the set that the session of a process borrows
  todo     \* steps left in the call of a process

setVars == <<set, gauge, lease, todo>>

Idle(p) == todo[p] = <<>>
Fits(a, n) == n <= Limit[a] - gauge[a]

Fresh(a, bytes, parent) ==
  [initialized |-> TRUE, closed |-> FALSE, borrowers |-> 0, account |-> a,
   retained |-> bytes, entries |-> TRUE, parent |-> parent]
Unallocated ==
  [initialized |-> FALSE, closed |-> FALSE, borrowers |-> 0, account |-> CHOOSE a \in Accounts : TRUE,
   retained |-> 0, entries |-> FALSE, parent |-> NoSet]

\* The allocation of a new set.
FirstFree(s) == ~set[s].initialized /\ \A t \in Sets : t < s => set[t].initialized

\* A set that no constructor still owns.
Published(s) ==
  set[s].initialized /\ \A p \in Procs : ~Idle(p) => Head(todo[p]) \notin {<<"import", s>>, <<"admit", s>>}

InitSets ==
  /\ set = [s \in Sets |-> Unallocated]
  /\ gauge = [a \in Accounts |-> 0]
  /\ lease = [p \in Procs |-> NoSet]
  /\ todo = [p \in Procs |-> <<>>]

-----------------------------------------------------------------------------
(* What freeing a set leaves to do.                                        *)

Refund(a, n) == IF n = 0 THEN <<>> ELSE <<<<"refund", a, n>>>>
ReleaseView(q) == IF q = NoSet THEN <<>> ELSE <<<<"releaseView", q>>>>

\* Defect: a second free releases the storage again.
freeAgain(d) == [d EXCEPT !.entries = FALSE, !.parent = NoSet]

\* free, by the owner of d's mutex: a second free has nothing to release.
free(d) == [d EXCEPT !.retained = 0, !.entries = FALSE, !.parent = NoSet]

\* A borrow comes back: the last one of a closed set frees it.
Returned(d) ==
  LET e == [d EXCEPT !.borrowers = @ - 1] IN IF e.closed /\ e.borrowers = 0 THEN free(e) ELSE e
Frees(d) == d.closed /\ d.borrowers = 1

-----------------------------------------------------------------------------
(* The steps of the calls.                                                 *)

\* NewDictionarySet charges the storage before it copies and verifies the data.
NewDictionarySet(p, s, a) ==
  /\ Idle(p) /\ FirstFree(s)
  /\ Fits(a, Bytes)
  /\ gauge' = [gauge EXCEPT ![a] = @ + Bytes]
  /\ set' = [set EXCEPT ![s] = Fresh(a, Bytes, NoSet)]
  /\ todo' = [todo EXCEPT ![p] = <<<<"import", s>>>>]
  /\ UNCHANGED lease

\* Its end: a failed import releases what it charged.
EndImport(p, ok) ==
  /\ ~Idle(p) /\ Head(todo[p])[1] = "import"
  /\ LET s == Head(todo[p])[2] IN
     IF ok THEN UNCHANGED <<set, gauge>>
     ELSE /\ set' = [set EXCEPT ![s] = Unallocated]
          /\ gauge' = [gauge EXCEPT ![set[s].account] = @ - set[s].retained]
  /\ todo' = [todo EXCEPT ![p] = Tail(@)]
  /\ UNCHANGED lease

\* shareDictionarySet takes a borrow of an open parent for the new view, which
\* is charged for the parent's storage only after the mutex is unlocked.
shareDictionarySet(p, q, v) ==
  /\ Idle(p) /\ FirstFree(v)
  /\ set[q].initialized /\ ~set[q].closed /\ set[q].borrowers < MaxBorrowers
  /\ set' = [set EXCEPT ![q].borrowers = @ + 1, ![v] = Fresh(AccountOf[p], set[q].retained, q)]
  /\ todo' = [todo EXCEPT ![p] = <<<<"admit", v>>>>]
  /\ UNCHANGED <<gauge, lease>>

\* The view is charged and returned; or the context is canceled or the charge
\* refused, and the borrow of the parent goes back.
AdmitView(p, ok) ==
  /\ ~Idle(p) /\ Head(todo[p])[1] = "admit"
  /\ LET v == Head(todo[p])[2] a == AccountOf[p] IN
     IF ok
       THEN /\ Fits(a, set[v].retained)
            /\ gauge' = [gauge EXCEPT ![a] = @ + set[v].retained]
            /\ todo' = [todo EXCEPT ![p] = Tail(@)]
            /\ UNCHANGED set
       ELSE /\ todo' = [todo EXCEPT ![p] = ReleaseView(set[v].parent)]
            /\ set' = [set EXCEPT ![v] = Unallocated]
            /\ UNCHANGED gauge
  /\ UNCHANGED lease

\* BeginWithDictionaries: the lease is charged before the mutex is taken.
ChargeLease(p, s) ==
  /\ Idle(p) /\ lease[p] = NoSet
  /\ Fits(AccountOf[p], LeaseBytes)
  /\ gauge' = [gauge EXCEPT ![AccountOf[p]] = @ + LeaseBytes]
  /\ todo' = [todo EXCEPT ![p] = <<<<"borrow", s>>>>]
  /\ UNCHANGED <<set, lease>>

Borrowable(p, d) == d.initialized /\ ~d.closed /\ d.account = AccountOf[p] /\ d.borrowers < MaxBorrowers

\* The critical section of borrow: a refused borrow refunds only its lease.
borrow(p) ==
  /\ ~Idle(p) /\ Head(todo[p])[1] = "borrow"
  /\ LET s == Head(todo[p])[2] IN
     IF Borrowable(p, set[s])
       THEN /\ set' = [set EXCEPT ![s].borrowers = @ + 1]
            /\ lease' = [lease EXCEPT ![p] = s]
            /\ todo' = [todo EXCEPT ![p] = Tail(@)]
       ELSE /\ todo' = [todo EXCEPT ![p] = Refund(AccountOf[p], LeaseBytes)]
            /\ UNCHANGED <<set, lease>>
  /\ UNCHANGED gauge

\* The release of a lease, when its session ends or could not begin.
release(p) ==
  /\ Idle(p) /\ lease[p] # NoSet
  /\ LET s == lease[p] d == set[s] IN
     /\ set' = [set EXCEPT ![s] = Returned(d)]
     /\ todo' = [todo EXCEPT ![p] =
                   (IF Frees(d) THEN Refund(d.account, d.retained) \o ReleaseView(d.parent) ELSE <<>>)
                     \o Refund(d.account, LeaseBytes)]
  /\ lease' = [lease EXCEPT ![p] = NoSet]
  /\ UNCHANGED gauge

\* Defect: the storage is freed under the sessions that read it.
CloseNow(p, s) ==
  /\ Idle(p) /\ set[s].initialized
  /\ LET d == [set[s] EXCEPT !.closed = TRUE] IN
     /\ set' = [set EXCEPT ![s] = free(d)]
     /\ todo' = [todo EXCEPT ![p] = ReleaseView(d.parent) \o Refund(d.account, d.retained)]
  /\ UNCHANGED <<gauge, lease>>

\* Close: concurrent and idempotent.
Close(p, s) ==
  /\ Idle(p) /\ set[s].initialized
  /\ LET d == [set[s] EXCEPT !.closed = TRUE] IN
     IF d.borrowers = 0
       THEN /\ set' = [set EXCEPT ![s] = free(d)]
            /\ todo' = [todo EXCEPT ![p] = ReleaseView(d.parent) \o Refund(d.account, d.retained)]
       ELSE set' = [set EXCEPT ![s] = d] /\ UNCHANGED todo
  /\ UNCHANGED <<gauge, lease>>

\* releaseView of the parent of a freed view, and up the chain of views.
releaseView(p) ==
  /\ ~Idle(p) /\ Head(todo[p])[1] = "releaseView"
  /\ LET q == Head(todo[p])[2] d == set[q] IN
     /\ set' = [set EXCEPT ![q] = Returned(d)]
     /\ todo' = [todo EXCEPT ![p] =
                   (IF Frees(d) THEN Refund(d.account, d.retained) \o ReleaseView(d.parent) ELSE <<>>) \o Tail(@)]
  /\ UNCHANGED <<gauge, lease>>

\* Account.Release of bytes that a call still owes.
refund(p) ==
  /\ ~Idle(p) /\ Head(todo[p])[1] = "refund"
  /\ gauge' = [gauge EXCEPT ![Head(todo[p])[2]] = @ - Head(todo[p])[3]]
  /\ todo' = [todo EXCEPT ![p] = Tail(@)]
  /\ UNCHANGED <<set, lease>>

\* The steps inside a call, which no caller decides.
Continue(p) ==
  \/ \E ok \in BOOLEAN : EndImport(p, ok) \/ AdmitView(p, ok)
  \/ borrow(p)
  \/ releaseView(p)
  \/ refund(p)

\* A user of the sets of a collection may use any one that a constructor
\* returned, whoever called it.
Use(p, own) ==
  \/ Continue(p)
  \/ release(p)
  \/ \E s \in own : \/ NewDictionarySet(p, s, AccountOf[p])
                    \/ Published(s) /\ (ChargeLease(p, s) \/ Close(p, s))
                    \/ \E q \in own : Published(q) /\ shareDictionarySet(p, q, s)

-----------------------------------------------------------------------------
(* Properties.                                                             *)

\* What the calls have left to do when t is todo: item j of a process counts
\* from the end of its list, so that it keeps its number until it is done.
Items(t) == UNION {{p} \X (1..Len(t[p])) : p \in Procs}
Item(t, d) == t[d[1]][Len(t[d[1]]) + 1 - d[2]]

\* The view borrows of s and the bytes of a that some call has yet to return.
Returns(t, s) == {d \in Items(t) : Item(t, d) = <<"releaseView", s>>}
Refunds(t, a) ==
  UNION {{d} \X (1..Item(t, d)[3]) :
           d \in {e \in Items(t) : Item(t, e)[1] = "refund" /\ Item(t, e)[2] = a}}

\* The leases and the views of a set.
Leases(s) == {p \in Procs : lease[p] = s}
Views(s) == {v \in Sets : set[v].parent = s}

\* The borrow count of a set is the number of its leases, of its views that are
\* not freed, and of the view borrows that some call has yet to return. A set
\* that is closed without any of them is freed (borrow, release, free).
BorrowersExact ==
  \A s \in Sets :
    /\ set[s].borrowers = Cardinality(Leases(s)) + Cardinality(Views(s)) + Cardinality(Returns(todo, s))
    /\ set[s].initialized => (set[s].entries <=> ~(set[s].closed /\ set[s].borrowers = 0))

\* An admitted session reads its data until it ends, and the parent of a view
\* stays readable as long as the view, even if either is closed meanwhile
\* (DictionarySet's and shareDictionarySet's comments).
ReadersKeepData ==
  /\ \A p \in Procs : lease[p] # NoSet => set[lease[p]].entries
  /\ \A v \in Sets : set[v].parent # NoSet => set[set[v].parent].entries

\* The sets charged to an account, their bytes, and the processes with a lease
\* charged to it.
Admitted(s) == \A p \in Procs : Idle(p) \/ Head(todo[p]) # <<"admit", s>>
SetBytes(a) ==
  UNION {{s} \X (1..set[s].retained) : s \in {t \in Sets : set[t].account = a /\ Admitted(t)}}
Leased(a) ==
  {p \in Procs : AccountOf[p] = a /\ (lease[p] # NoSet \/ (~Idle(p) /\ Head(todo[p])[1] = "borrow"))}

\* Each account is charged exactly for its live sets, for its leases and for
\* what calls have yet to refund, byte by byte: storage is freed exactly once,
\* whichever of Close, a session's end or a view's end comes last.
GaugeExact ==
  \A a \in Accounts :
    gauge[a] = Cardinality(SetBytes(a)) + LeaseBytes * Cardinality(Leased(a))
                 + Cardinality(Refunds(todo, a))

\* Borrows and bytes are exact at every step of every call, so each set is
\* freed once, by whoever comes last.
AccountsExact == BorrowersExact /\ GaugeExact

=============================================================================
