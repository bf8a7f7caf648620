------------------------ MODULE DictionaryAssessment ------------------------
(***************************************************************************)
(* Concurrent assessments with dictionaries: inspectXMLWithDictionaries    *)
(* and assessModelWithDictionaries (dictionary_assessment.go), the loading *)
(* of their set (dictionary_import.go) and the process-wide cache of the   *)
(* bundled set (bundled_dictionary_cache.go), over the life of the sets    *)
(* (DictionarySets).                                                       *)
(*                                                                         *)
(* A process makes one such call: it loads a set, a view of the cached one *)
(* or an import, runs a session that borrows it, and closes it.  The cache *)
(* imports under its mutex, on its own account.  Or it is a user of the    *)
(* sets themselves, shared with other users.  No user sees the cached set  *)
(* or the set of a call, so a program has either calls or users.           *)
(***************************************************************************)
EXTENDS DictionarySets

CONSTANTS
  ImportAccount,   \* the account on which the cache imports
  UserSets,        \* bound: the sets that users make
  Programs,        \* which processes make a call ("load") and which are users ("user")
  NoProc

ASSUME CallAssumption ==
  /\ ImportAccount \in Accounts \ {AccountOf[p] : p \in Procs}
  /\ Limit[ImportAccount] >= Bytes
  /\ NoProc \notin Procs
  /\ UserSets \subseteq Sets
  /\ Programs \subseteq [Procs -> {"load", "user", "done"}]
  /\ \A p \in Procs, g, h \in Programs : ~(g[p] = "load" /\ h[p] = "user")
  /\ \A g \in Programs, p, r \in Procs : ~(g[p] = "load" /\ g[r] = "user")

Callers == {p \in Procs : \E program \in Programs : program[p] = "load"}

VARIABLES
  pc,      \* where the call of each process is
  mine,    \* the set that it loaded
  cache,   \* bundledDictionaryCache.set
  lock     \* the owner of bundledDictionaryCache.mu

callVars == <<pc, mine, cache, lock>>
vars == <<setVars, callVars>>

Goto(p, label) == pc' = [pc EXCEPT ![p] = label]

Init ==
  /\ InitSets
  /\ pc \in Programs
  /\ mine = [p \in Procs |-> NoSet]
  /\ cache = NoSet
  /\ lock = NoProc

\* loadValidatedDictionarySet: a canceled call returns at once; the required
\* bundled selections come from the cache, others are imported.
Load(p) ==
  /\ pc[p] = "load"
  /\ \E next \in {"done", "lock", "import"} : Goto(p, next)
  /\ UNCHANGED <<setVars, mine, cache, lock>>

\* cachedBundledDictionarySet takes the mutex.
LockCache(p) ==
  /\ pc[p] = "lock" /\ lock = NoProc
  /\ lock' = p
  /\ Goto(p, "cache")
  /\ UNCHANGED <<setVars, mine, cache>>

\* The cached set is returned,
CacheHit(p) ==
  /\ pc[p] = "cache" /\ cache # NoSet
  /\ lock' = NoProc
  /\ Goto(p, "share")
  /\ UNCHANGED <<setVars, mine, cache>>

\* or an import begins, under the mutex. It ends in a set on the cache's own
\* account, which is kept,
CacheMiss(p) ==
  /\ pc[p] = "cache" /\ cache = NoSet
  /\ Goto(p, "importing")
  /\ UNCHANGED <<setVars, mine, cache, lock>>

CacheImported(p, s) ==
  /\ pc[p] = "importing"
  /\ FirstFree(s)
  /\ set' = [set EXCEPT ![s] = Fresh(ImportAccount, Bytes, NoSet)]
  /\ gauge' = [gauge EXCEPT ![ImportAccount] = @ + Bytes]
  /\ cache' = s
  /\ lock' = NoProc
  /\ Goto(p, "share")
  /\ UNCHANGED <<lease, todo, mine>>

\* Defect: a failed import returns without unlocking the mutex.
CacheFailureLocked(p) ==
  /\ pc[p] = "importing"
  /\ Goto(p, "import")
  /\ UNCHANGED <<setVars, mine, cache, lock>>

\* or in a failure, which is not cached: the caller imports for itself.
CacheFailure(p) ==
  /\ pc[p] = "importing"
  /\ lock' = NoProc
  /\ Goto(p, "import")
  /\ UNCHANGED <<setVars, mine, cache>>

\* The caller gets a view of the cached set, charged to its own account.
ShareCached(p, v) ==
  /\ pc[p] = "share"
  /\ shareDictionarySet(p, cache, v)
  /\ mine' = [mine EXCEPT ![p] = v]
  /\ Goto(p, "loading")
  /\ UNCHANGED <<cache, lock>>

ImportOwn(p, v) ==
  /\ pc[p] = "import"
  /\ NewDictionarySet(p, v, AccountOf[p])
  /\ mine' = [mine EXCEPT ![p] = v]
  /\ Goto(p, "loading")
  /\ UNCHANGED <<cache, lock>>

\* The cached set has too many borrowers, or the account is too small.
LoadRefused(p) ==
  /\ \/ pc[p] = "share" /\ set[cache].borrowers = MaxBorrowers
     \/ pc[p] = "import" /\ ~Fits(AccountOf[p], Bytes)
  /\ Goto(p, "done")
  /\ UNCHANGED <<setVars, mine, cache, lock>>

\* The end of the load: without a set the call returns.
EndLoad(p, ok) ==
  /\ pc[p] = "loading"
  /\ EndImport(p, ok) \/ AdmitView(p, ok)
  /\ Goto(p, IF ok THEN "begin" ELSE "done")
  /\ mine' = [mine EXCEPT ![p] = IF ok THEN @ ELSE NoSet]
  /\ UNCHANGED <<cache, lock>>

Begin(p) ==
  /\ pc[p] = "begin" /\ Idle(p)
  /\ ChargeLease(p, mine[p])
  /\ Goto(p, "beginning")
  /\ UNCHANGED <<mine, cache, lock>>

\* Defect: a call whose session did not begin returns without closing its set.
BeginRefusedReturns(p) ==
  /\ pc[p] = "begin" /\ ~Fits(AccountOf[p], LeaseBytes)
  /\ Goto(p, "done")
  /\ UNCHANGED <<setVars, mine, cache, lock>>

\* A session that cannot begin: the deferred Close still runs.
BeginRefused(p) ==
  /\ pc[p] = "begin" /\ ~Fits(AccountOf[p], LeaseBytes)
  /\ Goto(p, "close")
  /\ UNCHANGED <<setVars, mine, cache, lock>>

Borrow(p) ==
  /\ pc[p] = "beginning"
  /\ borrow(p)
  /\ Goto(p, IF lease'[p] = NoSet THEN "close" ELSE "session")
  /\ UNCHANGED <<mine, cache, lock>>

\* The session could not be initialized, or ran and was finished: its lease is
\* released.
EndSession(p) ==
  /\ pc[p] = "session"
  /\ release(p)
  /\ Goto(p, "close")
  /\ UNCHANGED <<mine, cache, lock>>

\* The deferred Close of the call.
CloseOwn(p) ==
  /\ pc[p] = "close"
  /\ Close(p, mine[p])
  /\ Goto(p, "done")
  /\ UNCHANGED <<mine, cache, lock>>

\* What the current operation has left to release.
Unwind(p) ==
  /\ releaseView(p) \/ refund(p)
  /\ UNCHANGED callVars

Step(p) ==
  \/ Load(p) \/ LockCache(p) \/ CacheHit(p) \/ CacheMiss(p) \/ CacheFailure(p)
  \/ \E s \in Sets : CacheImported(p, s) \/ ShareCached(p, s) \/ ImportOwn(p, s)
  \/ LoadRefused(p)
  \/ \E ok \in BOOLEAN : EndLoad(p, ok)
  \/ Begin(p) \/ BeginRefused(p) \/ Borrow(p) \/ EndSession(p) \/ CloseOwn(p)
  \/ Unwind(p)

\* A user of dictionary sets.
UseSets(p) ==
  /\ pc[p] = "user"
  /\ Use(p, UserSets)
  /\ UNCHANGED callVars

Next == \/ \E p \in Callers : Step(p)
        \/ \E p \in Procs \ Callers : UseSets(p)

\* Every call runs: a goroutine is scheduled, the embedded data is finite, and
\* an assessment ends when its input does. A call takes the mutex once, so weak
\* fairness is enough for it.
Spec == Init /\ [][Next]_vars /\ \A p \in Callers : WF_vars(Step(p))

-----------------------------------------------------------------------------
(* Properties.                                                             *)

Done(p) == pc[p] = "done" /\ Idle(p)

\* Every call returns: none waits forever for the mutex of the cache, and no
\* failed import keeps it (cachedBundledDictionarySet).
EveryCallReturns == \A p \in Callers : pc[p] = "load" ~> Done(p)

\* When the calls have returned, every caller's account is empty, whatever
\* failed on the way, and the cached set has no borrower left.
NothingRetained ==
  (\A p \in Procs : Done(p)) =>
    /\ \A a \in Accounts \ {ImportAccount} : gauge[a] = 0
    /\ cache # NoSet => set[cache].borrowers = 0

\* The bundled data is imported at most once for all calls, by the owner of the
\* mutex ("imported and verified once per process").
ImportedOnce ==
  /\ Cardinality({s \in Sets : set[s].initialized /\ set[s].account = ImportAccount}) <= 1
  /\ gauge[ImportAccount] <= Bytes

\* The cached set stays open and readable for every later call, although each
\* call closes the set that it was given.
CacheStaysReadable == cache # NoSet => ~set[cache].closed /\ set[cache].entries

\* Calls leave nothing behind but the cache: their accounts are empty, the
\* bundled data was imported once and stays readable.
CallsLeaveCacheOnly == NothingRetained /\ ImportedOnce /\ CacheStaysReadable

=============================================================================
