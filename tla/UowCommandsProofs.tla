--------------------------- MODULE UowCommandsProofs ---------------------------
(***************************************************************************)
(* Proofs about UowCommands, for any number of requests, records and       *)
(* transaction ids: its type invariant, the safety invariants, and that it *)
(* implements AtomicCommands.                                              *)
(***************************************************************************)
EXTENDS UowCommands, TLAPS

-------------------------------------------------------------------------------
\* While a transaction is held its cache holds writes of its own request only, and
\* all of them once the domain has returned success.
CacheMatchesPlan ==
  \A r \in Requests :
    /\ pc[r] \in Holding => cache[uow[r]] \subseteq Planned(r)
    /\ pc[r] = "commit" => cache[uow[r]] = Planned(r)

\* The restart left and the saving errors caught add up to one until the command
\* fails for good.
AttemptsBalance ==
  \A r \in Requests :
    /\ pc[r] = "idle" => savingErrors[r] = 0
    /\ pc[r] \in {"begin"} \union Holding => savingErrors[r] + attempts[r] = 1

\* A request in the catch block has an error to rethrow.
CatchHasError == \A r \in Requests : pc[r] = "catch" => caught[r] \in Errors

IInv ==
  /\ TypeOK
  /\ orphans \subseteq open
  /\ NoTransactionLeak
  /\ WritesToOwnTransaction
  /\ CacheMatchesPlan
  /\ AttemptsBalance
  /\ CatchHasError
  /\ OneSavingRestart

-------------------------------------------------------------------------------
\* The writes a plan names are writes to keys.
LEMMA PlannedKeys == \A r \in Requests : Planned(r) \subseteq Keys
BY DEF Planned

\* The effect of a request's writes is a function on keys again.
LEMMA EffectType ==
  ASSUME NEW recs \in [Keys -> Writers], NEW r \in Requests, NEW done
  PROVE  Effect(recs, r, done) \in [Keys -> Writers]
BY DEF Effect, Writers

\* An attempt is never spent below zero.
LEMMA AttemptsAfterType ==
  ASSUME NEW error \in Errors, NEW n \in 0..1
  PROVE  AttemptsAfter(error, n) \in 0..1
BY DEF AttemptsAfter

\* The scope's catch block keeps the types of what it touches.
LEMMA ScopeCatchType ==
  ASSUME TypeOK, NEW r \in Requests, NEW error \in Errors, ScopeCatch(r, error)
  PROVE  /\ attempts' \in [Requests -> 0..1]
         /\ pc' \in [Requests -> {"idle", "begin"} \union Holding \union Ended]
         /\ caught' \in [Requests -> Errors \union {None}]
         /\ savingErrors' \in [Requests -> 0..3]
<1>1. attempts' \in [Requests -> 0..1]
  BY AttemptsAfterType DEF TypeOK, ScopeCatch
<1>2. pc' \in [Requests -> {"idle", "begin"} \union Holding \union Ended]
  BY DEF TypeOK, ScopeCatch, Ended
<1>3. caught' \in [Requests -> Errors \union {None}]
  BY DEF TypeOK, ScopeCatch
<1>4. savingErrors' \in [Requests -> 0..3]
  BY DEF TypeOK, ScopeCatch
<1> QED
  BY <1>1, <1>2, <1>3, <1>4

\* The scope's catch block keeps the count of saving errors and restarts straight.
LEMMA ScopeCatchCounts ==
  ASSUME IInv, NEW r \in Requests, NEW error \in Errors, ScopeCatch(r, error),
         pc[r] \in {"begin"} \union Holding
  PROVE  AttemptsBalance' /\ OneSavingRestart'
<1> USE DEF IInv, TypeOK, Holding
<1>1. ASSUME NEW s \in Requests \ {r}
      PROVE  UNCHANGED <<pc[s], attempts[s], savingErrors[s], caught[s]>>
  BY DEF ScopeCatch
<1>2. savingErrors[r] + attempts[r] = 1
  BY DEF AttemptsBalance
<1>3. CASE Restarts(error, attempts[r])
  <2>1. pc'[r] = "begin" /\ savingErrors'[r] + attempts'[r] = 1
    BY <1>2, <1>3 DEF ScopeCatch, Restarts, AttemptsAfter, Errors
  <2> QED
    BY <1>1, <2>1 DEF AttemptsBalance, OneSavingRestart, ScopeCatch
<1>4. CASE ~Restarts(error, attempts[r])
  <2>1. pc'[r] = "error" /\ caught'[r] = error
    BY <1>4 DEF ScopeCatch
  <2>2. savingErrors'[r] <= 2 /\ (error = "saving" => savingErrors'[r] = 2)
    BY <1>2, <1>4 DEF ScopeCatch, Restarts, Errors
  <2> QED
    BY <1>1, <2>1, <2>2 DEF AttemptsBalance, OneSavingRestart
<1> QED
  BY <1>3, <1>4

\* The invariant holds when nothing has been served yet.
LEMMA IInvInit == Init => IInv
BY DEF Init, IInv, TypeOK, Writers, Holding, Ended, NoTransactionLeak,
       WritesToOwnTransaction, CacheMatchesPlan, AttemptsBalance, CatchHasError,
       OneSavingRestart

\* Every step of a request, and every stutter, keeps the invariant.
LEMMA IInvStep == IInv /\ [Next]_vars => IInv'
<1> SUFFICES ASSUME IInv, [Next]_vars PROVE IInv'
  OBVIOUS
<1> USE DEF IInv, Holding, Ended
<1>1. ASSUME NEW r \in Requests, Enter(r)
      PROVE  IInv'
  <2>1. TypeOK'
    BY <1>1 DEF Enter, Goto, TypeOK
  <2>2. (orphans \subseteq open)'
    BY <1>1 DEF Enter, Goto
  <2>3. NoTransactionLeak'
    BY <1>1 DEF Enter, Goto, TypeOK, NoTransactionLeak, WritesToOwnTransaction
  <2>4. WritesToOwnTransaction'
    BY <1>1 DEF Enter, Goto, TypeOK, WritesToOwnTransaction
  <2>5. CacheMatchesPlan'
    BY <1>1 DEF Enter, Goto, TypeOK, CacheMatchesPlan, WritesToOwnTransaction
  <2>6. AttemptsBalance'
    BY <1>1 DEF Enter, Goto, TypeOK, AttemptsBalance
  <2>7. CatchHasError'
    BY <1>1 DEF Enter, Goto, TypeOK, CatchHasError
  <2>8. OneSavingRestart'
    BY <1>1 DEF Enter, Goto, TypeOK, OneSavingRestart
  <2> QED
    BY <2>1, <2>2, <2>3, <2>4, <2>5, <2>6, <2>7, <2>8
<1>2. ASSUME NEW r \in Requests, StartTransaction(r)
      PROVE  IInv'
  <2>1. TypeOK'
    BY <1>2 DEF StartTransaction, Goto, TypeOK
  <2>2. (orphans \subseteq open)'
    BY <1>2 DEF StartTransaction, Goto
  <2>3. NoTransactionLeak'
    BY <1>2 DEF StartTransaction, Goto, TypeOK, NoTransactionLeak, WritesToOwnTransaction
  <2>4. WritesToOwnTransaction'
    BY <1>2 DEF StartTransaction, Goto, TypeOK, WritesToOwnTransaction, NoTransactionLeak
  <2>5. CacheMatchesPlan'
    BY <1>2 DEF StartTransaction, Goto, TypeOK, CacheMatchesPlan, WritesToOwnTransaction
  <2>6. AttemptsBalance'
    BY <1>2 DEF StartTransaction, Goto, TypeOK, AttemptsBalance
  <2>7. CatchHasError'
    BY <1>2 DEF StartTransaction, Goto, TypeOK, CatchHasError
  <2>8. OneSavingRestart'
    BY <1>2 DEF StartTransaction, Goto, TypeOK, OneSavingRestart
  <2> QED
    BY <2>1, <2>2, <2>3, <2>4, <2>5, <2>6, <2>7, <2>8
<1>3. ASSUME NEW r \in Requests, StartTransactionThrows(r)
      PROVE  IInv'
  <2>1. PICK error \in Errors : ScopeCatch(r, error)
    BY <1>3 DEF StartTransactionThrows
  <2>2. TypeOK'
    BY <1>3, <2>1, ScopeCatchType DEF StartTransactionThrows, TypeOK
  <2>3. (orphans \subseteq open)'
    BY <1>3, <2>1 DEF StartTransactionThrows
  <2>4. NoTransactionLeak'
    BY <1>3, <2>1
      DEF StartTransactionThrows, ScopeCatch, TypeOK, NoTransactionLeak, WritesToOwnTransaction
  <2>5. WritesToOwnTransaction'
    BY <1>3, <2>1 DEF StartTransactionThrows, ScopeCatch, TypeOK, WritesToOwnTransaction
  <2>6. CacheMatchesPlan'
    BY <1>3, <2>1
      DEF StartTransactionThrows, ScopeCatch, TypeOK, CacheMatchesPlan, WritesToOwnTransaction
  <2>7. AttemptsBalance'
    BY <1>3, <2>1, ScopeCatchCounts DEF StartTransactionThrows
  <2>8. CatchHasError'
    BY <1>3, <2>1 DEF StartTransactionThrows, ScopeCatch, TypeOK, CatchHasError
  <2>9. OneSavingRestart'
    BY <1>3, <2>1, ScopeCatchCounts DEF StartTransactionThrows
  <2> QED
    BY <2>2, <2>3, <2>4, <2>5, <2>6, <2>7, <2>8, <2>9
<1>4. ASSUME NEW r \in Requests, NEW k \in Keys, Write(r, k)
      PROVE  IInv'
  <2>1. TypeOK'
    BY <1>4 DEF Write, TypeOK
  <2>2. (orphans \subseteq open)'
    BY <1>4 DEF Write
  <2>3. NoTransactionLeak'
    BY <1>4 DEF Write, TypeOK, NoTransactionLeak, WritesToOwnTransaction
  <2>4. WritesToOwnTransaction'
    BY <1>4 DEF Write, TypeOK, WritesToOwnTransaction
  <2>5. CacheMatchesPlan'
    BY <1>4 DEF Write, TypeOK, CacheMatchesPlan, WritesToOwnTransaction
  <2>6. AttemptsBalance'
    BY <1>4 DEF Write, TypeOK, AttemptsBalance
  <2>7. CatchHasError'
    BY <1>4 DEF Write, TypeOK, CatchHasError
  <2>8. OneSavingRestart'
    BY <1>4 DEF Write, TypeOK, OneSavingRestart
  <2> QED
    BY <2>1, <2>2, <2>3, <2>4, <2>5, <2>6, <2>7, <2>8
<1>5. ASSUME NEW r \in Requests, DomainThrows(r)
      PROVE  IInv'
  <2>1. TypeOK'
    BY <1>5 DEF DomainThrows, Goto, TypeOK, Errors
  <2>2. (orphans \subseteq open)'
    BY <1>5 DEF DomainThrows, Goto
  <2>3. NoTransactionLeak'
    BY <1>5 DEF DomainThrows, Goto, TypeOK, NoTransactionLeak, WritesToOwnTransaction
  <2>4. WritesToOwnTransaction'
    BY <1>5 DEF DomainThrows, Goto, TypeOK, WritesToOwnTransaction
  <2>5. CacheMatchesPlan'
    BY <1>5 DEF DomainThrows, Goto, TypeOK, CacheMatchesPlan, WritesToOwnTransaction
  <2>6. AttemptsBalance'
    BY <1>5 DEF DomainThrows, Goto, TypeOK, AttemptsBalance
  <2>7. CatchHasError'
    BY <1>5 DEF DomainThrows, Goto, TypeOK, CatchHasError
  <2>8. OneSavingRestart'
    BY <1>5 DEF DomainThrows, Goto, TypeOK, OneSavingRestart
  <2> QED
    BY <2>1, <2>2, <2>3, <2>4, <2>5, <2>6, <2>7, <2>8
<1>6. ASSUME NEW r \in Requests, DomainFails(r)
      PROVE  IInv'
  <2>1. TypeOK'
    BY <1>6 DEF DomainFails, Goto, TypeOK
  <2>2. (orphans \subseteq open)'
    BY <1>6 DEF DomainFails, Goto
  <2>3. NoTransactionLeak'
    BY <1>6 DEF DomainFails, Goto, TypeOK, NoTransactionLeak, WritesToOwnTransaction
  <2>4. WritesToOwnTransaction'
    BY <1>6 DEF DomainFails, Goto, TypeOK, WritesToOwnTransaction
  <2>5. CacheMatchesPlan'
    BY <1>6 DEF DomainFails, Goto, TypeOK, CacheMatchesPlan, WritesToOwnTransaction
  <2>6. AttemptsBalance'
    BY <1>6 DEF DomainFails, Goto, TypeOK, AttemptsBalance
  <2>7. CatchHasError'
    BY <1>6 DEF DomainFails, Goto, TypeOK, CatchHasError
  <2>8. OneSavingRestart'
    BY <1>6 DEF DomainFails, Goto, TypeOK, OneSavingRestart
  <2> QED
    BY <2>1, <2>2, <2>3, <2>4, <2>5, <2>6, <2>7, <2>8
<1>7. ASSUME NEW r \in Requests, DomainSucceeds(r)
      PROVE  IInv'
  <2>1. TypeOK'
    BY <1>7 DEF DomainSucceeds, Goto, TypeOK
  <2>2. (orphans \subseteq open)'
    BY <1>7 DEF DomainSucceeds, Goto
  <2>3. NoTransactionLeak'
    BY <1>7 DEF DomainSucceeds, Goto, TypeOK, NoTransactionLeak, WritesToOwnTransaction
  <2>4. WritesToOwnTransaction'
    BY <1>7 DEF DomainSucceeds, Goto, TypeOK, WritesToOwnTransaction
  <2>5. CacheMatchesPlan'
    BY <1>7 DEF DomainSucceeds, Goto, TypeOK, CacheMatchesPlan, WritesToOwnTransaction
  <2>6. AttemptsBalance'
    BY <1>7 DEF DomainSucceeds, Goto, TypeOK, AttemptsBalance
  <2>7. CatchHasError'
    BY <1>7 DEF DomainSucceeds, Goto, TypeOK, CatchHasError
  <2>8. OneSavingRestart'
    BY <1>7 DEF DomainSucceeds, Goto, TypeOK, OneSavingRestart
  <2> QED
    BY <2>1, <2>2, <2>3, <2>4, <2>5, <2>6, <2>7, <2>8
<1>8. ASSUME NEW r \in Requests, Commit(r)
      PROVE  IInv'
  <2>1. TypeOK'
    BY <1>8, EffectType DEF Commit, Goto, Close, TypeOK
  <2>2. (orphans \subseteq open)'
    BY <1>8 DEF Commit, Goto, Close, WritesToOwnTransaction
  <2>3. NoTransactionLeak'
    BY <1>8 DEF Commit, Goto, Close, TypeOK, NoTransactionLeak, WritesToOwnTransaction
  <2>4. WritesToOwnTransaction'
    BY <1>8 DEF Commit, Goto, Close, TypeOK, WritesToOwnTransaction
  <2>5. CacheMatchesPlan'
    BY <1>8 DEF Commit, Goto, Close, TypeOK, CacheMatchesPlan, WritesToOwnTransaction
  <2>6. AttemptsBalance'
    BY <1>8 DEF Commit, Goto, Close, TypeOK, AttemptsBalance
  <2>7. CatchHasError'
    BY <1>8 DEF Commit, Goto, Close, TypeOK, CatchHasError
  <2>8. OneSavingRestart'
    BY <1>8 DEF Commit, Goto, Close, TypeOK, OneSavingRestart
  <2> QED
    BY <2>1, <2>2, <2>3, <2>4, <2>5, <2>6, <2>7, <2>8
<1>9. ASSUME NEW r \in Requests, RollbackFailure(r)
      PROVE  IInv'
  <2>1. TypeOK'
    BY <1>9 DEF RollbackFailure, Goto, Close, TypeOK
  <2>2. (orphans \subseteq open)'
    BY <1>9 DEF RollbackFailure, Goto, Close, WritesToOwnTransaction
  <2>3. NoTransactionLeak'
    BY <1>9 DEF RollbackFailure, Goto, Close, TypeOK, NoTransactionLeak, WritesToOwnTransaction
  <2>4. WritesToOwnTransaction'
    BY <1>9 DEF RollbackFailure, Goto, Close, TypeOK, WritesToOwnTransaction
  <2>5. CacheMatchesPlan'
    BY <1>9 DEF RollbackFailure, Goto, Close, TypeOK, CacheMatchesPlan, WritesToOwnTransaction
  <2>6. AttemptsBalance'
    BY <1>9 DEF RollbackFailure, Goto, Close, TypeOK, AttemptsBalance
  <2>7. CatchHasError'
    BY <1>9 DEF RollbackFailure, Goto, Close, TypeOK, CatchHasError
  <2>8. OneSavingRestart'
    BY <1>9 DEF RollbackFailure, Goto, Close, TypeOK, OneSavingRestart
  <2> QED
    BY <2>1, <2>2, <2>3, <2>4, <2>5, <2>6, <2>7, <2>8
<1>10. ASSUME NEW r \in Requests, EndThrows(r)
      PROVE  IInv'
  <2>1. TypeOK'
    BY <1>10 DEF EndThrows, TypeOK, Errors
  <2>2. (orphans \subseteq open)'
    BY <1>10 DEF EndThrows
  <2>3. NoTransactionLeak'
    BY <1>10 DEF EndThrows, TypeOK, NoTransactionLeak, WritesToOwnTransaction
  <2>4. WritesToOwnTransaction'
    BY <1>10 DEF EndThrows, TypeOK, WritesToOwnTransaction
  <2>5. CacheMatchesPlan'
    BY <1>10 DEF EndThrows, TypeOK, CacheMatchesPlan, WritesToOwnTransaction
  <2>6. AttemptsBalance'
    BY <1>10 DEF EndThrows, TypeOK, AttemptsBalance
  <2>7. CatchHasError'
    BY <1>10 DEF EndThrows, TypeOK, CatchHasError
  <2>8. OneSavingRestart'
    BY <1>10 DEF EndThrows, TypeOK, OneSavingRestart
  <2> QED
    BY <2>1, <2>2, <2>3, <2>4, <2>5, <2>6, <2>7, <2>8
<1>11. ASSUME NEW r \in Requests, CatchRollback(r)
      PROVE  IInv'
  <2>1. PICK error \in Errors : ScopeCatch(r, error)
    BY <1>11 DEF CatchRollback, CatchHasError
  <2>2. TypeOK'
    BY <1>11, <2>1, ScopeCatchType DEF CatchRollback, Close, TypeOK
  <2>3. (orphans \subseteq open)'
    BY <1>11, <2>1 DEF CatchRollback, Close, WritesToOwnTransaction
  <2>4. NoTransactionLeak'
    BY <1>11, <2>1
      DEF CatchRollback, Close, ScopeCatch, TypeOK, NoTransactionLeak, WritesToOwnTransaction
  <2>5. WritesToOwnTransaction'
    BY <1>11, <2>1 DEF CatchRollback, Close, ScopeCatch, TypeOK, WritesToOwnTransaction
  <2>6. CacheMatchesPlan'
    BY <1>11, <2>1
      DEF CatchRollback, Close, ScopeCatch, TypeOK, CacheMatchesPlan, WritesToOwnTransaction
  <2>7. AttemptsBalance'
    BY <1>11, <2>1, ScopeCatchCounts DEF CatchRollback, Close
  <2>8. CatchHasError'
    BY <1>11, <2>1 DEF CatchRollback, Close, ScopeCatch, TypeOK, CatchHasError
  <2>9. OneSavingRestart'
    BY <1>11, <2>1, ScopeCatchCounts DEF CatchRollback, Close
  <2> QED
    BY <2>2, <2>3, <2>4, <2>5, <2>6, <2>7, <2>8, <2>9
<1>12. ASSUME NEW r \in Requests, CatchRollbackThrows(r)
      PROVE  IInv'
  <2>1. PICK error \in Errors : ScopeCatch(r, error)
    BY <1>12 DEF CatchRollbackThrows
  <2>2. TypeOK'
    BY <1>12, <2>1, ScopeCatchType DEF CatchRollbackThrows, TypeOK, WritesToOwnTransaction
  <2>3. (orphans \subseteq open)'
    BY <1>12, <2>1 DEF CatchRollbackThrows, WritesToOwnTransaction
  <2>4. NoTransactionLeak'
    BY <1>12, <2>1
      DEF CatchRollbackThrows, ScopeCatch, TypeOK, NoTransactionLeak, WritesToOwnTransaction
  <2>5. WritesToOwnTransaction'
    BY <1>12, <2>1 DEF CatchRollbackThrows, ScopeCatch, TypeOK, WritesToOwnTransaction
  <2>6. CacheMatchesPlan'
    BY <1>12, <2>1
      DEF CatchRollbackThrows, ScopeCatch, TypeOK, CacheMatchesPlan, WritesToOwnTransaction
  <2>7. AttemptsBalance'
    BY <1>12, <2>1, ScopeCatchCounts DEF CatchRollbackThrows
  <2>8. CatchHasError'
    BY <1>12, <2>1 DEF CatchRollbackThrows, ScopeCatch, TypeOK, CatchHasError
  <2>9. OneSavingRestart'
    BY <1>12, <2>1, ScopeCatchCounts DEF CatchRollbackThrows
  <2> QED
    BY <2>2, <2>3, <2>4, <2>5, <2>6, <2>7, <2>8, <2>9
<1>13. CASE UNCHANGED vars
  BY <1>13 DEF vars, TypeOK, NoTransactionLeak, WritesToOwnTransaction,
    CacheMatchesPlan, AttemptsBalance, CatchHasError, OneSavingRestart
<1> QED
  BY <1>1, <1>2, <1>3, <1>4, <1>5, <1>6, <1>7, <1>8, <1>9, <1>10, <1>11, <1>12, <1>13
  DEF Next, Serve, AllServed

-------------------------------------------------------------------------------
\* The inductive invariant holds throughout every behaviour.
THEOREM InductiveInvariant == Spec => []IInv
BY IInvInit, IInvStep, PTL DEF Spec

\* No transaction id, error, attempt count or position outside the sets the
\* strategy works with is ever stored.
THEOREM TypeCorrect == Spec => []TypeOK
BY InductiveInvariant, PTL DEF IInv

\* No transaction is left open behind a command that has been answered, except
\* when the rollback itself threw.
THEOREM NoLeak == Spec => []NoTransactionLeak
BY InductiveInvariant, PTL DEF IInv

\* The domain of a command only ever writes to the open transaction of its own
\* current attempt.
THEOREM OwnTransaction == Spec => []WritesToOwnTransaction
BY InductiveInvariant, PTL DEF IInv

\* Saving errors restart a command exactly once before they reach the caller.
THEOREM SavingRestart == Spec => []OneSavingRestart
BY InductiveInvariant, PTL DEF IInv

-------------------------------------------------------------------------------
\* No command has had an effect or an outcome at the start.
LEMMA AtomicInit == Init => Atomic!Init
BY DEF Init, Atomic!Init, Ended

\* A step that ends no command and changes no record is invisible above.
LEMMA QuietStep ==
  ASSUME TypeOK, NEW r \in Requests, records' = records,
         pc[r] \notin Ended,
         \E to : to \notin Ended /\ pc' = [pc EXCEPT ![r] = to]
  PROVE  UNCHANGED Atomic!vars
BY DEF TypeOK, Atomic!vars

\* A step that ends one command without touching the records is
\* EndWithoutEffect above.
LEMMA EndingStep ==
  ASSUME TypeOK, NEW r \in Requests, records' = records,
         pc[r] \notin Ended,
         \E to \in {"failure", "error"} : pc' = [pc EXCEPT ![r] = to]
  PROVE  Atomic!EndWithoutEffect(r)
BY DEF TypeOK, Ended, Atomic!EndWithoutEffect

\* The scope's catch block either restarts the command or ends it in an error.
LEMMA ScopeCatchStep ==
  ASSUME TypeOK, NEW r \in Requests, NEW error, ScopeCatch(r, error),
         records' = records, pc[r] \notin Ended
  PROVE  Atomic!EndWithoutEffect(r) \/ UNCHANGED Atomic!vars
BY EndingStep, QuietStep DEF ScopeCatch, Ended

\* Every step is a step of the abstract specification, or none.
LEMMA AtomicStep == IInv /\ [Next]_vars => [Atomic!Next]_(Atomic!vars)
<1> SUFFICES ASSUME IInv, [Next]_vars
             PROVE  Atomic!Next \/ UNCHANGED Atomic!vars
  OBVIOUS
<1>0. TypeOK
  BY DEF IInv
<1>1. ASSUME NEW r \in Requests, Commit(r)
      PROVE  Atomic!Succeed(r)
  BY <1>0, <1>1 DEF Commit, Goto, IInv, CacheMatchesPlan, TypeOK, Ended,
    Atomic!Succeed, Effect, Planned, Atomic!Effect, Atomic!Planned
<1>2. ASSUME NEW r \in Requests, RollbackFailure(r)
      PROVE  Atomic!EndWithoutEffect(r)
  BY <1>0, <1>2, EndingStep DEF RollbackFailure, Goto, Ended
<1>3. ASSUME NEW r \in Requests,
             StartTransactionThrows(r) \/ CatchRollback(r) \/ CatchRollbackThrows(r)
      PROVE  Atomic!EndWithoutEffect(r) \/ UNCHANGED Atomic!vars
  BY <1>0, <1>3, ScopeCatchStep
  DEF StartTransactionThrows, CatchRollback, CatchRollbackThrows, Ended
<1>4. ASSUME NEW r \in Requests,
             Enter(r) \/ StartTransaction(r) \/ DomainThrows(r) \/ DomainFails(r)
               \/ DomainSucceeds(r) \/ EndThrows(r)
      PROVE  UNCHANGED Atomic!vars
  BY <1>0, <1>4, QuietStep DEF Enter, StartTransaction, DomainThrows, DomainFails,
    DomainSucceeds, EndThrows, Goto, Ended
<1>5. ASSUME NEW r \in Requests, NEW k \in Keys, Write(r, k)
      PROVE  UNCHANGED Atomic!vars
  BY <1>5 DEF Write, Atomic!vars
<1>6. CASE UNCHANGED vars
  BY <1>6 DEF vars, Atomic!vars
<1> QED
  BY <1>1, <1>2, <1>3, <1>4, <1>5, <1>6 DEF Next, Serve, AllServed, Atomic!Next

\* UowTransactionStrategy gives atomic commands: all the writes of a successful
\* command in one step, none of any other.
THEOREM AtomicRefinement == Spec => ImplementsAtomicCommands
<1>1. Init => Atomic!Init
  BY AtomicInit
<1>2. IInv /\ [Next]_vars => [Atomic!Next]_(Atomic!vars)
  BY AtomicStep
<1> QED
  BY <1>1, <1>2, InductiveInvariant, PTL
  DEF Spec, ImplementsAtomicCommands, Atomic!Spec
===============================================================================
