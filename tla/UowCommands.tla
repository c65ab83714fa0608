------------------------------ MODULE UowCommands ------------------------------
(***************************************************************************)
(* CommandService over UowTransactionStrategy: executeDatabaseScope with   *)
(* its restarts (strategy.ts), executeWithTransaction (uow.strategy.ts),   *)
(* and the UnitOfWorkDatabase they drive, as the repository's in-memory    *)
(* implementation behaves (committed records plus a write cache for each   *)
(* open transaction).                                                      *)
(*                                                                         *)
(* Every await is a point where other requests run, so startTransaction,   *)
(* each repository call, commit and rollback are separate steps. Any of    *)
(* them may throw; one that throws has had no effect.                      *)
(***************************************************************************)
EXTENDS CommandScope, FiniteSets

CONSTANTS
  TxIds,      \* transaction ids; the bound on transactions open at once
  MaxOrphans  \* bound: how many transactions a throwing rollback leaves open

ASSUME TxIdsAssumption == None \notin TxIds /\ MaxOrphans \in Nat

VARIABLES
  records,       \* TestMemoryRepository.records of all repositories
  open,          \* transactions with an entry in transactionCache
  cache,         \* cache[t]: the keys transactionCache[t] holds a write for
  uow,           \* storePayload.unitOfWorkId of each request
  attempts,      \* storePayload.databaseErrorRestartAttempts
  pc,            \* where each request is in executeDatabaseScope
  caught,        \* the last error a request's catch blocks saw
  savingErrors,  \* history: saving errors the scope has caught, capped at 3
  orphans        \* history: transactions whose rollback threw in the catch

vars == <<records, open, cache, uow, attempts, pc, caught, savingErrors, orphans>>

\* Steps at which the request has a transaction open.
Holding == {"domain", "commit", "rollback", "catch"}
Ended == {"success", "failure", "error"}

TypeOK ==
  /\ records \in [Keys -> Writers]
  /\ open \subseteq TxIds
  /\ cache \in [TxIds -> SUBSET Keys]
  /\ uow \in [Requests -> TxIds \union {None}]
  /\ attempts \in [Requests -> 0..1]
  /\ pc \in [Requests -> {"idle", "begin"} \union Holding \union Ended]
  /\ caught \in [Requests -> Errors \union {None}]
  /\ savingErrors \in [Requests -> 0..3]
  /\ orphans \subseteq TxIds

Init ==
  /\ records \in [Keys -> {None, Seed}]
  /\ open = {}
  /\ cache = [t \in TxIds |-> {}]
  /\ uow = [r \in Requests |-> None]
  /\ attempts = [r \in Requests |-> 0]
  /\ pc = [r \in Requests |-> "idle"]
  /\ caught = [r \in Requests |-> None]
  /\ savingErrors = [r \in Requests |-> 0]
  /\ orphans = {}

Goto(r, from, to) == pc[r] = from /\ pc' = [pc EXCEPT ![r] = to]

-------------------------------------------------------------------------------
\* executeDatabaseScope starts: one restart after a saving error is allowed.
Enter(r) ==
  /\ Goto(r, "idle", "begin")
  /\ attempts' = [attempts EXCEPT ![r] = 1]
  /\ UNCHANGED <<records, open, cache, uow, caught, savingErrors, orphans>>

\* The catch block of executeDatabaseScope: back to a new transaction, or the
\* error leaves the service.
ScopeCatch(r, error) ==
  /\ pc' = [pc EXCEPT ![r] = IF Restarts(error, attempts[r]) THEN "begin" ELSE "error"]
  /\ attempts' = [attempts EXCEPT ![r] = AttemptsAfter(error, @)]
  /\ caught' = [caught EXCEPT ![r] = error]
  /\ savingErrors' = [savingErrors EXCEPT
                        ![r] = IF error = "saving" /\ @ < 3 THEN @ + 1 ELSE @]

\* Mutant: an id left in the payload by a throwing rollback is kept.
StartTransactionKeepingId(r) ==
  /\ Goto(r, "begin", "domain")
  /\ \E t \in TxIds \ open :
       /\ open' = open \union {t}
       /\ cache' = [cache EXCEPT ![t] = {}]
       /\ uow' = [uow EXCEPT ![r] = IF @ = None THEN t ELSE @]
  /\ UNCHANGED <<records, attempts, caught, savingErrors, orphans>>

StartTransaction(r) ==
  /\ Goto(r, "begin", "domain")
  /\ \E t \in TxIds \ open :
       /\ open' = open \union {t}
       /\ cache' = [cache EXCEPT ![t] = {}]
       /\ uow' = [uow EXCEPT ![r] = t]
  /\ UNCHANGED <<records, attempts, caught, savingErrors, orphans>>

\* startTransaction is called outside the try block: no rollback follows.
StartTransactionThrows(r) ==
  /\ pc[r] = "begin"
  /\ \E error \in Errors : ScopeCatch(r, error)
  /\ UNCHANGED <<records, open, cache, uow, orphans>>

-------------------------------------------------------------------------------
\* runDomain reaches a repository: the write goes to the transaction's cache,
\* checked against the records committed by now.
Write(r, k) ==
  /\ pc[r] = "domain"
  /\ k \in Planned(r) \ cache[uow[r]]
  /\ Accepted(records, r, k)
  /\ cache' = [cache EXCEPT ![uow[r]] = @ \union {k}]
  /\ UNCHANGED <<records, open, uow, attempts, pc, caught, savingErrors, orphans>>

\* runDomain throws: a refused write becomes a DatabaseObjectSavingError, and
\* any call of the domain may throw on its own.
DomainThrows(r) ==
  /\ Goto(r, "domain", "catch")
  /\ \E error \in Errors : caught' = [caught EXCEPT ![r] = error]
  /\ UNCHANGED <<records, open, cache, uow, attempts, savingErrors, orphans>>

\* Mutant: the isSuccess check before commit is dropped.
DomainFailsIntoCommit(r) ==
  /\ Goto(r, "domain", "commit")
  /\ UNCHANGED <<records, open, cache, uow, attempts, caught, savingErrors, orphans>>

\* runDomain returns a failure result, possibly after some of its writes.
DomainFails(r) ==
  /\ Goto(r, "domain", "rollback")
  /\ UNCHANGED <<records, open, cache, uow, attempts, caught, savingErrors, orphans>>

\* runDomain returns a success result: it has made all of its writes.
DomainSucceeds(r) ==
  /\ Goto(r, "domain", "commit")
  /\ cache[uow[r]] = Planned(r)
  /\ UNCHANGED <<records, open, cache, uow, attempts, caught, savingErrors, orphans>>

-------------------------------------------------------------------------------
\* The transaction is over: its caches are deleted and the payload forgets it.
Close(r) ==
  /\ open' = open \ {uow[r]}
  /\ cache' = [cache EXCEPT ![uow[r]] = {}]
  /\ uow' = [uow EXCEPT ![r] = None]

Commit(r) ==
  /\ Goto(r, "commit", "success")
  /\ records' = Effect(records, r, cache[uow[r]])
  /\ Close(r)
  /\ UNCHANGED <<attempts, caught, savingErrors, orphans>>

\* Mutant: a failure result is answered without rolling back.
AnswerFailure(r) ==
  /\ Goto(r, "rollback", "failure")
  /\ uow' = [uow EXCEPT ![r] = None]
  /\ UNCHANGED <<records, open, cache, attempts, caught, savingErrors, orphans>>

RollbackFailure(r) ==
  /\ Goto(r, "rollback", "failure")
  /\ Close(r)
  /\ UNCHANGED <<records, attempts, caught, savingErrors, orphans>>

\* commit, or the rollback after a failure result, throws: both stand inside the
\* try block, so the catch block rolls back (again).
EndThrows(r) ==
  /\ pc[r] \in {"commit", "rollback"}
  /\ pc' = [pc EXCEPT ![r] = "catch"]
  /\ \E error \in Errors : caught' = [caught EXCEPT ![r] = error]
  /\ UNCHANGED <<records, open, cache, uow, attempts, savingErrors, orphans>>

\* The catch block of executeWithTransaction: roll back, forget, rethrow.
CatchRollback(r) ==
  /\ pc[r] = "catch"
  /\ Close(r)
  /\ ScopeCatch(r, caught[r])
  /\ UNCHANGED <<records, orphans>>

\* Its rollback throws: the transaction stays open, the payload keeps its id and
\* the scope sees the new error instead of the first one.
CatchRollbackThrows(r) ==
  /\ pc[r] = "catch"
  /\ Cardinality(orphans) < MaxOrphans
  /\ orphans' = orphans \union {uow[r]}
  /\ \E error \in Errors : ScopeCatch(r, error)
  /\ UNCHANGED <<records, open, cache, uow>>

-------------------------------------------------------------------------------
\* One request's promise chain makes progress.
Serve(r) ==
  \/ StartTransaction(r)
  \/ StartTransactionThrows(r)
  \/ \E k \in Keys : Write(r, k)
  \/ DomainThrows(r)
  \/ DomainFails(r)
  \/ DomainSucceeds(r)
  \/ Commit(r)
  \/ RollbackFailure(r)
  \/ EndThrows(r)
  \/ CatchRollback(r)
  \/ CatchRollbackThrows(r)

\* Every command has been answered: nothing is left to do.
AllServed == (\A r \in Requests : pc[r] \in Ended) /\ UNCHANGED vars

Next == (\E r \in Requests : Enter(r) \/ Serve(r)) \/ AllServed

Spec == Init /\ [][Next]_vars /\ \A r \in Requests : WF_vars(Serve(r))

-------------------------------------------------------------------------------
\* The writes of a command that ends in success take effect in one step and
\* those of any other command never do, whatever was restarted, refused, or
\* thrown on the way, and whoever else was being served
\* (uow.strategy.ts:26-39).
Atomic == INSTANCE AtomicCommands WITH
  outcome <- [r \in Requests |-> IF pc[r] \in Ended THEN pc[r] ELSE "pending"]

ImplementsAtomicCommands == Atomic!Spec

\* Every open transaction belongs to a request that is still being served, except
\* those whose rollback threw (uow.strategy.ts:29, 35).
NoTransactionLeak ==
  \A t \in open \ orphans : \E r \in Requests : pc[r] \in Holding /\ uow[r] = t

\* While the domain of a request runs, the id in its payload names an open
\* transaction that no other request writes to and that no earlier attempt
\* abandoned (uow.strategy.ts:19-22).
WritesToOwnTransaction ==
  \A r \in Requests : pc[r] \in Holding =>
    /\ uow[r] \in open \ orphans
    /\ \A s \in Requests \ {r} : pc[s] \in Holding => uow[s] # uow[r]

\* A command is restarted once for saving errors, and no saving error reaches the
\* caller before that restart was spent (strategy.ts:31-45).
OneSavingRestart ==
  \A r \in Requests :
    /\ savingErrors[r] <= 2
    /\ pc[r] = "error" /\ caught[r] = "saving" => savingErrors[r] = 2

\* A command that was accepted is answered, unless lock mismatches restart it
\* forever (strategy.ts:22-49, the loop has no bound for them).
AnsweredUnlessLockedForever ==
  \A r \in Requests :
    \/ [](pc[r] = "idle")
    \/ <>(pc[r] \in Ended)
    \/ []<>(caught[r] = "lock")
===============================================================================
