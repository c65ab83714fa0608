---------------------------- MODULE SqliteCommands ----------------------------
(***************************************************************************)
(* CommandService over BunSqliteStrategy: sqlite's transaction function    *)
(* calls runDomain between BEGIN and COMMIT, on one synchronous            *)
(* connection, so that nothing interleaves with it. It commits when        *)
(* runDomain returns, whatever it returns, and rolls back when it throws.  *)
(*                                                                         *)
(* runDomain may also be declared async (web.service.ts:44). What it does  *)
(* before its first await is then all that runs inside the transaction:    *)
(* it returns a promise, never throws, and goes on in autocommit mode.     *)
(***************************************************************************)
EXTENDS CommandScope

CONSTANT AsyncRequests  \* the commands whose runDomain is async

ASSUME AsyncAssumption == AsyncRequests \subseteq Requests

VARIABLES
  records,      \* the rows of the tables
  written,      \* the keys the promise of an async domain has written so far
  attempts,     \* storePayload.databaseErrorRestartAttempts
  pc,           \* where each request is in executeDatabaseScope
  caught,       \* the last error a request's scope caught
  savingErrors  \* history: saving errors the scope has caught, capped at 3

vars == <<records, written, attempts, pc, caught, savingErrors>>

Ended == {"success", "failure", "error"}

TypeOK ==
  /\ records \in [Keys -> Writers]
  /\ written \in [Requests -> SUBSET Keys]
  /\ attempts \in [Requests -> 0..1]
  /\ pc \in [Requests -> {"idle", "begin", "promise"} \union Ended]
  /\ caught \in [Requests -> Errors \union {None}]
  /\ savingErrors \in [Requests -> 0..3]

Init ==
  /\ records \in [Keys -> {None, Seed}]
  /\ written = [r \in Requests |-> {}]
  /\ attempts = [r \in Requests |-> 0]
  /\ pc = [r \in Requests |-> "idle"]
  /\ caught = [r \in Requests |-> None]
  /\ savingErrors = [r \in Requests |-> 0]

Goto(r, from, to) == pc[r] = from /\ pc' = [pc EXCEPT ![r] = to]

-------------------------------------------------------------------------------
Enter(r) ==
  /\ Goto(r, "idle", "begin")
  /\ attempts' = [attempts EXCEPT ![r] = 1]
  /\ UNCHANGED <<records, written, caught, savingErrors>>

\* The catch block of executeDatabaseScope.
ScopeCatch(r, error) ==
  /\ pc' = [pc EXCEPT ![r] = IF Restarts(error, attempts[r]) THEN "begin" ELSE "error"]
  /\ attempts' = [attempts EXCEPT ![r] = AttemptsAfter(error, @)]
  /\ caught' = [caught EXCEPT ![r] = error]
  /\ savingErrors' = [savingErrors EXCEPT
                        ![r] = IF error = "saving" /\ @ < 3 THEN @ + 1 ELSE @]

\* Writes the tables accept, in whatever order the domain makes them.
AcceptedSets(r) == {done \in SUBSET Planned(r) : \A k \in done : Accepted(records, r, k)}

\* The domain ran to its end and returned a success result: COMMIT.
RunSucceeds(r) ==
  /\ Goto(r, "begin", "success")
  /\ r \notin AsyncRequests
  /\ Planned(r) \in AcceptedSets(r)
  /\ records' = Effect(records, r, Planned(r))
  /\ UNCHANGED <<written, attempts, caught, savingErrors>>

\* The domain returned a failure result: COMMIT too, with the writes it made.
RunFails(r) ==
  /\ Goto(r, "begin", "failure")
  /\ r \notin AsyncRequests
  /\ \E done \in AcceptedSets(r) : records' = Effect(records, r, done)
  /\ UNCHANGED <<written, attempts, caught, savingErrors>>

\* Mutant: the tables keep what was written before the throw.
RunThrowsWithoutRollback(r) ==
  /\ pc[r] = "begin"
  /\ r \notin AsyncRequests
  /\ \E error \in Errors : ScopeCatch(r, error)
  /\ \E done \in AcceptedSets(r) : records' = Effect(records, r, done)
  /\ UNCHANGED written

\* The domain, or the transaction itself, threw: ROLLBACK, then the scope.
RunThrows(r) ==
  /\ pc[r] = "begin"
  /\ r \notin AsyncRequests
  /\ \E error \in Errors : ScopeCatch(r, error)
  /\ UNCHANGED <<records, written>>

-------------------------------------------------------------------------------
\* An async domain reaches its first await: the transaction function gets a
\* promise and commits.
RunReturnsPromise(r) ==
  /\ Goto(r, "begin", "promise")
  /\ r \in AsyncRequests
  /\ \E done \in AcceptedSets(r) :
       /\ records' = Effect(records, r, done)
       /\ written' = [written EXCEPT ![r] = done]
  /\ UNCHANGED <<attempts, caught, savingErrors>>

\* The promise goes on writing, each statement a transaction of its own.
PromiseWrites(r, k) ==
  /\ pc[r] = "promise"
  /\ k \in Planned(r) \ written[r]
  /\ Accepted(records, r, k)
  /\ records' = Effect(records, r, {k})
  /\ written' = [written EXCEPT ![r] = @ \union {k}]
  /\ UNCHANGED <<attempts, pc, caught, savingErrors>>

PromiseResolves(r) ==
  /\ \/ Goto(r, "promise", "success") /\ written[r] = Planned(r)
     \/ Goto(r, "promise", "failure")
  /\ UNCHANGED <<records, written, attempts, caught, savingErrors>>

\* The promise rejects: there is no transaction left to roll back.
PromiseRejects(r) ==
  /\ pc[r] = "promise"
  /\ \E error \in Errors : ScopeCatch(r, error)
  /\ UNCHANGED <<records, written>>

-------------------------------------------------------------------------------
Serve(r) ==
  \/ RunSucceeds(r)
  \/ RunFails(r)
  \/ RunThrows(r)
  \/ RunReturnsPromise(r)
  \/ \E k \in Keys : PromiseWrites(r, k)
  \/ PromiseResolves(r)
  \/ PromiseRejects(r)

AllServed == (\A r \in Requests : pc[r] \in Ended) /\ UNCHANGED vars

Next == (\E r \in Requests : Enter(r) \/ Serve(r)) \/ AllServed

Spec == Init /\ [][Next]_vars

-------------------------------------------------------------------------------
\* The rows r is the last to have written.
RowsOf(r) == {k \in Keys : records[k] = r}

\* A command with a synchronous domain that has not ended, or that ended in an
\* error, has no row in the tables, even after a restart and next to async
\* commands (bun-sqlite.strategy.ts:11-12).
SyncErrorLeavesNothing ==
  \A r \in Requests \ AsyncRequests :
    pc[r] \notin {"success", "failure"} => RowsOf(r) = {}

\* Saving errors restart a command once, sync or async (strategy.ts:31-45).
OneSavingRestart ==
  \A r \in Requests :
    /\ savingErrors[r] <= 2
    /\ pc[r] = "error" /\ caught[r] = "saving" => savingErrors[r] = 2

\* Whatever kind its domain is, a command that ended in an error left no row: "the
\* second transaction fails, which cancels the first" (transaction.test.ts:109).
ErrorLeavesNothing ==
  \A r \in Requests : pc[r] = "error" => RowsOf(r) = {}
===============================================================================
