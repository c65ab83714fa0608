----------------------------- MODULE CommandScope -----------------------------
(***************************************************************************)
(* What every transaction strategy shares: the writes a command's runDomain *)
(* makes, and the restart decision of TransactionStrategy (strategy.ts).   *)
(*                                                                         *)
(* A record is abstracted to the request that wrote it last: Seed for a    *)
(* record that was there before any command, None for no record.           *)
(***************************************************************************)
EXTENDS Naturals

CONSTANTS
  Requests,  \* commands being served at the same time
  Keys,      \* record ids of the module's repositories
  Writes,    \* Writes[r][k]: what the domain of r does to record k
  None,      \* no record, no transaction, no error
  Seed       \* the writer of the records present at the start

ASSUME WritesAssumption ==
  Writes \in [Requests -> [Keys -> {"add", "update", "remove", "nothing"}]]

ASSUME SentinelAssumption == None \notin Requests /\ Seed \notin Requests

\* Thrown values the strategy tells apart: OptimisticLockVersionMismatchError,
\* DatabaseObjectSavingError and everything else.
Errors == {"lock", "saving", "other"}

Writers == Requests \union {Seed, None}

\* The keys the domain of r writes when it runs to its end.
Planned(r) == {k \in Keys : Writes[r][k] # "nothing"}

\* A repository refuses to add a record that exists and to update or remove
\* one that does not.
Accepted(recs, r, k) == (Writes[r][k] = "add") <=> (recs[k] = None)

\* The records once the writes of r to the keys in done have taken effect.
Effect(recs, r, done) ==
  [k \in Keys |->
     IF k \notin done THEN recs[k]
     ELSE IF Writes[r][k] = "remove" THEN None ELSE r]

(***************************************************************************)
(* The catch block of executeDatabaseScope: a lock mismatch always runs    *)
(* the domain again, a saving error as long as an attempt is left, any     *)
(* other error never.                                                      *)
(***************************************************************************)
Restarts(error, attempts) == error = "lock" \/ (error = "saving" /\ attempts # 0)

\* Mutant: the restart is not counted.
AttemptsNeverSpent(error, attempts) == attempts

\* Mutant: every error spends an attempt, whether it restarts or not.
AttemptsAlwaysSpent(error, attempts) == attempts - 1

AttemptsAfter(error, attempts) ==
  IF error = "saving" /\ attempts # 0 THEN attempts - 1 ELSE attempts
===============================================================================
