-------------------------- MODULE SqliteCommandsProofs --------------------------
(***************************************************************************)
(* Proofs about SqliteCommands, for any commands, synchronous or async, and *)
(* any plan of writes: a synchronous command that ends in an error has left *)
(* nothing, and saving errors restart every command once.                  *)
(***************************************************************************)
EXTENDS SqliteCommands, TLAPS

\* Only async domains have a promise to wait for.
PromiseIsAsync == \A r \in Requests : pc[r] = "promise" => r \in AsyncRequests

\* Restarts left and saving errors caught add up to one while a command runs.
AttemptsBalance ==
  \A r \in Requests :
    /\ pc[r] = "idle" => savingErrors[r] = 0
    /\ pc[r] \in {"begin", "promise"} => attempts[r] + savingErrors[r] = 1

IInv ==
  /\ TypeOK
  /\ PromiseIsAsync
  /\ AttemptsBalance
  /\ OneSavingRestart
  /\ SyncErrorLeavesNothing

-------------------------------------------------------------------------------
\* Writing leaves a record to its writer, to another one, or to nobody.
LEMMA EffectFacts ==
  ASSUME TypeOK, NEW r \in Requests, NEW done \in SUBSET Keys
  PROVE  /\ Effect(records, r, done) \in [Keys -> Writers]
         /\ \A k \in Keys, q \in Requests :
              q # r /\ Effect(records, r, done)[k] = q => records[k] = q
BY SentinelAssumption DEF TypeOK, Effect, Writers

\* What the catch block does to the counters, whichever error it is.
LEMMA CatchFacts ==
  ASSUME IInv, NEW r \in Requests, NEW error \in Errors, pc[r] \in {"begin", "promise"},
         ScopeCatch(r, error)
  PROVE  /\ pc' \in [Requests -> {"idle", "begin", "promise"} \union Ended]
         /\ attempts' \in [Requests -> 0..1]
         /\ caught' \in [Requests -> Errors \union {None}]
         /\ savingErrors' \in [Requests -> 0..3]
         /\ pc'[r] \in {"begin", "error"}
         /\ pc'[r] = "begin" => attempts'[r] + savingErrors'[r] = 1
         /\ savingErrors'[r] <= 2
         /\ pc'[r] = "error" /\ caught'[r] = "saving" => savingErrors'[r] = 2
         /\ \A q \in Requests : q # r =>
              /\ pc'[q] = pc[q] /\ attempts'[q] = attempts[q]
              /\ caught'[q] = caught[q] /\ savingErrors'[q] = savingErrors[q]
<1>1. /\ pc \in [Requests -> {"idle", "begin", "promise"} \union Ended]
      /\ attempts \in [Requests -> 0..1]
      /\ caught \in [Requests -> Errors \union {None}]
      /\ savingErrors \in [Requests -> 0..3]
      /\ attempts[r] + savingErrors[r] = 1
  BY DEF IInv, TypeOK, AttemptsBalance
<1>2. CASE error = "saving" /\ attempts[r] # 0
  <2>1. /\ pc' = [pc EXCEPT ![r] = "begin"]
        /\ attempts' = [attempts EXCEPT ![r] = attempts[r] - 1]
        /\ caught' = [caught EXCEPT ![r] = error]
        /\ savingErrors' = [savingErrors EXCEPT ![r] = savingErrors[r] + 1]
    <3>1. Restarts(error, attempts[r]) /\ AttemptsAfter(error, attempts[r]) = attempts[r] - 1
      BY <1>2 DEF Restarts, AttemptsAfter
    <3>2. savingErrors[r] < 3
      BY <1>1
    <3> QED BY <1>2, <3>1, <3>2 DEF ScopeCatch
  <2> QED BY <1>1, <1>2, <2>1 DEF Errors, Ended
<1>3. CASE error = "saving" /\ attempts[r] = 0
  <2>1. /\ pc' = [pc EXCEPT ![r] = "error"]
        /\ attempts' = [attempts EXCEPT ![r] = attempts[r]]
        /\ caught' = [caught EXCEPT ![r] = error]
        /\ savingErrors' = [savingErrors EXCEPT ![r] = savingErrors[r] + 1]
    <3>1. ~Restarts(error, attempts[r]) /\ AttemptsAfter(error, attempts[r]) = attempts[r]
      BY <1>3 DEF Restarts, AttemptsAfter
    <3>2. savingErrors[r] < 3
      BY <1>1
    <3> QED BY <1>3, <3>1, <3>2 DEF ScopeCatch
  <2> QED BY <1>1, <1>3, <2>1 DEF Errors, Ended
<1>4. CASE error # "saving"
  <2>1. /\ \E to \in {"begin", "error"} : pc' = [pc EXCEPT ![r] = to]
        /\ attempts' = [attempts EXCEPT ![r] = attempts[r]]
        /\ caught' = [caught EXCEPT ![r] = error]
        /\ savingErrors' = [savingErrors EXCEPT ![r] = savingErrors[r]]
    BY <1>1, <1>4 DEF ScopeCatch, Restarts, AttemptsAfter
  <2> QED BY <1>1, <1>4, <2>1 DEF Errors, Ended
<1> QED BY <1>2, <1>3, <1>4

-------------------------------------------------------------------------------
\* Before the first step nothing is open.
LEMMA Initially ==
  Init => IInv
<1> SUFFICES ASSUME Init PROVE IInv
  OBVIOUS
<1>1. TypeOK
  BY DEF Init, TypeOK, Writers
<1>2. PromiseIsAsync /\ AttemptsBalance /\ OneSavingRestart
  BY DEF Init, PromiseIsAsync, AttemptsBalance, OneSavingRestart
<1>3. SyncErrorLeavesNothing
  BY SentinelAssumption DEF Init, SyncErrorLeavesNothing, RowsOf
<1> QED BY <1>1, <1>2, <1>3 DEF IInv

\* A step that writes for one command, and ends it or goes on with its promise.
LEMMA WritingStep ==
  ASSUME IInv, NEW r \in Requests, NEW done \in SUBSET Keys,
         records' = Effect(records, r, done),
         NEW to \in {"success", "failure", "promise"}, pc' = [pc EXCEPT ![r] = to],
         to = "promise" => r \in AsyncRequests /\ pc[r] \in {"begin", "promise"},
         written' \in [Requests -> SUBSET Keys],
         UNCHANGED <<attempts, caught, savingErrors>>
  PROVE  IInv'
<1>1. TypeOK'
  BY EffectFacts DEF IInv, TypeOK, Ended
<1>2. PromiseIsAsync' /\ AttemptsBalance' /\ OneSavingRestart'
  BY DEF IInv, TypeOK, PromiseIsAsync, AttemptsBalance, OneSavingRestart
<1>3. SyncErrorLeavesNothing'
  <2> SUFFICES ASSUME NEW q \in Requests \ AsyncRequests,
                      pc'[q] \notin {"success", "failure"}, NEW k \in Keys, records'[k] = q
               PROVE  FALSE
    BY DEF SyncErrorLeavesNothing, RowsOf
  <2>1. q # r /\ pc'[q] = pc[q]
    BY DEF IInv, TypeOK
  <2>2. records[k] = q
    BY <2>1, EffectFacts DEF IInv
  <2> QED BY <2>1, <2>2 DEF IInv, SyncErrorLeavesNothing, RowsOf
<1> QED BY <1>1, <1>2, <1>3 DEF IInv

\* A step of a command that ends in its scope's catch block.
LEMMA CatchingStep ==
  ASSUME IInv, NEW r \in Requests, NEW error \in Errors, pc[r] \in {"begin", "promise"},
         ScopeCatch(r, error), UNCHANGED <<records, written>>
  PROVE  IInv'
<1>1. TypeOK'
  BY CatchFacts DEF IInv, TypeOK
<1>2. PromiseIsAsync' /\ AttemptsBalance' /\ OneSavingRestart'
  BY CatchFacts DEF IInv, PromiseIsAsync, AttemptsBalance, OneSavingRestart
<1>3. SyncErrorLeavesNothing'
  BY CatchFacts DEF IInv, SyncErrorLeavesNothing, RowsOf
<1> QED BY <1>1, <1>2, <1>3 DEF IInv

\* Every step keeps IInv.
LEMMA Step ==
  IInv /\ [Next]_vars => IInv'
<1> SUFFICES ASSUME IInv, [Next]_vars PROVE IInv'
  OBVIOUS
<1>1. ASSUME NEW r \in Requests, Enter(r)
      PROVE  IInv'
  <2>1. TypeOK'
    BY <1>1 DEF Enter, Goto, IInv, TypeOK
  <2>2. PromiseIsAsync' /\ AttemptsBalance' /\ OneSavingRestart'
    BY <1>1 DEF Enter, Goto, IInv, TypeOK, PromiseIsAsync, AttemptsBalance, OneSavingRestart
  <2>3. SyncErrorLeavesNothing'
    BY <1>1 DEF Enter, Goto, IInv, TypeOK, SyncErrorLeavesNothing, RowsOf
  <2> QED BY <2>1, <2>2, <2>3 DEF IInv
<1>2. ASSUME NEW r \in Requests, RunSucceeds(r) \/ RunFails(r) \/ RunReturnsPromise(r)
      PROVE  IInv'
  <2>1. PICK done \in SUBSET Keys, to \in {"success", "failure", "promise"} :
          /\ records' = Effect(records, r, done)
          /\ pc' = [pc EXCEPT ![r] = to]
          /\ to = "promise" => r \in AsyncRequests /\ pc[r] \in {"begin", "promise"}
          /\ written' \in [Requests -> SUBSET Keys]
          /\ UNCHANGED <<attempts, caught, savingErrors>>
    <3>1. Planned(r) \in SUBSET Keys /\ AcceptedSets(r) \subseteq SUBSET Keys
      BY DEF Planned, AcceptedSets
    <3>2. CASE RunSucceeds(r)
      BY <3>1, <3>2 DEF RunSucceeds, Goto, IInv, TypeOK
    <3>3. CASE RunFails(r)
      BY <3>1, <3>3 DEF RunFails, Goto, IInv, TypeOK
    <3>4. CASE RunReturnsPromise(r)
      <4>1. PICK d \in AcceptedSets(r) :
              records' = Effect(records, r, d) /\ written' = [written EXCEPT ![r] = d]
        BY <3>4 DEF RunReturnsPromise
      <4>2. written' \in [Requests -> SUBSET Keys]
        BY <3>1, <4>1 DEF IInv, TypeOK
      <4> QED BY <3>1, <3>4, <4>1, <4>2 DEF RunReturnsPromise, Goto
    <3> QED BY <1>2, <3>2, <3>3, <3>4
  <2> QED BY <2>1, WritingStep
<1>3. ASSUME NEW r \in Requests, RunThrows(r) \/ PromiseRejects(r)
      PROVE  IInv'
  BY <1>3, CatchingStep DEF RunThrows, PromiseRejects
<1>4. ASSUME NEW r \in Requests, NEW k \in Keys, PromiseWrites(r, k)
      PROVE  IInv'
  <2>1. /\ records' = Effect(records, r, {k}) /\ pc[r] = "promise"
        /\ pc' = [pc EXCEPT ![r] = "promise"]
        /\ written' \in [Requests -> SUBSET Keys]
        /\ UNCHANGED <<attempts, caught, savingErrors>>
    BY <1>4 DEF PromiseWrites, Planned, IInv, TypeOK
  <2> QED BY <2>1, WritingStep DEF IInv, PromiseIsAsync
<1>5. ASSUME NEW r \in Requests, PromiseResolves(r)
      PROVE  IInv'
  <2>1. pc[r] = "promise" /\ r \in AsyncRequests
    BY <1>5 DEF PromiseResolves, Goto, IInv, PromiseIsAsync
  <2>2. TypeOK'
    BY <1>5 DEF PromiseResolves, Goto, IInv, TypeOK, Ended
  <2>3. PromiseIsAsync' /\ AttemptsBalance' /\ OneSavingRestart'
    BY <1>5 DEF PromiseResolves, Goto, IInv, TypeOK, PromiseIsAsync, AttemptsBalance,
                OneSavingRestart
  <2>4. SyncErrorLeavesNothing'
    BY <1>5, <2>1 DEF PromiseResolves, Goto, IInv, TypeOK, SyncErrorLeavesNothing, RowsOf
  <2> QED BY <2>2, <2>3, <2>4 DEF IInv
<1>6. CASE UNCHANGED vars
  BY <1>6 DEF vars, IInv, TypeOK, PromiseIsAsync, AttemptsBalance, OneSavingRestart,
              SyncErrorLeavesNothing, RowsOf
<1> QED BY <1>1, <1>2, <1>3, <1>4, <1>5, <1>6 DEF Next, Serve, AllServed

-------------------------------------------------------------------------------
\* The strengthened invariant holds in every reachable state (strategy.ts:12-50,
\* bun-sqlite.strategy.ts:8-14).
THEOREM SqliteInvariant == Spec => []IInv
BY Initially, Step, PTL DEF Spec

\* The variables keep their types; in particular the restart counter stays in 0..1
\* (strategy.ts:31-44).
THEOREM SqliteTypes == Spec => []TypeOK
<1>1. IInv => TypeOK
  BY DEF IInv
<1> QED BY <1>1, SqliteInvariant, PTL

\* A synchronous command that has not ended, or ended in an error, has no row
\* (bun-sqlite.strategy.ts:11-12).
THEOREM SyncErrors == Spec => []SyncErrorLeavesNothing
<1>1. IInv => SyncErrorLeavesNothing
  BY DEF IInv
<1> QED BY <1>1, SqliteInvariant, PTL

\* A command that ended in an error left nothing, whatever ran beside it, as long as no
\* domain is async: only the async ones break what transaction.test.ts:109 expects.
THEOREM ErrorsOfSyncDomains ==
  ASSUME AsyncRequests = {}
  PROVE  Spec => []ErrorLeavesNothing
<1>1. SyncErrorLeavesNothing => ErrorLeavesNothing
  BY DEF SyncErrorLeavesNothing, ErrorLeavesNothing
<1> QED BY <1>1, SyncErrors, PTL

\* Saving errors restart a command exactly once, sync or async (strategy.ts:31-45).
THEOREM SqliteSavingRestart == Spec => []OneSavingRestart
<1>1. IInv => OneSavingRestart
  BY DEF IInv
<1> QED BY <1>1, SqliteInvariant, PTL
================================================================================
