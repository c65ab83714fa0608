\* Two overlapping commands; three transaction ids, so that one may be
\* abandoned by a throwing rollback while both commands run.
SPECIFICATION Spec
CONSTANTS
  r1 = r1
  r2 = r2
  a = a
  b = b
  Requests = {r1, r2}
  Keys = {a, b}
  Writes <- MCWrites
  TxIds = {t1, t2, t3}
  MaxOrphans = 1
  None = None
  Seed = Seed
INVARIANTS
  TypeOK
  NoTransactionLeak
  WritesToOwnTransaction
  OneSavingRestart
PROPERTIES
  ImplementsAtomicCommands
  AnsweredUnlessLockedForever
