SPECIFICATION Spec
CONSTANTS
  r1 = r1
  r2 = r2
  r3 = r3
  a = a
  b = b
  Requests = {r1, r2, r3}
  AsyncRequests = {r3}
  Keys = {a, b}
  Writes <- MCWrites
  None = None
  Seed = Seed
INVARIANTS
  TypeOK
  SyncErrorLeavesNothing
  OneSavingRestart
