SPECIFICATION Spec
CONSTANTS
  r1 = r1
  r2 = r2
  ann = ann
  bob = bob
  Requests = {r1, r2}
  Inputs <- MCInputs
  Controllers <- AppControllers
  Services <- AppServices
  Commands <- AppCommands
  RunMode = "prod"
  Lifetime = 0
  RefreshLifetime = 1
  ClientShift = 1
  MaxTime = 1
  NoModule = NoModule
  NoToken = NoToken
  None = None
INVARIANTS
  TypeOK
  RunsForItsUser
  CompanyHasItsPeople
  NoLateDuplicate
PROPERTIES
  EveryRequestAnswered
  ImplementsAtomicCommands
