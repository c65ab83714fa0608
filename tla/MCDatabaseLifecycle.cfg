SPECIFICATION Spec
CONSTANTS
  p1 = p1
  p2 = p2
  p3 = p3
  Managers = {p1, p2, p3}
  Argvs <- MCArgvs
  Modules <- MCModules
  MaxVersion = 2
  ReposOf <- MCReposOf
  RowsOf <- MCRowsOf
  Migrations = "migrations"
  NoKey = "noKey"
SYMMETRY Symmetry
INVARIANTS
  TypeOK
  RegisteredIffApplied
  ReportHolds
  OneCreator
PROPERTIES
  ImplementsOrderedMigrations
  PartialIsFinal
