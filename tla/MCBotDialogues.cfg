SPECIFICATION Spec
CONSTANTS
  u1 = u1
  u2 = u2
  m1 = m1
  m2 = m2
  push = push
  Users = {u1, u2}
  Updates = {m1, m2, push}
  UserOf <- MCUserOf
  Pushes = {push}
  None = None
  Seed = Seed
  Modes = {"webhook", "getUpdates"}
  MaxWrites = 2
  MaxCrashes = 1
INVARIANTS
  TypeOK
  CacheMatchesTable
PROPERTIES
  NoSecondDialogue
  PollingWritesFresh
  ImplementsDialogueTable
