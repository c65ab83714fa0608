SPECIFICATION Spec
CONSTANTS
  u1 = u1
  u2 = u2
  Users = {u1, u2}
  MaxUpdates = 5
  UserOf <- MCUserOf
  Limit = 3
  MaxCrashes = 2
INVARIANTS
  TypeOK
  ForgottenWasAnswered
  OncePerProcess
PROPERTIES
  ImplementsConversations
  UpdatesAnswered
