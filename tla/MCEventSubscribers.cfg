SPECIFICATION Spec
CONSTANTS
  c1 = c1
  c2 = c2
  c3 = c3
  e1 = e1
  e2 = e2
  e3 = e3
  e4 = e4
  e5 = e5
  cmd = cmd
  shop = shop
  read = read
  mail = mail
  added = added
  closed = closed
  Commands = {c1, c2, c3}
  Events = {e1, e2, e3, e4, e5}
  Emits <- MCEmits
  Publisher <- MCPublisher
  Name <- MCName
  Services <- MCServices
  Malformed = {e5}
  Delivers = TRUE
  IoAwaits = FALSE
  MaxCrashes = 1
INVARIANT
  SubscribersHandleEvent
