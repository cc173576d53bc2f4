\* The component as the SDK starts it: initialised at boot, never stopped.
SPECIFICATION FairSpec
CONSTANTS
  Posters = {p1, p2}
  Admins = {}
  any = any
  g1 = g1
  g2 = g2
  cbA = cbA
  cbB = cbB
  Entries <- MCEntries
  Events <- MCEvents
  AnyGroup = any
  AnyType = any
  Capacity = 2
  MallocFails = TRUE
  MaxPosts = 4
  MaxInits = 1
INVARIANTS CallbacksDistinct
PROPERTIES ImplementsBus EveryMessageServed
CHECK_DEADLOCK FALSE
