\* Stopping and restarting while the heap can be exhausted and the queue can be
\* full when EXIT is sent.
SPECIFICATION FairSpec
CONSTANTS
  Posters = {p1}
  Admins = {a1}
  any = any
  g1 = g1
  g2 = g2
  cbA = cbA
  cbB = cbB
  Entries <- OneEntry
  Events <- OneEvent
  AnyGroup = any
  AnyType = any
  Capacity = 2
  MallocFails = TRUE
  MaxPosts = 3
  MaxInits = 3
CONSTRAINT NotOverrun
INVARIANTS DownIsQuiet OneTask
PROPERTIES WalkIsStable DeinitReturns
CHECK_DEADLOCK FALSE
