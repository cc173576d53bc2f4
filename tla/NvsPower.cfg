\* Overwriting with power failures anywhere; room enough that nothing is reclaimed.
SPECIFICATION Spec
CONSTANTS
  a = a
  b = b
  A = A
  B = B
  str = str
  SecNum = 4
  EntryCount = 3
  Keys = {a, b}
  Values = {A, B}
  TypeOf <- OneType
  Span <- BIsLong
  None = None
  Overwrite = TRUE
  Tears = {"header", "overlong", "data"}
  LossAt = {"ready", "put", "drop", "request", "gc_init", "gc_mark", "gc_marked", "gc_copy", "gc_erase"}
  MountLossAt = {"fix_write", "fix_gc", "fix_take", "gc_init", "gc_marked", "gc_copy", "gc_erase", "settle"}
  MaxSets = 3
  MaxLosses = 2
INVARIANTS KeysUnique
PROPERTIES ImplementsStore
