\* Callers delete before they set; sectors are reclaimed over and over, and the power
\* may fail except between the first copied item and the end of the erase.
SPECIFICATION Spec
CONSTANTS
  a = a
  b = b
  A = A
  B = B
  str = str
  SecNum = 2
  EntryCount = 3
  Keys = {a, b}
  Values = {A, B}
  TypeOf <- OneType
  Span <- BIsLong
  None = None
  Overwrite = FALSE
  Tears = {"data"}
  LossAt = {"ready", "put", "drop", "request", "gc_init", "gc_mark", "gc_marked"}
  MountLossAt = {"fix_write", "gc_marked", "settle"}
  MaxSets = 6
  MaxLosses = 1
INVARIANTS RamMatchesFlash ReclaimYieldsRoom
PROPERTIES ImplementsStore ServesAgain
