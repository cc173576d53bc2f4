\* The smallest documented partition, no power failure.
SPECIFICATION Spec
CONSTANTS
  a = a
  b = b
  A = A
  B = B
  str = str
  SecNum = 2
  EntryCount = 3
  Keys = {a, b}
  Values = {A, B}
  TypeOf <- OneType
  Span <- BIsLong
  None = None
  Overwrite = TRUE
  Tears = {"header", "overlong", "data"}
  LossAt = {}
  MountLossAt = {}
  MaxSets = 4
  MaxLosses = 1
INVARIANTS ReadsWhatWasSet
