\* One power failure while items are copied, none in the mount.
SPECIFICATION Spec
CONSTANTS
  a = a
  b = b
  A = A
  B = B
  str = str
  SecNum = 2
  EntryCount = 3
  Keys = {a, b}
  Values = {A, B}
  TypeOf <- OneType
  Span <- BIsLong
  None = None
  Overwrite = FALSE
  Tears = {"header", "overlong", "data"}
  LossAt = {"gc_copy"}
  MountLossAt = {}
  MaxSets = 4
  MaxLosses = 1
PROPERTIES ReclaimKeepsValues
