SPECIFICATION Spec
CONSTANTS
    Keys = {k1, k2}
    Values = {v1, v3}
    Size <- MCSize
    Longer <- Apart
    k1 = k1
    k2 = k2
    v1 = v1
    v2 = v2
    v3 = v3
    SegMax = 3
    None = None
    MaxSets = 3
    MaxLosses = 2
INVARIANTS BlobsReadable NoOrphans
PROPERTY ImplementsStore
SYMMETRY SameKeys
