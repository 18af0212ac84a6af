SPECIFICATION Spec
CONSTANTS
    Vectors = {v, w}
    Values = {d, a}
    Default = d
    Raw = raw
    FirstSpace = 2
    MaxSize = 2
    MaxSpace = 4
SYMMETRY Symmetry
INVARIANT CapacityAllocated
