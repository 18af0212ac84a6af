SPECIFICATION Spec
CONSTANTS
    Vectors = {v, w}
    Values = {d, a}
    Default = d
    Raw = raw
    FirstSpace = 1
    MaxSize = 3
    MaxSpace = 2
SYMMETRY Symmetry
INVARIANT TypeOK
INVARIANT SizeWithinSpace
PROPERTY StorageKept
PROPERTY OperationsExact
