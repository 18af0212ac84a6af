CONSTANT Keys = {1, 2, 3, 4, 5, 6, 7, 8}
SPECIFICATION Spec
INVARIANTS TypeOK Ordered Balanced Linked Traversable RepairsShort
CHECK_DEADLOCK FALSE
