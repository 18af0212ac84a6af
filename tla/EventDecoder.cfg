CONSTANTS
  PointerSize = 8
  OffsetModulus = 65536
  LengthModulus = 65536
  Lengths = {2}
  MaxTypes = 2
SPECIFICATION Spec
INVARIANTS TypeOK WalkExact DecodedTruthfully NeverHalfDecoded KeptPlacesHold
