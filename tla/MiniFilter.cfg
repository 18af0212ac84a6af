SPECIFICATION FairSpec
CONSTANT Calls = {c1, c2, c3}
INVARIANT TypeOK
INVARIANT ContextsOwned
INVARIANT QuietWhenAbsent
PROPERTY ListRundown
PROPERTY TablesRundown
PROPERTY UnloadEnds
