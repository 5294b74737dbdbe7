\* Three rows: a first, one in the middle and a last.
CONSTANT MaxRows = 3
SPECIFICATION FairDatabaseSpec
INVARIANT OnlyNestedWalksDie
PROPERTY ImplementsRowWalk WalksComplete
CHECK_DEADLOCK FALSE
