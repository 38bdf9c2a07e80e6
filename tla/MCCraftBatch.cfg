\* Two batches of up to two recipes over two items: a batch that waits for the
\* lock, one that follows a timed-out craft, one that spends an item again.
SPECIFICATION Spec
CONSTANTS
    Items = {i1, i2}
    MaxBatches = 2
    MaxRecipes = 2
INVARIANTS
    LockGuards
    ReportTrue
    SnapshotKnowsSettled
PROPERTIES
    BatchEnds
CHECK_DEADLOCK FALSE
