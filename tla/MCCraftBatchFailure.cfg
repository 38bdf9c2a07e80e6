\* One batch of one recipe is enough for its wait to time out after the GC has
\* spent the items.
SPECIFICATION Spec
CONSTANTS
    Items = {i1}
    MaxBatches = 1
    MaxRecipes = 1
PROPERTIES
    FailureSnapshotReconciles
CHECK_DEADLOCK FALSE
