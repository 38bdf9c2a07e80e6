\* Two slots and three tasks, so that one waits; two crashes, so that a task can
\* use up its one retry.
SPECIFICATION Spec
CONSTANTS
    MaxTasks = 3
    PoolSize = 2
    RetryLimit = 1
    MaxCrashes = 2
INVARIANTS
    SlotsKeptBusy
    OnlyCrashesCharged
PROPERTIES
    ImplementsService
    TasksAnswered
CHECK_DEADLOCK FALSE
