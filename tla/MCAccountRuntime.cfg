\* Two accounts; three refreshes, so that one account can be refreshed again by the
\* heartbeat while the other is; two tasks, so that one waits for the other.
SPECIFICATION Spec
CONSTANTS
    Accounts = {a1, a2}
    MaxRefreshes = 3
    MaxTasks = 2
INVARIANTS
    TypeOK
    NothingUnwanted
    NewestProcessed
    NothingStalls
PROPERTIES
    ImplementsService
    HeartbeatReturns
CHECK_DEADLOCK FALSE
