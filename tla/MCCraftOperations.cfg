\* Two accounts, one completed record kept: eviction by limit and by age both happen.
SPECIFICATION Spec
CONSTANTS
    Accounts = {a1, a2}
    Operations = {o1, o2}
    Clients = {c1, c2}
    RecordLimit = 1
    RecordTtl = 1
    MaxRuns = 3
    MaxSteps = 1
    MaxClock = 3
SYMMETRY Symmetry
INVARIANTS
    OneRunPerAccount
    RunningRecordKept
    ReplySound
PROPERTIES
    NoEarlyReexecution
CHECK_DEADLOCK FALSE
