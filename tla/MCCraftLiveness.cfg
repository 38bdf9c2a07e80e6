\* Liveness, hence no symmetry: two runs of two steps, and two requests that may join one.
SPECIFICATION Spec
CONSTANTS
    Accounts = {a1, a2}
    Operations = {o1, o2}
    Clients = {c1, c2}
    RecordLimit = 1
    RecordTtl = 1
    MaxRuns = 2
    MaxSteps = 2
    MaxClock = 3

PROPERTY RequestsAnswered
CHECK_DEADLOCK FALSE
