\* Three tokens let a family be rotated twice, or be followed by a second sign-in; four
\* requests let two of them overlap after a sign-in and a third come after those.
\* The clock makes one step, from 1 to 2, by which a snapshot expires, with or without a
\* lock-out before.
SPECIFICATION Spec
CONSTANTS
    Codes = {k1}
    SnapshotTtl = 1
    MaxTokens = 3
    MaxCalls = 4
    MaxClock = 2
INVARIANTS
    SessionsLinear
    ClientTokenCurrent
    AccessEnds
PROPERTIES
    RefreshNeverStale
CHECK_DEADLOCK FALSE
