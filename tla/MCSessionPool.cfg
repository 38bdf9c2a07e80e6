\* Three flights: one rejected, one that replaces it, one that recovers again;
\* two callers: one that starts a flight and one that joins it or starts a second.
\* Two tokens: the one stored at the start and one that replaces it.
SPECIFICATION PoolSpec
CONSTANTS
    Callers = {c1, c2}
    MaxFlights = 3
    MaxTokens = 2
INVARIANTS
    EntryLive
    LoginSingleFlight
    WaitersServed
PROPERTIES
    OnlyRejectedTokenRemoved
    AcquireAnswered
CHECK_DEADLOCK FALSE
