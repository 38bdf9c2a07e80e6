\* One caller and one flight: the account is deleted while its session connects.
SPECIFICATION PoolSpec
CONSTANTS
    Callers = {c1}
    MaxFlights = 1
    MaxTokens = 2
INVARIANTS
    DeletedTokenStaysGone
CHECK_DEADLOCK FALSE
