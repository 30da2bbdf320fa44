\* RATE_LIMIT_RPM=1: a token takes a minute, the 429 asks for a second.
CONSTANTS
    Goroutines = {g1}
    Clients = {c1}
    RPS = 0
    RPM = 1
    Minute = 60
    TicksPerSecond = 1
    MaxTime = 2
    None = None
SPECIFICATION Spec
INVARIANTS RetryAfterHonoured
