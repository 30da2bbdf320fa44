\* RATE_LIMIT_RPM=2 overriding RPS, with a minute of 3 s and a tick of 1 s.
CONSTANTS
    Goroutines = {g1, g2}
    Clients = {c1}
    RPS = 1
    RPM = 2
    Minute = 3
    TicksPerSecond = 1
    MaxTime = 5
    None = None
SPECIFICATION FairSpec
INVARIANTS RefusalPasses
PROPERTIES ImplementsWindowLimiter EveryCallAnswered
