\* RATE_LIMIT_RPS=2: two tokens, one back every half second (two ticks), 1 s.
CONSTANTS
    Goroutines = {g1, g2}
    Clients = {c1, c2}
    RPS = 2
    RPM = 0
    Minute = 60
    TicksPerSecond = 4
    MaxTime = 4
    None = None
SPECIFICATION Spec
SYMMETRY Symmetry
INVARIANTS TypeOK MutexGuards BucketIsTightestWindow WindowBound RetryAfterHonoured
PROPERTIES TimeNeverRunsBack
