\* Ticks of 10 s: run()'s own timeouts. The process stops: no deadlock check.
CONSTANTS
    Conns = {c1, c2}
    ReadHeaderTimeout = 1
    ReadTimeout = 6
    WriteTimeout = 6
    IdleTimeout = 12
    DrainTimeout = 3
SPECIFICATION FairSpec
CHECK_DEADLOCK FALSE
INVARIANTS TypeOK CleanExitIsDrained
PROPERTIES SignalStops ListenFailureStops StalledClientReleased
