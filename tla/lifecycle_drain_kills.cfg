\* Ticks of 10 s: run()'s own timeouts.
CONSTANTS
    Conns = {c1}
    ReadHeaderTimeout = 1
    ReadTimeout = 6
    WriteTimeout = 6
    IdleTimeout = 12
    DrainTimeout = 3
SPECIFICATION Spec
CHECK_DEADLOCK FALSE
INVARIANTS InFlightCompletes
