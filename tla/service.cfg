\* Two connections, deadlines of one or two ticks, five names: one process can
\* leave the four files it may, and the next finds one name to use.
CONSTANTS
    Conns = {c1, c2}
    ReadHeaderTimeout = 1
    ReadTimeout = 2
    WriteTimeout = 2
    IdleTimeout = 1
    DrainTimeout = 2
    Requests <- MCRequests
    Configured = {"avifenc"}
    MaxDimCap = 5
    CodecLimit = 4
    TempNames = {t1, t2, t3, t4, t5}
    Absent = Absent
    NotInt = NotInt
SPECIFICATION Spec
SYMMETRY Symmetry
INVARIANTS CleanExitLeavesNothing LeftoversUntouched
PROPERTY LeakBounded
