\* Two goroutines on one argument while the clock moves.
CONSTANTS
    Procs = {p1, p2}
    Args = {a1}
    a1 = a1
    a2 = a2
    Threshold = 2
    SpecificItems <- NoSpecificItems
    DurationInSec = 1
    MaxQueueingTimeMs = 1200
    Batches = {1, 2}
    TickSizes = {250}
    MaxClock = 500
    MaxCalls = 4
    NoArg = NoArg
SPECIFICATION Spec
INVARIANT TypeOK
PROPERTY Termination
