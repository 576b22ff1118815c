\* Two goroutines queueing on one argument.
CONSTANTS
    Procs = {p1, p2}
    Args = {a1}
    a1 = a1
    a2 = a2
    Threshold = 2
    SpecificItems <- NoSpecificItems
    DurationInSec = 1
    MaxQueueingTimeMs = 1200
    Batches = {1}
    TickSizes = {250}
    MaxClock = 500
    MaxCalls = 3
    NoArg = NoArg
SPECIFICATION Spec
INVARIANT Spacing
