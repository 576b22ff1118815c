\* Two goroutines on one argument while the clock crosses refill windows.
CONSTANTS
    Procs = {p1, p2}
    Args = {a1}
    a1 = a1
    a2 = a2
    Threshold = 2
    SpecificItems <- NoSpecificItems
    BurstCount = 1
    DurationInSec = 1
    RuleParamsMaxCapacity = 2
    ParamsMaxCapacity = 20000
    ParamsCapacityBase = 4000
    Batches = {1, 3}
    TickSizes = {1000, 1001}
    MaxClock = 2002
    MaxCalls = 4
    NoArg = NoArg
SPECIFICATION Spec
INVARIANT TokenRange
PROPERTY Termination
