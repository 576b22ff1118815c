\* Two goroutines on two arguments with caches of one entry: a first toucher
\* can be overtaken by a refill between its two AddIfAbsent calls, or find
\* the token cell it did not create because only the time cell was evicted.
CONSTANTS
    Procs = {p1, p2}
    Args = {a1, a2}
    a1 = a1
    a2 = a2
    Threshold = 2
    SpecificItems <- NoSpecificItems
    BurstCount = 1
    DurationInSec = 1
    RuleParamsMaxCapacity = 1
    ParamsMaxCapacity = 20000
    ParamsCapacityBase = 4000
    Batches = {1, 3}
    TickSizes = {1000, 1001}
    MaxClock = 2002
    MaxCalls = 4
    NoArg = NoArg
SPECIFICATION Spec
PROPERTY FirstTouchPays
