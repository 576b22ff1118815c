\* Three goroutines inside one refill window: the clock moves by 1 ms only.
CONSTANTS
    Procs = {p1, p2, p3}
    Args = {a1, a2}
    a1 = a1
    a2 = a2
    Threshold = 2
    SpecificItems <- MCSpecificItems
    BurstCount = 1
    DurationInSec = 1
    RuleParamsMaxCapacity = 2
    ParamsMaxCapacity = 20000
    ParamsCapacityBase = 4000
    Batches = {1, 2, 4}
    TickSizes = {1}
    MaxClock = 1
    MaxCalls = 5
    NoArg = NoArg
SPECIFICATION Spec
INVARIANT TypeOK
PROPERTY RejectRefinement
