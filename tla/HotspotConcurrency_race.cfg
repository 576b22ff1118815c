\* Two goroutines, one key with a threshold of 1.
CONSTANTS
    Procs = {p1, p2}
    Contexts <- KeyValueContexts
    ParamSource = "args"
    ParamKey = "uid"
    ParamKind = "string"
    ParamIndex = 0
    Numerals = {}
    Threshold = 1
    SpecificItems <- NoSpecificItems
    MaxCalls = 3
    NoArg = NoArg
    NoCtx = NoCtx
SPECIFICATION Spec
INVARIANT ConcurrencyBound
