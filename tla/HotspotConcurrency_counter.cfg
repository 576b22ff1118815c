\* Three goroutines; a Header rule on "uid" (threshold 2, the key "9" limited to 1).
CONSTANTS
    Procs = {p1, p2, p3}
    Contexts <- HeaderContexts
    ParamSource = "header"
    ParamKey = "uid"
    ParamKind = "int"
    ParamIndex = 0
    Numerals = {"7"}
    Threshold = 2
    SpecificItems <- MCSpecificItems
    MaxCalls = 7
    NoArg = NoArg
    NoCtx = NoCtx
SYMMETRY ProcSymmetry
SPECIFICATION Spec
INVARIANT TypeOK
