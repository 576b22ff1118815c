\* A Header rule on "uid"; one request also carries "uid" as an attachment.
CONSTANTS
    Procs = {p1}
    Contexts <- ConflictContexts
    ParamSource = "header"
    ParamKey = "uid"
    ParamKind = "int"
    ParamIndex = 0
    Numerals = {"7"}
    Threshold = 2
    SpecificItems <- NoSpecificItems
    MaxCalls = 1
    NoArg = NoArg
    NoCtx = NoCtx
SPECIFICATION Spec
INVARIANT ExtractAsSpecified
