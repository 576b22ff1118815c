\* Two breakers bound to the resource, the code's three retries, a
\* template of two attempts, three calls in turn, four option lists.
\* downstream stops at 9, one past the 2 x (1 + 3) calls a Call may make.
CONSTANTS
    b1 = b1
    b2 = b2
    Breakers = {b1, b2}
    DefaultRetryNum = 3
    TemplateAttempts = 2
    MaxCalls = 3
    MaxDownstream = 9
    OptionLists <- MCOptionLists
SPECIFICATION FairSpec
INVARIANT TypeOK
INVARIANT DownstreamBound
INVARIANT BreakerSeesLastOutcome
PROPERTY CallReturns
