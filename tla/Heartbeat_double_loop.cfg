\* Two Initial callers and one Destroy racing, two console servers, three
\* heartbeats: the second Initial starts a second heartbeat loop.
CONSTANTS
    i1 = i1
    i2 = i2
    d1 = d1
    InitCallers = {i1, i2}
    DestroyCallers = {d1}
    NumAddresses = 2
    MaxBeats = 3
SPECIFICATION Spec
INVARIANT SingleHeartbeatLoop
