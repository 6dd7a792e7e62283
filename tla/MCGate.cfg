\* Two calls and an adapter call share one thread.
SPECIFICATION FairSpec
CONSTANTS
    c1 = c1
    c2 = c2
    j1 = j1
    Calls = {c1, c2}
    Jobs = {j1}
    NoCall = NoCall
    Threads = 1
    MaxCancels = 2
    MaxFaults = 1
INVARIANTS
    StreamsOwned
    FailsClosed
    GateComesBack
PROPERTY WaitsEnd
CHECK_DEADLOCK FALSE
