\* Three connections, so that one can be served while others are refused,
\* queued or dropped, and a signal at any moment.
CONSTANTS
    Conns = {c1, c2, c3}
    NoConn = NoConn
    MaxSignals = 1
SPECIFICATION FairSpec
INVARIANTS
    EngineOutlivesJobs
    FdOwned
PROPERTY
    StopsOnSignal
