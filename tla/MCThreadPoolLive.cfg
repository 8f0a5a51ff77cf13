\* Fairness and the promise of JobService; no symmetry under liveness.
CONSTANTS
    Jobs = {j1, j2}
    NoJob = NoJob
    AbsMax = 3
    SoftMax = 2
    Step = 1
    HighWaterPct = 80
    LowWaterPct = 30
    HighConsecutive = 1
    LowConsecutive = 1
    HysteresisSamples = 1
    QueueMaxDefault = 2
    Floor = 1
    QueueMaxes = {1}
    ResizeTargets = {1, 2}
SPECIFICATION FairSpec
PROPERTIES
    AcceptedJobEnds
    ShutdownReturns
    ServesJobs
