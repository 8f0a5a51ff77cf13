\* Four slots, a floor of one and a cap of three; streaks of two samples.
CONSTANTS
    Jobs = {j1, j2, j3}
    NoJob = NoJob
    AbsMax = 4
    SoftMax = 3
    Step = 2
    HighWaterPct = 80
    LowWaterPct = 30
    HighConsecutive = 2
    LowConsecutive = 2
    HysteresisSamples = 2
    QueueMaxDefault = 2
    Floor = 1
    QueueMaxes = {0, 1}
    ResizeTargets = {1, 2, 4}
SYMMETRY JobSymmetry
SPECIFICATION Spec
INVARIANTS
    TypeOK
    WorkConserving
    CountersExact
    SizeBounds
    JoinedOnce
    DrainSound
    HysteresisHolds
