CONSTANTS
    FastPages = 2
    SlowPages = 2
    QueueLength = 2
    CounterMax = 2
    Hot = 2
    Cold = 2
    HotWithGc = 1
    ColdWithGc = 1
    MaxPages = 3
    MaxPagesWithGc = 0
    EpochLength = 2
    MigrationDistance = 1
    RetireWidth = 1
SPECIFICATION Spec
PROPERTY HotPagesServed
