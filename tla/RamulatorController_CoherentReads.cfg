CONSTANTS
    BankNumber = 2
    ColumnNumber = 1
    AddressNumber = 3
    QueueMax = 2
    HighWatermark = 1
    LowWatermark = 1
    Cap = 0
    RequestNumber = 3
    RefreshNumber = 1
SPECIFICATION Spec
INVARIANTS CoherentReads
