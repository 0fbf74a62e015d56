CONSTANTS
    Parts = {"dram", "controller", "refresh"}
    Standards <- AllStandards
    CommandNumber <- Commands
    BankNumber = 2
    ColumnNumber = 1
    AddressNumber = 3
    QueueMax = 2
    HighWatermark = 1
    LowWatermark = 1
    Cap = 0
    RequestNumber = 3
    RefreshNumber = 1
    RefreshBanks = 2
    SubArrays = 2
    OtherqMax = 2
    BacklogMax = 2
    BacklogMin <- TwoBehind
    EarlyPull = 0
    IntervalNumber = 7
SPECIFICATION SumSpec
INVARIANTS TimingsKept DataBusFree RowTableAgrees ActqOnePerBank RequestsOnce ServingCounted RefreshDebtBounded
PROPERTIES PrerequisitesHelp OvertakesOnlyActivated
