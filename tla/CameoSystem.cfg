CONSTANTS
    GroupNumber = 2
    MemberNumber = 2
    QueueLength = 2
    CounterMax = 2
    HotnessThreshold = 2
SPECIFICATION SystemSpec
INVARIANTS TypeOK LinesDistinct QueueCurrent
PROPERTIES OnlyHotBlocksPromoted ImplementsSwappingUnit
