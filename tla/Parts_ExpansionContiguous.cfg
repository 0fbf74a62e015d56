CONSTANTS
    Parts = {"granularity"}
    Lines = 4
    Blocks = 3
    NUMBER_OF_BLOCK = 3
    COUNTER_MAX_VALUE = 2
    HOTNESS_THRESHOLD = 2
    REMAPPING_REQUEST_QUEUE_LENGTH = 2
    Touched <- TouchedLines
    FastSegments = 2
    Segments = 5
    NUMBER_MEA_COUNTER = 2
    MEA_COUNTER_MAX_VALUE = 2
    MaxAccesses = 6
    Fanout = 2
    VPages = {0, 1}
    Levels = 2
    LowerSize = 2
    MaxReads = 3
    Registers = {1, 2}
    Addresses <- BlockOfTwo
    Programs <- Traces
    IFETCH_BUFFER_SIZE = 2
    DECODE_BUFFER_SIZE = 1
    DISPATCH_BUFFER_SIZE = 1
    ROB_SIZE = 4
    LQ_SIZE = 2
    SQ_SIZE = 2
    SCHEDULER_SIZE = 2
SPECIFICATION SumSpec
INVARIANT ExpansionContiguous
CHECK_DEADLOCK FALSE
