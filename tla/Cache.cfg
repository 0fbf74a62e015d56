SPECIFICATION Spec
CONSTANTS
    Lines = {a, b}
    NoLine = none
    Uppers = {1, 2}
    Ways = {1}
    RQ_SIZE = 2
    WQ_SIZE = 2
    PQ_SIZE = 1
    IPQ_SIZE = 1
    TAG_SIZE = 2
    Caches <- Hierarchy
    MaxRequests = 4
INVARIANTS
    ReadyFirst AnsweredOnce WriteBacksKept
CHECK_DEADLOCK FALSE
PROPERTY ReadsAnswered
