CONSTANTS
    FastSize = 1
    SlowSize = 1
    EntryNumber = 1
    Tracked = {0, 1}
SPECIFICATION Spec
PROPERTY NoDirtyDataDropped
