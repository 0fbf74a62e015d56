CONSTANTS
    FastSize = 2
    SlowSize = 2
    EntryNumber = 2
    Tracked = {3}
SPECIFICATION FairSpec
INVARIANTS TypeOK FinishCounted NoStrayRead SwapMatchesRequest UntouchedDataPreserved
PROPERTIES SwapCompletes
