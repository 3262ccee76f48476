CONSTANTS
    HEAP_START = 64
    AVAIL = 208
    WORD = 1024
    Sizes = {0, 16, 60}
SPECIFICATION Spec
INVARIANT TypeOK
INVARIANT ListOK
INVARIANT BlocksIntact
INVARIANT InUseIffLive
INVARIANT NoAdjacentFree
INVARIANT DoubleFreeIgnored
INVARIANT Accounting
INVARIANT EmptyHeapRestored
PROPERTY FailsOnlyWhenNothingFits
PROPERTY CallReturns
