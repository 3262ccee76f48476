CONSTANTS
    BASE = 2
    DEPTH = 52
    MaxKeys = 1
    Exceptions = {14}
SPECIFICATION Spec
INVARIANT LocalsKept
