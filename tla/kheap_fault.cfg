CONSTANTS
    HEAP_START = 64
    AVAIL = 208
    WORD = 1024
    Sizes = {16, 60}
SPECIFICATION Spec
INVARIANT NoFault
