CONSTANTS
    PAGE_SIZE = 8
    POOL_START = 2
    POOL_END = 27
    KERNEL_END = 28
    Mmaps <- UnalignedMaps
SPECIFICATION Spec
INVARIANT LentUsable
