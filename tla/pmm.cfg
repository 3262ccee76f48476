CONSTANTS
    PAGE_SIZE = 8
    POOL_START = 2
    POOL_END = 27
    KERNEL_END = 28
    Mmaps <- Maps
SPECIFICATION Spec
INVARIANT TypeOK
INVARIANT Ownership
INVARIANT BitmapBacked
INVARIANT HeldUsable
PROPERTY BootCompletes
PROPERTY FrameAllocatorSpec
