CONSTANTS
    PAGE_SIZE = 4096
    POOL_START = 32
    POOL_END = 511
    KERNEL_END = 512
    STACK_PAGE = 32
    MMAP_PAGE = 33
    Disks <- MCDisks
    Machines <- MCMachines
SPECIFICATION Spec
INVARIANT TypeOK
INVARIANT KernelFound
INVARIANT PagesDisjoint
INVARIANT MapKept
INVARIANT HeapBacked
PROPERTY BootEnds
