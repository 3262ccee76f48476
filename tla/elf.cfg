CONSTANTS
    PAGE_SIZE = 4
    MaxFrames = 14
    ENTRIES = 2
    STACK_PAGE = 20
    Locals = {"frame", "register"}
    Files <- MCFiles
SPECIFICATION Spec
INVARIANT TypeOK
INVARIANT SegmentsLoaded
INVARIANT SegmentRights
PROPERTY LoadEnds
