CONSTANTS
    PAGE_SIZE = 4
    MaxFrames = 14
    ENTRIES = 2
    STACK_PAGE = 20
    Locals = {"frame", "register"}
    Files = {}
SPECIFICATION Spec
INVARIANT ProgramContext
