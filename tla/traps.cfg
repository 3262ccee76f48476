CONSTANTS
    BASE = 2
    DEPTH = 52
    MaxKeys = 2
    Exceptions = {2, 14}
SPECIFICATION Spec
INVARIANT TypeOK
INVARIANT HandlerArgument
INVARIANT ContextRestored
INVARIANT InServiceWhileHandled
INVARIANT OneFrame
INVARIANT ResetExplained
PROPERTY KeyServed
