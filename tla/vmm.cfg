CONSTANTS
    N = 6
    FIRST_TABLE = 1
    NFRAMES = 14
    UserVas <- MCVas
    UserFlags <- MCFlags
    TouchedVas <- Touched
SPECIFICATION Spec
INVARIANT TypeOK
INVARIANT FramesAccounted
INVARIANT OneOwner
INVARIANT UserIsolation
INVARIANT UserAccess
PROPERTY AddressSpaceSpec
PROPERTY MapCompletes
