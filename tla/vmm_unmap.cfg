CONSTANTS
    N = 6
    FIRST_TABLE = 1
    NFRAMES = 17
    UserVas <- TwoVas
    UserFlags <- MCFlags
    TouchedVas <- Touched
SPECIFICATION SpecAny
INVARIANT FreedUnreachable
