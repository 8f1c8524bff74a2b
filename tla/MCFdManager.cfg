SPECIFICATION Spec
CONSTANTS
    Fds <- MCFds
    TimeVals <- MCTimeVals
    InitSize = 2
INVARIANTS
    FdTypeOK
    NoThreadBlock
    CtxNotStale
