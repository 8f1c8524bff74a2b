\* Pinned self-rescheduling with use_caller: the dispatch loop is safe,
\* drains and stops.
CONSTANTS
    Workers <- MCWorkers
    UseCaller = TRUE
    Caller = caller
    Fibers <- MCFibers
    Prog <- PinnedProg
    InitTasks <- MCInitTasks
    LateTasks <- MCLateTasks
    ANY = ANY
    NoFiber = NoFiber
    w1 = w1
    w2 = w2
    caller = caller
    f1 = f1
    f2 = f2
    f3 = f3
    g1 = g1
SPECIFICATION Spec
INVARIANT TypeOK
INVARIANT NoFiberOnTwoThreads
PROPERTY StopReturns
