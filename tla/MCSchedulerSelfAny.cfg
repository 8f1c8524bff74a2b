\* test_fiber1: a fiber reschedules itself with no affinity and yields;
\* another worker may resume it before yield() has saved its context.
CONSTANTS
    Workers <- MCWorkers
    UseCaller = TRUE
    Caller = caller
    Fibers <- MCFibers
    Prog <- AnyProg
    InitTasks <- MCInitTasks
    LateTasks <- MCLateTasks
    ANY = ANY
    NoFiber = NoFiber
    w1 = w1
    w2 = w2
    caller = caller
    f1 = f1
    f2 = f2
    f3 = f3
    g1 = g1
SPECIFICATION Spec
INVARIANT NoFiberOnTwoThreads
