\* The default IOManager, fa reads s1 (do_io has no timeout) and the peer sends:
\* nothing ever triggers the READ event.
CONSTANTS
    Workers = {}
    UseCaller = TRUE
    Caller = caller
    Fibers <- MCFibers
    Prog <- BlockingReadProg
    InitTasks <- NoTasks
    LateTasks <- Task1
    ANY = ANY
    NoFiber = NoFiber
    TimerIds <- MCTimerIds
    Periods = {1}
    Recurring = {FALSE}
    FromNow = {TRUE}
    Hour = 1
    MaxTime = 0
    MaxJumps = 0
    Fds = {s1, s2}
    Events = {"READ", "WRITE"}
    TimerCb <- MCTimerCb
    DataFds = {s1}
    PipeCap = 8
    w1 = w1
    w2 = w2
    caller = caller
    fa = fa
    fb = fb
    fc = fc
    k1 = k1
    k2 = k2
    k3 = k3
    k4 = k4
    ta = ta
    tw = tw
    ta2 = ta2
    tx = tx
    s1 = s1
    s2 = s2
    s3 = s3
SPECIFICATION IoSpec
PROPERTY ReadyWaiterResumes
