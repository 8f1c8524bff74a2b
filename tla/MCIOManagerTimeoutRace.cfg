\* IOManager(2, false), fa connects s1 with s_connect_timeout: the timer
\* can fire on the other worker before connect_with_timeout() has
\* registered the WRITE event.
CONSTANTS
    Workers = {w1, w2}
    UseCaller = FALSE
    Caller = caller
    Fibers <- MCFibers
    Prog <- TimeoutProg
    InitTasks <- NoTasks
    LateTasks <- Task1
    ANY = ANY
    NoFiber = NoFiber
    TimerIds <- MCTimerIds
    Periods = {1}
    Recurring = {FALSE}
    FromNow = {TRUE}
    Hour = 1
    MaxTime = 0
    MaxJumps = 0
    Fds = {s1, s2}
    Events = {"READ", "WRITE"}
    TimerCb <- MCTimerCb
    DataFds = {}
    PipeCap = 12
    w1 = w1
    w2 = w2
    caller = caller
    fa = fa
    fb = fb
    fc = fc
    k1 = k1
    k2 = k2
    k3 = k3
    k4 = k4
    ta = ta
    tw = tw
    ta2 = ta2
    tx = tx
    s1 = s1
    s2 = s2
    s3 = s3
SPECIFICATION IoSpec
PROPERTY IoReturns
