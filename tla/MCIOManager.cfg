\* The default IOManager (the caller thread only): fa reads s1, connects
\* s2 and writes s2, fb reads s2, fc makes server.cpp's test_IOmanager's
\* addEvent(READ, test_accept) on s3, adds and deletes a WRITE callback
\* there, closes s1 and, after its sleep, closes s2 (racing fa's connect
\* timeout, and waking fb) and s3 (running the callback).
CONSTANTS
    Workers = {}
    UseCaller = TRUE
    Caller = caller
    Fibers <- MCFibers
    Prog <- MixProg
    InitTasks <- NoTasks
    LateTasks <- Task3
    ANY = ANY
    NoFiber = NoFiber
    TimerIds <- MCTimerIds
    Periods = {1, 2}
    Recurring = {FALSE}
    FromNow = {TRUE}
    Hour = 1
    MaxTime = 0
    MaxJumps = 0
    Fds = {s1, s2, s3}
    Events = {"READ", "WRITE"}
    TimerCb <- MCTimerCb
    DataFds = {s1}
    PipeCap = 8
    w1 = w1
    w2 = w2
    caller = caller
    fa = fa
    fb = fb
    fc = fc
    k1 = k1
    k2 = k2
    k3 = k3
    k4 = k4
    ta = ta
    tw = tw
    ta2 = ta2
    tx = tx
    s1 = s1
    s2 = s2
    s3 = s3
SPECIFICATION IoSpec
INVARIANT IoTypeOK
INVARIANT PendingMatches
INVARIANT AddEventAsserts
PROPERTY IoReturns
PROPERTY CallLeavesNoTrace
PROPERTY EventsRefined
PROPERTY StopReturns
