\* Recurring timers: listExpiredCb() hands the callback out and re-arms the
\* timer, so cancel() still returns true while that callback is queued.
CONSTANTS
    TimerIds <- MCTimerIds
    Periods <- MCPeriods
    Recurring = {TRUE}
    FromNow = {TRUE}
    Hour = 1
    MaxTime = 3
    MaxJumps = 0
SPECIFICATION TMSpec
PROPERTY CancelStops
