\* One-shot timers (the kind hooked I/O and sleep() arm): cancel() is final
\* and every expired timer is handed out.
CONSTANTS
    TimerIds <- MCTimerIds
    Periods <- MCPeriods
    Recurring = {FALSE}
    FromNow = {TRUE, FALSE}
    Hour = 1
    MaxTime = 4
    MaxJumps = 1
SPECIFICATION TMSpec
INVARIANT TMTypeOK
PROPERTY CancelStops
PROPERTY ExpiredTimerFires
