\* One-shot timers and a clock that is set back once by more than Hour:
\* the rollover test of listExpiredCb() against the previous call.
CONSTANTS
    TimerIds <- MCTimerIds
    Periods <- MCPeriods
    Recurring = {FALSE}
    FromNow = {TRUE, FALSE}
    Hour = 1
    MaxTime = 4
    MaxJumps = 1
SPECIFICATION TMSpec
PROPERTY RolloverSinceLastList
