--------------------------- MODULE TimerManager ---------------------------
(***************************************************************************)
(* The timer set of src/Timer.cpp: TimerManager keeps m_timers, a std::set *)
(* of Timer ordered by (m_next, address), hands the callbacks of expired   *)
(* timers out in listExpiredCb() and detects a wall clock that moved back  *)
(* by more than an hour.  Timer::cancel/refresh/reset re-seat a timer.     *)
(*                                                                         *)
(* Timers are the numbers in TimerIds; a timer's number stands for its     *)
(* address, the second key of the set's order.  getNow() reads the system  *)
(* clock (high_resolution_clock), which may also jump back.  A callback    *)
(* handed out by listExpiredCb() is pending until the scheduler runs it.   *)
(***************************************************************************)
EXTENDS Integers, FiniteSets

CONSTANTS
    TimerIds,     \* timers the program creates (their addresses)
    Periods,      \* values of ms passed to addTimer / reset
    Recurring,    \* values of the recurring flag passed to addTimer
    FromNow,      \* values of from_now passed to Timer::reset
    Hour,         \* the rollover threshold, 60 * 60 * 1000 ms
    MaxTime,      \* the clock does not pass MaxTime
    MaxJumps      \* the clock jumps back at most MaxJumps times

ASSUME /\ TimerIds \subseteq Nat
       /\ Periods \subseteq Nat \ {0}
       /\ Recurring \subseteq BOOLEAN /\ FromNow \subseteq BOOLEAN
       /\ Hour \in Nat /\ MaxTime \in Nat /\ MaxJumps \in Nat

VARIABLES
    now,        \* getNow()
    prevTime,   \* m_previouseTime
    timers,     \* m_timers, the timers in the set
    made,       \* timers constructed by addTimer
    tnext,      \* Timer::m_next
    tms,        \* Timer::m_ms
    hasCb,      \* Timer::m_cb is not null
    rec,        \* Timer::m_recurring
    tickled,    \* m_tickled
    pending,    \* callbacks handed out by listExpiredCb and not yet run
    cancelOk,   \* history: cancel() has returned true for the timer
    jumps,      \* how often the clock has jumped back
    lastList    \* history: getNow() at the latest listExpiredCb() call

tmVars == <<now, prevTime, timers, made, tnext, tms, hasCb, rec, tickled,
            pending, cancelOk, jumps, lastList>>

-----------------------------------------------------------------------------
(* Helpers                                                                 *)

\* Timer::Comparator: by m_next, then by address.
Before(i, j, nxt) == nxt[i] < nxt[j] \/ (nxt[i] = nxt[j] /\ i < j)

\* The inserted timer is *m_timers.begin() of the set S.
IsFirst(i, S, nxt) == \A j \in S \ {i} : Before(i, j, nxt)

\* detectClockRollover(now) for the current clock and m_previouseTime.
Rollover == now < prevTime /\ now < prevTime - Hour

\* A strict comparison with the clock.
ExpiredStrict == IF Rollover THEN timers ELSE {i \in timers : tnext[i] < now}

\* The timers listExpiredCb() takes out of the set: all of them after a
\* rollover, else those up to lower_bound(now) and those equal to now.
Expired == IF Rollover THEN timers ELSE {i \in timers : tnext[i] <= now}

-----------------------------------------------------------------------------
TMInit ==
    /\ now = 0
    /\ prevTime = 0
    /\ timers = {}
    /\ made = {}
    /\ tnext = [i \in TimerIds |-> 0]
    /\ tms = [i \in TimerIds |-> 0]
    /\ hasCb = [i \in TimerIds |-> FALSE]
    /\ rec = [i \in TimerIds |-> FALSE]
    /\ tickled = FALSE
    /\ pending = [i \in TimerIds |-> 0]
    /\ cancelOk = [i \in TimerIds |-> FALSE]
    /\ jumps = 0
    /\ lastList = 0

-----------------------------------------------------------------------------
(* Operations                                                              *)

\* TimerManager::addTimer(val, lock): insert, and latch m_tickled when the
\* timer lands at the front and no wake is pending; the caller then calls
\* onTimerInsertedAtFront() (see AtFront).
InsertTimer(i, nxt) ==
    /\ timers' = timers \cup {i}
    /\ tickled' = (tickled \/ IsFirst(i, timers \cup {i}, nxt))

\* Whether InsertTimer(i, nxt) calls onTimerInsertedAtFront().
AtFront(i, nxt) == IsFirst(i, timers \cup {i}, nxt) /\ ~tickled

\* TimerManager::addTimer(ms, cb, recurring): a new Timer with
\* m_next = getNow() + ms, inserted under the write lock.
AddTimer(i, ms, r) ==
    /\ i \notin made
    /\ made' = made \cup {i}
    /\ tnext' = [tnext EXCEPT ![i] = now + ms]
    /\ tms' = [tms EXCEPT ![i] = ms]
    /\ hasCb' = [hasCb EXCEPT ![i] = TRUE]
    /\ rec' = [rec EXCEPT ![i] = r]
    /\ InsertTimer(i, tnext')
    /\ UNCHANGED <<now, prevTime, pending, cancelOk, jumps, lastList>>

\* A cancel that nulls the callback and leaves the timer in the set.
CancelKeepInSet(i) ==
    /\ hasCb[i]
    /\ hasCb' = [hasCb EXCEPT ![i] = FALSE]
    /\ cancelOk' = [cancelOk EXCEPT ![i] = TRUE]
    /\ UNCHANGED <<now, prevTime, timers, made, tnext, tms, rec, tickled,
                   pending, jumps, lastList>>

\* Timer::cancel(): with a callback, null it and erase the timer; true.
Cancel(i) ==
    /\ hasCb[i]
    /\ hasCb' = [hasCb EXCEPT ![i] = FALSE]
    /\ timers' = timers \ {i}
    /\ cancelOk' = [cancelOk EXCEPT ![i] = TRUE]
    /\ UNCHANGED <<now, prevTime, made, tnext, tms, rec, tickled, pending,
                   jumps, lastList>>

\* Timer::refresh(): re-seat at getNow() + m_ms (no front check).
Refresh(i) ==
    /\ hasCb[i]
    /\ i \in timers
    /\ tnext' = [tnext EXCEPT ![i] = now + tms[i]]
    /\ UNCHANGED <<now, prevTime, timers, made, tms, hasCb, rec, tickled,
                   pending, cancelOk, jumps, lastList>>

\* Timer::reset(ms, from_now): an unchanged period not from now returns at
\* once; otherwise m_next = start + ms where start is getNow() or
\* m_next - ms, and the timer is re-added through addTimer(val, lock).
Reset(i, ms, fromNow) ==
    /\ ~(tms[i] = ms /\ ~fromNow)
    /\ hasCb[i]
    /\ i \in timers
    /\ LET base == IF fromNow THEN now ELSE tnext[i] - ms IN
         /\ tms' = [tms EXCEPT ![i] = ms]
         /\ tnext' = [tnext EXCEPT ![i] = base + ms]
    /\ InsertTimer(i, tnext')
    /\ UNCHANGED <<now, prevTime, made, hasCb, rec, pending, cancelOk, jumps,
                   lastList>>

\* TimerManager::getNextTimer(): clears m_tickled (its result is read by
\* IOManager::stopping()).
GetNextTimer ==
    /\ tickled' = FALSE
    /\ UNCHANGED <<now, prevTime, timers, made, tnext, tms, hasCb, rec,
                   pending, cancelOk, jumps, lastList>>

\* Taking timers out without nulling a one-shot timer's callback.
TakeExpiredKeepCb(due) ==
    /\ prevTime' = now
    /\ timers' = (timers \ due) \cup {i \in due : rec[i]}
    /\ tnext' = [i \in TimerIds |-> IF i \in due /\ rec[i]
                                      THEN now + tms[i] ELSE tnext[i]]
    /\ UNCHANGED <<made, tms, rec, tickled, hasCb>>

\* The effect of listExpiredCb() on the set once it has chosen the timers
\* due: detectClockRollover() records now in m_previouseTime, the timers
\* in due leave the set, recurring ones re-enter at now + m_ms and the
\* others lose their callback.  The callbacks are handed to the caller.
TakeExpired(due) ==
    /\ prevTime' = now
    /\ timers' = (timers \ due) \cup {i \in due : rec[i]}
    /\ tnext' = [i \in TimerIds |-> IF i \in due /\ rec[i]
                                      THEN now + tms[i] ELSE tnext[i]]
    /\ hasCb' = [i \in TimerIds |-> IF i \in due /\ ~rec[i]
                                      THEN FALSE ELSE hasCb[i]]
    /\ UNCHANGED <<made, tms, rec, tickled>>

\* listExpiredCb() on an empty m_timers returns before it calls
\* detectClockRollover(): m_previouseTime keeps its old value.
ListEmpty ==
    /\ timers = {}
    /\ lastList' = now
    /\ UNCHANGED <<now, prevTime, timers, made, tnext, tms, hasCb, rec,
                   tickled, pending, cancelOk, jumps>>

\* TimerManager::listExpiredCb(): returns at once on an empty set,
\* otherwise takes out Expired and hands their callbacks out.
ListExpiredCb ==
    \/ ListEmpty
    \/ /\ timers # {}
       /\ TakeExpired(Expired)
       /\ lastList' = now
       /\ pending' = [i \in TimerIds |-> IF i \in Expired THEN pending[i] + 1
                                                        ELSE pending[i]]
       /\ UNCHANGED <<now, cancelOk, jumps>>

\* The scheduler runs a callback that listExpiredCb() handed out.
RunCallback(i) ==
    /\ pending[i] > 0
    /\ pending' = [pending EXCEPT ![i] = @ - 1]
    /\ UNCHANGED <<now, prevTime, timers, made, tnext, tms, hasCb, rec,
                   tickled, cancelOk, jumps, lastList>>

\* The system clock advances, or is set back.
Tick ==
    /\ now < MaxTime
    /\ now' = now + 1
    /\ UNCHANGED <<prevTime, timers, made, tnext, tms, hasCb, rec, tickled,
                   pending, cancelOk, jumps, lastList>>

JumpBack ==
    /\ jumps < MaxJumps
    /\ \E t \in 0..(now - 1) : now' = t
    /\ jumps' = jumps + 1
    /\ UNCHANGED <<prevTime, timers, made, tnext, tms, hasCb, rec, tickled,
                   pending, cancelOk, lastList>>

-----------------------------------------------------------------------------
UserOp ==
    \E i \in TimerIds :
        \/ \E ms \in Periods, r \in Recurring : AddTimer(i, ms, r)
        \/ Cancel(i)
        \/ Refresh(i)
        \/ \E ms \in Periods, fn \in FromNow : Reset(i, ms, fn)

TMNext ==
    \/ UserOp
    \/ GetNextTimer
    \/ ListExpiredCb
    \/ \E i \in TimerIds : RunCallback(i)
    \/ Tick
    \/ JumpBack

\* The idle fiber calls listExpiredCb() on every pass and the clock runs;
\* nothing obliges the program to add, cancel or reset a timer.
TMFairness == WF_tmVars(ListExpiredCb) /\ WF_tmVars(Tick)

TMSpec == TMInit /\ [][TMNext]_tmVars /\ TMFairness

-----------------------------------------------------------------------------
(* Properties                                                              *)

\* Types, and: every timer in m_timers still has its callback (cancel()
\* erases what it nulls, listExpiredCb() nulls only what it took out).
TMTypeOK ==
    /\ \A i \in timers : hasCb[i]
    /\ now \in 0..MaxTime /\ prevTime \in 0..MaxTime
    /\ timers \subseteq made /\ made \subseteq TimerIds
    /\ tnext \in [TimerIds -> Int] /\ tms \in [TimerIds -> Nat]
    /\ hasCb \in [TimerIds -> BOOLEAN] /\ rec \in [TimerIds -> BOOLEAN]
    /\ tickled \in BOOLEAN
    /\ pending \in [TimerIds -> Nat]
    /\ cancelOk \in [TimerIds -> BOOLEAN]
    /\ jumps \in 0..MaxJumps
    /\ lastList \in 0..MaxTime

\* Once Timer::cancel() has returned true, the timer's callback is never
\* run again (spec, invariant 4).  A callback already handed out by
\* listExpiredCb() to the task queue would break this.
CancelStops ==
    [][\A i \in TimerIds : cancelOk[i] => pending'[i] >= pending[i]]_tmVars

\* listExpiredCb() hands out a timer before its deadline only when the clock
\* reads more than an hour before the previous listExpiredCb() call (spec
\* 4.4: every call updates previous_time to now).  The early return on an
\* empty m_timers (Timer.cpp:115) skips that update, so a timer added after
\* the clock was set back can be taken for a rollover.
RolloverSinceLastList ==
    [][\A i \in TimerIds :
         pending'[i] > pending[i] /\ tnext[i] > now => now < lastList - Hour]_tmVars

\* A timer whose deadline has passed is eventually handed out by
\* listExpiredCb() (or stops being due: cancelled, re-seated, clock set back).
Due(i) == i \in timers /\ tnext[i] <= now

ExpiredTimerFires == \A i \in TimerIds : Due(i) ~> ~Due(i)

=============================================================================
