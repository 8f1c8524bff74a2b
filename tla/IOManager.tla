----------------------------- MODULE IOManager -----------------------------
(***************************************************************************)
(* The I/O scheduler of src/IOManager.cpp with the hooked calls of         *)
(* src/Hook.cpp that use it, composed of the dispatch loop (Scheduler) and *)
(* the timer set (TimerManager) it inherits from.                          *)
(*                                                                         *)
(* Per fd, FdContext holds the registered events and, per event, the       *)
(* fiber to schedule when it fires; m_pendingEventCount counts the         *)
(* registrations.  The idle fiber hands expired timer callbacks to the     *)
(* queue; the epoll_wait loop of IOManager::idle() is commented out, so    *)
(* an event fires only through cancelEvent() (a connect timeout) or        *)
(* cancalAll() (a hooked close).  tickle() writes a byte to a pipe that    *)
(* only epoll would drain.                                                 *)
(*                                                                         *)
(* Fiber bodies add six calls to those of Scheduler: "io" is do_io() on    *)
(* a socket fd for event ev with timeout to (-1: none), "watch" is         *)
(* addEvent(fd, ev, cb) with a callback that runs on fiber cb, "del" is    *)
(* delEvent(fd, ev), "close" is the hooked close(), "sleep" is the hooked  *)
(* sleep(), and "timercb" is the body of the fiber that runs the callback  *)
(* of timer tmr.  The socket becomes readable (or writable) when its peer  *)
(* acts: Arrive.                                                           *)
(***************************************************************************)
EXTENDS Scheduler, TimerManager

CONSTANTS
    Fds,       \* socket fds, in the range of m_fdContexts
    Events,    \* {"READ", "WRITE"}
    TimerCb,   \* TimerCb[i]: the fiber that runs timer i's callback
    DataFds,   \* fds whose peer sends data
    PipeCap    \* bytes the tickle pipe holds before write() blocks

VARIABLES
    events,    \* FdContext::events
    waiter,    \* FdContext::EventContext::fiber, per fd and event
    cbOf,      \* FdContext::EventContext::cb: the fiber its thunk runs on
    pendingEv, \* m_pendingEventCount
    pipe,      \* unread bytes in m_tickleFds
    fdOpen,    \* the fd is open and tracked by FdMgr
    ready,     \* <<fd, ev>> pairs on which the real call would not block
    io,        \* per fiber: where it is in do_io()
    iotmr,     \* per fiber: the timer do_io() armed, 0 if none
    tcancel,   \* per fiber: timer_info::cancelled of its do_io() call
    capture,   \* per timer: what its callback captured
    idlePh,    \* per thread: the step of the IOManager idle loop
    trig       \* per thread: what is left of a cancelEvent()/cancalAll()

ioVars == <<events, waiter, cbOf, pendingEv, pipe, fdOpen, ready, io, iotmr,
            tcancel, capture, idlePh, trig>>

vars == <<schedVars, tmVars, ioVars>>

NoCapture == [kind |-> "none", fib |-> NoFiber, fd |-> NoFiber,
              ev |-> "none", call |-> 0]

ASSUME /\ Events = {"READ", "WRITE"}
       /\ DataFds \subseteq Fds
       /\ TimerCb \in [TimerIds -> Fibers]
       /\ PipeCap \in Nat

-----------------------------------------------------------------------------
(* Helpers                                                                 *)

\* tickle() writes one byte when a thread is idle; write() on the full,
\* blocking pipe never returns, so a step that writes past PipeCap is not
\* taken.  n is the number of tickle() calls the step makes.
Tickle(n) ==
    /\ pipe' = IF idleCnt > 0 THEN pipe + n ELSE pipe
    /\ pipe' <= PipeCap

\* tickle_me in run(): a task for another thread was skipped, or tasks
\* remain behind the one taken.
TickleMe(t) ==
    LET k == Pick(t)
        upto == IF k = 0 THEN Len(tasks) ELSE k - 1
    IN  \/ \E j \in 1..upto : tasks[j].thr \notin {ANY, t}
        \/ k # 0 /\ k < Len(tasks)

\* A fiber's continuation as a task; NoFiber stands for an empty one.
FiberTask(f) == [fib |-> f, cb |-> FALSE, thr |-> ANY]

\* schedule() called once per element of ws, in order: scheduleNoLock
\* drops an empty continuation, and each call whose queue was empty
\* tickles.
ScheduleAll(ws) ==
    LET pushed == SelectSeq(ws, LAMBDA w : w.fib # NoFiber)
        calls == {k \in 1..Len(ws) :
                    tasks = <<>> /\ \A j \in 1..(k - 1) : ws[j].fib = NoFiber}
    IN  /\ tasks' = tasks \o pushed
        /\ Tickle(Cardinality(calls))

\* The timer addTimer() allocates next.
NewTimer == CHOOSE i \in TimerIds \ made : \A j \in TimerIds \ made : i <= j

\* timer->cancel() when the timer exists: a no-op once m_cb is null.
TryCancel(i) == IF i # 0 /\ hasCb[i] THEN Cancel(i) ELSE UNCHANGED tmVars

\* IOManager::stopping(timeout): no timer, no pending event, and the base
\* scheduler is stopping.
IoStopping == timers = {} /\ pendingEv = 0 /\ Stopping

-----------------------------------------------------------------------------
IoInit ==
    /\ Init
    /\ TMInit
    /\ events = [fd \in Fds |-> {}]
    /\ waiter = [fd \in Fds |-> [ev \in Events |-> NoFiber]]
    /\ cbOf = [fd \in Fds |-> [ev \in Events |-> NoFiber]]
    /\ pendingEv = 0
    /\ pipe = 0
    /\ fdOpen = [fd \in Fds |-> TRUE]
    /\ ready = {}
    /\ io = [f \in Fibers |-> "none"]
    /\ iotmr = [f \in Fibers |-> 0]
    /\ tcancel = [f \in Fibers |-> FALSE]
    /\ capture = [i \in TimerIds |-> NoCapture]
    /\ idlePh = [t \in Threads |-> "check"]
    /\ trig = [t \in Threads |-> <<>>]

-----------------------------------------------------------------------------
(* The dispatch loop and the main thread, with IOManager::tickle()         *)

IoRunTask(t) ==
    /\ RunTask(t)
    /\ Tickle(IF TickleMe(t) THEN 1 ELSE 0)
    /\ UNCHANGED <<tmVars, events, waiter, cbOf, pendingEv, fdOpen, ready, io,
                   iotmr, tcancel, capture, idlePh, trig>>

IoNoTask(t) ==
    /\ NoTask(t)
    /\ Tickle(IF TickleMe(t) THEN 1 ELSE 0)
    /\ UNCHANGED <<tmVars, events, waiter, cbOf, pendingEv, fdOpen, ready, io,
                   iotmr, tcancel, capture, idlePh, trig>>

IoFiberSchedule(t) ==
    /\ FiberSchedule(t)
    /\ Tickle(IF tasks = <<>> THEN 1 ELSE 0)
    /\ UNCHANGED <<tmVars, events, waiter, cbOf, pendingEv, fdOpen, ready, io,
                   iotmr, tcancel, capture, idlePh, trig>>

IoMainSchedule ==
    /\ MainSchedule
    /\ Tickle(IF tasks = <<>> THEN 1 ELSE 0)
    /\ UNCHANGED <<tmVars, events, waiter, cbOf, pendingEv, fdOpen, ready, io,
                   iotmr, tcancel, capture, idlePh, trig>>

\* Scheduler::stop() through the virtual stopping() (which calls
\* getNextTimer()), with one tickle() per worker and one for the caller.
IoStop ==
    /\ Stop
    /\ GetNextTimer
    /\ Tickle(Cardinality(Workers) + (IF UseCaller THEN 1 ELSE 0))
    /\ UNCHANGED <<events, waiter, cbOf, pendingEv, fdOpen, ready, io, iotmr,
                   tcancel, capture, idlePh, trig>>

\* Steps that make no scheduler call.
IoQuiet(A) == A /\ UNCHANGED <<tmVars, ioVars>>

-----------------------------------------------------------------------------
(* IOManager::idle()                                                       *)

\* An idle loop that never leaves.
IoIdleCheckNever(t) ==
    /\ pc[t] = "idle" /\ idlePh[t] = "check"
    /\ GetNextTimer
    /\ idlePh' = [idlePh EXCEPT ![t] = "timers"]
    /\ UNCHANGED <<schedVars, events, waiter, cbOf, pendingEv, pipe, fdOpen, ready,
                   io, iotmr, tcancel, capture, trig>>

\* stopping(next_timeout): when true the loop breaks, the idle fiber is
\* TERM and run() decrements m_idleThreadCount.
IoIdleCheck(t) ==
    /\ pc[t] = "idle" /\ idlePh[t] = "check"
    /\ GetNextTimer
    /\ IF IoStopping
         THEN /\ idleTerm' = [idleTerm EXCEPT ![t] = TRUE]
              /\ idleCnt' = idleCnt - 1
              /\ pc' = [pc EXCEPT ![t] = "sched"]
              /\ UNCHANGED idlePh
         ELSE /\ idlePh' = [idlePh EXCEPT ![t] = "timers"]
              /\ UNCHANGED <<idleTerm, idleCnt, pc>>
    /\ UNCHANGED <<tasks, fstate, pos, cur, stage, active, stopFlag, mainPc,
                   late, events, waiter, cbOf, pendingEv, pipe, fdOpen, ready, io,
                   iotmr, tcancel, capture, trig>>

\* listExpiredCb(cbs), schedule(cb) for each in the set's order, no
\* epoll_wait (rt = 0), then yield back to run().
IoIdleTimers(t) ==
    /\ pc[t] = "idle" /\ idlePh[t] = "timers"
    /\ IF timers = {}
         THEN /\ ListEmpty
              /\ UNCHANGED <<tasks, pipe>>
         ELSE LET due == SetToSortSeq(Expired,
                                      LAMBDA a, b : Before(a, b, tnext))
              IN  /\ TakeExpired(Expired)
                  /\ lastList' = now
                  /\ UNCHANGED <<now, pending, cancelOk, jumps>>
                  /\ ScheduleAll([k \in 1..Len(due) |->
                                    [fib |-> TimerCb[due[k]], cb |-> TRUE,
                                     thr |-> ANY]])
    /\ idleCnt' = idleCnt - 1
    /\ pc' = [pc EXCEPT ![t] = "sched"]
    /\ idlePh' = [idlePh EXCEPT ![t] = "check"]
    /\ UNCHANGED <<fstate, pos, cur, stage, active, idleTerm, stopFlag, mainPc,
                   late, events, waiter, cbOf, pendingEv, fdOpen, ready, io, iotmr,
                   tcancel, capture, trig>>

-----------------------------------------------------------------------------
(* FdContext events                                                        *)

\* A trigger that clears the event and schedules nothing.
FireNoFiber(fd, ev) ==
    /\ events' = [events EXCEPT ![fd] = @ \ {ev}]
    /\ UNCHANGED <<tasks, pipe>>

\* What triggerEvent() schedules: ctx.cb when set, else ctx.fiber.
CtxTask(fd, ev) ==
    IF cbOf[fd][ev] # NoFiber
      THEN [fib |-> cbOf[fd][ev], cb |-> TRUE, thr |-> ANY]
      ELSE FiberTask(waiter[fd][ev])

\* A trigger that schedules the continuation and leaves the event set.
FireKeepEvent(fd, ev) ==
    /\ ScheduleAll(<<CtxTask(fd, ev)>>)
    /\ UNCHANGED events

\* The first half of FdContext::triggerEvent(ev): clear the event and
\* schedule the continuation of its context; the context is reset
\* afterwards.
Fire(fd, ev) ==
    /\ events' = [events EXCEPT ![fd] = @ \ {ev}]
    /\ ScheduleAll(<<CtxTask(fd, ev)>>)

\* What a thread still has to do inside cancelEvent() or cancalAll() on
\* fd: "cancel" and "all" wait for the fd's mutex, "check" is cancalAll's
\* test of WRITE, "reset" is resetEventContext() and the caller's
\* --m_pendingEventCount that end a triggerEvent().
Step(fd, ev, ph) == [fd |-> fd, ev |-> ev, ph |-> ph]

\* Thread u holds fd's mutex.
Holds(u, fd) ==
    \E k \in DOMAIN trig[u] : trig[u][k].fd = fd /\ trig[u][k].ph \in {"check", "reset"}

Locked(t, fd) == \E u \in Threads \ {t} : Holds(u, fd)

\* The hooked call that cancelled returns: close() removes the fd from
\* FdMgr and closes it; the timer callback ends.
FinishOp(t) ==
    /\ pos' = [pos EXCEPT ![cur[t]] = @ + 1]
    /\ fdOpen' = IF NextOp(t).kind = "close"
                   THEN [fdOpen EXCEPT ![NextOp(t).fd] = FALSE] ELSE fdOpen

Continue(t, rest) ==
    /\ trig' = [trig EXCEPT ![t] = rest]
    /\ IF rest = <<>> THEN FinishOp(t) ELSE UNCHANGED <<pos, fdOpen>>

\* if (fd_ctx->events & ev) triggerEvent(ev): fire and go on to the
\* reset, then to rest.
Trigger(t, s, rest) ==
    /\ IF s.ev \in events[s.fd]
         THEN /\ Fire(s.fd, s.ev)
              /\ Continue(t, <<Step(s.fd, s.ev, "reset")>> \o rest)
         ELSE /\ UNCHANGED <<events, tasks, pipe>>
              /\ Continue(t, rest)
    /\ UNCHANGED <<waiter, cbOf, pendingEv>>

\* IOManager::cancelEvent(fd, ev) once the fd's mutex is free: false when
\* the event is not registered, otherwise trigger it.
CancelEvent(t, s) == ~Locked(t, s.fd) /\ Trigger(t, s, Tail(trig[t]))

\* IOManager::cancalAll(fd) once the fd's mutex is free: false with no
\* event, otherwise trigger READ if set, then test WRITE.
CancelAll(t, s) ==
    /\ ~Locked(t, s.fd)
    /\ IF events[s.fd] = {}
         THEN /\ UNCHANGED <<events, waiter, cbOf, pendingEv, tasks, pipe>>
              /\ Continue(t, <<>>)
         ELSE Trigger(t, [s EXCEPT !.ev = "READ"],
                      <<Step(s.fd, "WRITE", "check")>> \o Tail(trig[t]))

\* cancalAll() triggering WRITE without testing it.
CheckWriteNoTest(t, s) ==
    /\ Fire(s.fd, s.ev)
    /\ Continue(t, <<Step(s.fd, s.ev, "reset")>> \o Tail(trig[t]))
    /\ UNCHANGED <<waiter, cbOf, pendingEv>>

\* cancalAll(): if (fd_ctx->events & WRITE) triggerEvent(WRITE).
CheckWrite(t, s) == Trigger(t, s, Tail(trig[t]))

\* A reset that forgets the decrement.
ResetCtxNoDec(t, s) ==
    /\ waiter' = [waiter EXCEPT ![s.fd][s.ev] = NoFiber]
    /\ cbOf' = [cbOf EXCEPT ![s.fd][s.ev] = NoFiber]
    /\ Continue(t, Tail(trig[t]))
    /\ UNCHANGED <<events, pendingEv, tasks, pipe>>

\* A reset that leaves the context as it was.
ResetCtxKeep(t, s) ==
    /\ pendingEv' = pendingEv - 1
    /\ Continue(t, Tail(trig[t]))
    /\ UNCHANGED <<events, waiter, cbOf, tasks, pipe>>

\* The end of triggerEvent(): resetEventContext(); then the caller's
\* --m_pendingEventCount.
ResetCtx(t, s) ==
    /\ waiter' = [waiter EXCEPT ![s.fd][s.ev] = NoFiber]
    /\ cbOf' = [cbOf EXCEPT ![s.fd][s.ev] = NoFiber]
    /\ pendingEv' = pendingEv - 1
    /\ Continue(t, Tail(trig[t]))
    /\ UNCHANGED <<events, tasks, pipe>>

\* The next step of the cancel thread t is in.
TrigStep(t) ==
    /\ trig[t] # <<>>
    /\ LET s == Head(trig[t]) IN
       CASE s.ph = "cancel" -> CancelEvent(t, s)
         [] s.ph = "all"    -> CancelAll(t, s)
         [] s.ph = "check"  -> CheckWrite(t, s)
         [] s.ph = "reset"  -> ResetCtx(t, s)
    /\ UNCHANGED <<fstate, pc, cur, stage, active, idleCnt, idleTerm,
                   stopFlag, mainPc, late, tmVars, ready, io, iotmr, tcancel,
                   capture, idlePh>>

-----------------------------------------------------------------------------
(* Hooked calls made by the fiber running on thread t                      *)

Running(t) == pc[t] = "fiber" /\ stage[t] = "body" /\ ~AtEnd(t)

\* do_io() returns: the call's timer_info is gone.
IoReturn(f) ==
    /\ pos' = [pos EXCEPT ![f] = @ + 1]
    /\ io' = [io EXCEPT ![f] = "none"]
    /\ iotmr' = [iotmr EXCEPT ![f] = 0]
    /\ tcancel' = [tcancel EXCEPT ![f] = FALSE]

\* do_io(): call the real function.  A closed fd gives EBADF (FdMgr has
\* no FdCtx any more, or the retry fails), a ready one succeeds, otherwise
\* EAGAIN: arm the condition timer, whose capture is the fiber, the fd,
\* the event and this call, and go on to addEvent().
IoCall(t) ==
    /\ Running(t)
    /\ NextOp(t).kind = "io"
    /\ io[cur[t]] \in {"none", "retry"}
    /\ LET f == cur[t]
           op == NextOp(t)
           key == <<op.fd, op.ev>>
       IN
       \/ /\ ~fdOpen[op.fd] \/ key \in ready
          /\ IoReturn(f)
          /\ ready' = ready \ {key}
          /\ UNCHANGED <<tmVars, pipe, capture>>
       \/ /\ fdOpen[op.fd] /\ key \notin ready
          /\ io' = [io EXCEPT ![f] = "armed"]
          /\ IF op.to = -1
               THEN /\ UNCHANGED <<tmVars, pipe, capture, iotmr>>
               ELSE LET i == NewTimer IN
                    /\ made # TimerIds
                    /\ AddTimer(i, op.to, FALSE)
                    /\ Tickle(IF AtFront(i, tnext') THEN 1 ELSE 0)
                    /\ capture' = [capture EXCEPT ![i] =
                         [kind |-> "timeout", fib |-> f, fd |-> op.fd,
                          ev |-> op.ev, call |-> pos[f]]]
                    /\ iotmr' = [iotmr EXCEPT ![f] = i]
          /\ UNCHANGED <<pos, tcancel, ready>>
    /\ UNCHANGED <<tasks, fstate, pc, cur, stage, active, idleCnt, idleTerm,
                   stopFlag, mainPc, late, events, waiter, cbOf, pendingEv, fdOpen,
                   idlePh, trig>>

\* IOManager::addEvent(fd, ev), without the fd's mutex, up to the event
\* mask: MYASSERT that ev is not registered, epoll_ctl (fails on a closed
\* fd: cancel the timer and return -1), ++m_pendingEventCount, set ev.
IoAddEvent(t) ==
    /\ Running(t)
    /\ io[cur[t]] = "armed"
    /\ LET f == cur[t]
           op == NextOp(t)
       IN
       /\ op.ev \notin events[op.fd]
       /\ \/ /\ ~fdOpen[op.fd]
             /\ TryCancel(iotmr[f])
             /\ IoReturn(f)
             /\ UNCHANGED <<events, pendingEv>>
          \/ /\ fdOpen[op.fd]
             /\ pendingEv' = pendingEv + 1
             /\ events' = [events EXCEPT ![op.fd] = @ \cup {op.ev}]
             /\ io' = [io EXCEPT ![f] = "adding"]
             /\ UNCHANGED <<tmVars, pos, iotmr, tcancel>>
    /\ UNCHANGED <<tasks, fstate, pc, cur, stage, active, idleCnt, idleTerm,
                   stopFlag, mainPc, late, waiter, cbOf, pipe, fdOpen, ready,
                   capture, idlePh, trig>>

\* IOManager::addEvent(fd, ev, cb) called by the fiber's body (server.cpp,
\* test_io and watch_io_read in test.cpp), up to the event mask: the
\* MYASSERT, epoll_ctl (-1 on a closed fd), ++m_pendingEventCount, set ev.
IoWatch(t) ==
    /\ Running(t)
    /\ NextOp(t).kind = "watch"
    /\ io[cur[t]] = "none"
    /\ LET f == cur[t]
           op == NextOp(t)
       IN
       /\ op.ev \notin events[op.fd]
       /\ \/ /\ ~fdOpen[op.fd]
             /\ pos' = [pos EXCEPT ![f] = @ + 1]
             /\ UNCHANGED <<events, pendingEv, io>>
          \/ /\ fdOpen[op.fd]
             /\ pendingEv' = pendingEv + 1
             /\ events' = [events EXCEPT ![op.fd] = @ \cup {op.ev}]
             /\ io' = [io EXCEPT ![f] = "adding"]
             /\ UNCHANGED pos
    /\ UNCHANGED <<tasks, fstate, pc, cur, stage, active, idleCnt, idleTerm,
                   stopFlag, mainPc, late, tmVars, waiter, cbOf, pipe, fdOpen,
                   ready, iotmr, tcancel, capture, idlePh, trig>>

\* The rest of addEvent(): assert the event's context is empty, then
\* store cb and return 0, or, with no cb, store the running fiber.
IoAddCtx(t) ==
    /\ Running(t)
    /\ io[cur[t]] = "adding"
    /\ LET f == cur[t]
           op == NextOp(t)
       IN
       /\ waiter[op.fd][op.ev] = NoFiber /\ cbOf[op.fd][op.ev] = NoFiber
       /\ IF op.kind = "watch"
            THEN /\ cbOf' = [cbOf EXCEPT ![op.fd][op.ev] = op.cb]
                 /\ io' = [io EXCEPT ![f] = "none"]
                 /\ pos' = [pos EXCEPT ![f] = @ + 1]
                 /\ UNCHANGED waiter
            ELSE /\ waiter' = [waiter EXCEPT ![op.fd][op.ev] = f]
                 /\ io' = [io EXCEPT ![f] = "added"]
                 /\ UNCHANGED <<cbOf, pos>>
    /\ UNCHANGED <<tasks, fstate, pc, cur, stage, active, idleCnt, idleTerm,
                   stopFlag, mainPc, late, tmVars, events, pendingEv, pipe,
                   fdOpen, ready, iotmr, tcancel, capture, idlePh, trig>>

\* Fiber::GetThis()->yield() in do_io(): READY, then swapcontext().
IoWait(t) ==
    /\ Running(t)
    /\ io[cur[t]] = "added"
    /\ fstate' = [fstate EXCEPT ![cur[t]] = "READY"]
    /\ stage' = [stage EXCEPT ![t] = "yielding"]
    /\ io' = [io EXCEPT ![cur[t]] = "waiting"]
    /\ UNCHANGED <<tasks, pos, pc, cur, active, idleCnt, idleTerm, stopFlag,
                   mainPc, late, tmVars, events, waiter, cbOf, pendingEv, pipe,
                   fdOpen, ready, iotmr, tcancel, capture, idlePh, trig>>

\* What a woken call does when it did not time out: do_io() retries the
\* real call; connect_with_timeout() reads SO_ERROR and returns.
AfterWait(op) == IF op.retry THEN "retry" ELSE "return"

\* A resume that forgets timer->cancel().
IoResumeKeepTimer(t) ==
    /\ Running(t)
    /\ io[cur[t]] = "waiting"
    /\ LET f == cur[t] IN
       IF tcancel[f] \/ AfterWait(NextOp(t)) = "return"
         THEN IoReturn(f)
         ELSE /\ io' = [io EXCEPT ![f] = "retry"]
              /\ iotmr' = [iotmr EXCEPT ![f] = 0]
              /\ UNCHANGED <<pos, tcancel>>
    /\ UNCHANGED <<tasks, fstate, pc, cur, stage, active, idleCnt, idleTerm,
                   stopFlag, mainPc, late, tmVars, events, waiter, cbOf, pendingEv,
                   pipe, fdOpen, ready, capture, idlePh, trig>>

\* Back from yield(): cancel the timer; a timeout returns -1/ETIMEDOUT,
\* anything else retries the call (do_io) or returns (connect).
IoResume(t) ==
    /\ Running(t)
    /\ io[cur[t]] = "waiting"
    /\ LET f == cur[t] IN
       /\ TryCancel(iotmr[f])
       /\ IF tcancel[f] \/ AfterWait(NextOp(t)) = "return"
            THEN IoReturn(f)
            ELSE /\ io' = [io EXCEPT ![f] = "retry"]
                 /\ iotmr' = [iotmr EXCEPT ![f] = 0]
                 /\ UNCHANGED <<pos, tcancel>>
    /\ UNCHANGED <<tasks, fstate, pc, cur, stage, active, idleCnt, idleTerm,
                   stopFlag, mainPc, late, events, waiter, cbOf, pendingEv, pipe,
                   fdOpen, ready, capture, idlePh, trig>>

\* IOManager::delEvent(fd, ev) under the fd's mutex: false when ev is not
\* registered; otherwise epoll_ctl (MOD or DEL), --m_pendingEventCount,
\* clear ev and resetEventContext(), with nothing scheduled.
DelEvent(t) ==
    /\ Running(t)
    /\ NextOp(t).kind = "del"
    /\ LET op == NextOp(t) IN
       /\ ~Locked(t, op.fd)
       /\ IF op.ev \in events[op.fd]
            THEN /\ pendingEv' = pendingEv - 1
                 /\ events' = [events EXCEPT ![op.fd] = @ \ {op.ev}]
                 /\ waiter' = [waiter EXCEPT ![op.fd][op.ev] = NoFiber]
                 /\ cbOf' = [cbOf EXCEPT ![op.fd][op.ev] = NoFiber]
            ELSE UNCHANGED <<pendingEv, events, waiter, cbOf>>
    /\ pos' = [pos EXCEPT ![cur[t]] = @ + 1]
    /\ UNCHANGED <<tasks, fstate, pc, cur, stage, active, idleCnt, idleTerm,
                   stopFlag, mainPc, late, tmVars, pipe, fdOpen, ready, io,
                   iotmr, tcancel, capture, idlePh, trig>>

\* Hooked close(): a tracked fd has all its events triggered by
\* cancalAll(), then FdMgr drops it and the real close() runs (FinishOp).
IoClose(t) ==
    /\ Running(t)
    /\ NextOp(t).kind = "close"
    /\ trig[t] = <<>>
    /\ LET fd == NextOp(t).fd IN
       IF fdOpen[fd]
         THEN /\ trig' = [trig EXCEPT ![t] = <<Step(fd, "READ", "all")>>]
              /\ UNCHANGED <<pos, fdOpen>>
         ELSE /\ FinishOp(t)
              /\ UNCHANGED trig
    /\ UNCHANGED <<tasks, fstate, pc, cur, stage, active, idleCnt, idleTerm,
                   stopFlag, mainPc, late, tmVars, events, waiter, cbOf, pendingEv,
                   pipe, ready, io, iotmr, tcancel, capture, idlePh>>

\* Hooked sleep(): addTimer(ms, schedule(fiber)); the yield() that
\* follows is Scheduler's FiberYield.
IoSleep(t) ==
    /\ Running(t)
    /\ NextOp(t).kind = "sleep"
    /\ made # TimerIds
    /\ LET i == NewTimer IN
       /\ AddTimer(i, NextOp(t).ms, FALSE)
       /\ Tickle(IF AtFront(i, tnext') THEN 1 ELSE 0)
       /\ capture' = [capture EXCEPT ![i] =
            [kind |-> "wake", fib |-> cur[t], fd |-> NoFiber, ev |-> "none",
             call |-> 0]]
    /\ stage' = [stage EXCEPT ![t] = "queued"]
    /\ UNCHANGED <<tasks, fstate, pos, pc, cur, active, idleCnt, idleTerm,
                   stopFlag, mainPc, late, events, waiter, cbOf, pendingEv, fdOpen,
                   ready, io, iotmr, tcancel, idlePh, trig>>

\* The fiber do_io() call c captured is still in that call.
InCall(c) == io[c.fib] # "none" /\ pos[c.fib] = c.call

\* The callback of a timer run on a fresh fiber.  sleep's schedules the
\* sleeper.  do_io's runs through OnTimer: when the timer_info is alive
\* (weak_ptr::lock) and not yet cancelled it sets cancelled = ETIMEDOUT
\* and calls cancelEvent(fd, ev).
IoTimerCb(t) ==
    /\ Running(t)
    /\ NextOp(t).kind = "timercb"
    /\ trig[t] = <<>>
    /\ LET c == capture[NextOp(t).tmr] IN
       CASE c.kind = "wake" ->
              /\ ScheduleAll(<<FiberTask(c.fib)>>)
              /\ pos' = [pos EXCEPT ![cur[t]] = @ + 1]
              /\ UNCHANGED <<tcancel, trig>>
         [] InCall(c) /\ ~tcancel[c.fib] ->
              /\ tcancel' = [tcancel EXCEPT ![c.fib] = TRUE]
              /\ trig' = [trig EXCEPT ![t] = <<Step(c.fd, c.ev, "cancel")>>]
              /\ UNCHANGED <<pos, tasks, pipe>>
         [] OTHER ->
              /\ pos' = [pos EXCEPT ![cur[t]] = @ + 1]
              /\ UNCHANGED <<tasks, pipe, tcancel, trig>>
    /\ UNCHANGED <<fstate, pc, cur, stage, active, idleCnt, idleTerm,
                   stopFlag, mainPc, late, tmVars, events, waiter, cbOf, pendingEv,
                   fdOpen, ready, io, iotmr, capture, idlePh>>

-----------------------------------------------------------------------------
(* The environment                                                         *)

\* The peer of a socket sends (or makes room): the call would not block.
Arrive ==
    \E fd \in DataFds, ev \in Events :
        /\ fdOpen[fd]
        /\ <<fd, ev>> \notin ready
        /\ ready' = ready \cup {<<fd, ev>>}
        /\ UNCHANGED <<schedVars, tmVars, events, waiter, cbOf, pendingEv, pipe,
                       fdOpen, io, iotmr, tcancel, capture, idlePh, trig>>

\* The clock advances while a timer is still to fall due.
ClockTick ==
    /\ \E i \in timers : tnext[i] > now
    /\ now' = now + 1
    /\ UNCHANGED <<prevTime, timers, made, tnext, tms, hasCb, rec, tickled,
                   pending, cancelOk, jumps, lastList, schedVars, ioVars>>

-----------------------------------------------------------------------------
IoThreadStep(t) ==
    \/ IoRunTask(t) \/ IoNoTask(t) \/ IoFiberSchedule(t)
    \/ IoQuiet(FiberYield(t)) \/ IoQuiet(FiberReturn(t))
    \/ IoQuiet(SwitchBack(t))
    \/ IoIdleCheck(t) \/ IoIdleTimers(t)
    \/ IoCall(t) \/ IoAddEvent(t) \/ IoWatch(t) \/ IoAddCtx(t) \/ IoWait(t) \/ IoResume(t)
    \/ DelEvent(t) \/ IoClose(t) \/ IoSleep(t) \/ IoTimerCb(t) \/ TrigStep(t)

\* The IOManager constructor calls start(); ~IOManager() calls stop().
IoMainStep == IoQuiet(Start) \/ IoMainSchedule \/ IoStop \/ IoQuiet(Join)

IoNext ==
    \/ IoMainStep
    \/ IoQuiet(Done)
    \/ \E t \in Threads : IoThreadStep(t)
    \/ Arrive
    \/ ClockTick

\* Threads are preemptive OS threads and the clock runs; a peer is under
\* no obligation to send.
IoFairness ==
    /\ WF_vars(IoMainStep)
    /\ \A t \in Threads : WF_vars(IoThreadStep(t))
    /\ WF_vars(ClockTick)

IoSpec == IoInit /\ [][IoNext]_vars /\ IoFairness

-----------------------------------------------------------------------------
(* Properties                                                              *)

\* Types, plus the two counters staying natural numbers.
IoTypeOK ==
    /\ TypeOK
    /\ events \in [Fds -> SUBSET Events]
    /\ waiter \in [Fds -> [Events -> Fibers \cup {NoFiber}]]
    /\ cbOf \in [Fds -> [Events -> Fibers \cup {NoFiber}]]
    /\ pendingEv \in Nat
    /\ pipe \in 0..PipeCap
    /\ fdOpen \in [Fds -> BOOLEAN]
    /\ ready \subseteq Fds \X Events
    /\ io \in [Fibers -> {"none", "armed", "adding", "added", "waiting",
                          "retry"}]
    /\ iotmr \in [Fibers -> TimerIds \cup {0}]
    /\ tcancel \in [Fibers -> BOOLEAN]
    /\ idlePh \in [Threads -> {"check", "timers"}]
    /\ trig \in [Threads -> Seq([fd : Fds, ev : Events,
                                 ph : {"cancel", "all", "check", "reset"}])]

\* The triggers that have cleared their event and not yet decremented
\* m_pendingEventCount: the "reset" steps some thread has still to take.
Resets == UNION {{<<u, k>> : k \in {j \in DOMAIN trig[u] : trig[u][j].ph = "reset"}}
                 : u \in Threads}

\* A reset of the context of (fd, ev) is still to come.
Resetting(fd, ev) == \E r \in Resets : trig[r[1]][r[2]].fd = fd /\ trig[r[1]][r[2]].ev = ev

\* m_pendingEventCount equals the number of registered (fd, event) pairs
\* (spec, section 8, invariant 5), once the triggers in progress have
\* decremented: addEvent, cancelEvent and cancalAll each keep the count
\* and the masks in step.
PendingMatches ==
    pendingEv = Cardinality({p \in Fds \X Events : p[2] \in events[p[1]]})
                + Cardinality(Resets)

\* The MYASSERT and assert of addEvent() hold when it runs: the event is
\* not registered yet, and its context holds no continuation.  A context
\* left behind by a trigger, or set after one, would abort the program.
AddEventAsserts ==
    \A t \in Threads :
        Running(t) =>
            LET f == cur[t]
                op == NextOp(t)
            IN  /\ io[f] = "armed" \/ (op.kind = "watch" /\ io[f] = "none")
                     => op.ev \notin events[op.fd]
                /\ io[f] = "adding" => /\ waiter[op.fd][op.ev] = NoFiber
                                       /\ cbOf[op.fd][op.ev] = NoFiber

\* A continuation is stored only for a registered event (or one whose
\* trigger has still to reset it): once the event fires or is cancelled
\* nobody is left waiting on a context that cannot fire again.
RegistrationConsistent ==
    \A fd \in Fds, ev \in Events :
        (waiter[fd][ev] # NoFiber \/ cbOf[fd][ev] # NoFiber) /\ ~Resetting(fd, ev)
            => ev \in events[fd]

\* A hooked call that returns leaves nothing of itself behind: no armed
\* timer whose callback would later cancelEvent() an fd another call may
\* be using (do_io and connect cancel their timer after the wait; the
\* weak_ptr only guards a timer_info that is gone), and no event context
\* that still holds the fiber.
CallLeavesNoTrace ==
    [][\A f \in Fibers :
         (io[f] # "none" /\ io'[f] = "none") =>
            /\ \A i \in timers' : ~(capture'[i].fib = f /\ capture'[i].call = pos[f])
            /\ \A fd \in Fds, ev \in Events : waiter'[fd][ev] # f]_vars

\* Every hooked call returns: a do_io() wait ends by its timeout, by a
\* close() of the fd, or by the event.
IoReturns == \A f \in Fibers : io[f] # "none" ~> io[f] = "none"

\* A fiber waiting in do_io() for an event that has become ready is
\* resumed (the idle fiber's epoll_wait sees the fd and triggers it).
WaitKey(f) == <<Prog[f][pos[f]].fd, Prog[f][pos[f]].ev>>

ReadyWaiterResumes ==
    \A f \in Fibers :
        (io[f] = "waiting" /\ WaitKey(f) \in ready) ~> io[f] # "waiting"

\* The fiber a registration resumes: the caller of do_io(), or the fiber
\* the thunk of addEvent(fd, ev, cb) runs on.
Registrant(f) == IF Prog[f][pos[f]].kind = "watch" THEN Prog[f][pos[f]].cb ELSE f

\* The registration the event table holds for (fd, ev): the continuation
\* stored in the context, or that of a call between the two halves of
\* addEvent().
Owner(fd, ev) ==
    LET adding == {f \in Fibers : io[f] = "adding" /\ WaitKey(f) = <<fd, ev>>}
    IN  CASE waiter[fd][ev] # NoFiber -> waiter[fd][ev]
          [] cbOf[fd][ev] # NoFiber -> cbOf[fd][ev]
          [] adding # {} -> Registrant(CHOOSE f \in adding : TRUE)
          [] OTHER -> NoFiber

RegOf == [fd \in Fds |-> [ev \in Events |->
            IF ev \in events[fd] THEN Owner(fd, ev) ELSE NoFiber]]

\* The fibers of the callbacks programs pass to addEvent().
Callbacks == UNION {{Prog[f][k].cb : k \in {j \in DOMAIN Prog[f] :
                                                 Prog[f][j].kind = "watch"}}
                    : f \in Fibers}

\* Fibers waiting in do_io() that a trigger has put back in the queue, or
\* that a thread has already resumed; callbacks a trigger has queued.
Woken == {f \in Fibers :
            \/ /\ io[f] = "waiting"
               /\ \/ InQueue(f)
                  \/ \E t \in Threads : cur[t] = f /\ pc[t] = "fiber" /\ stage[t] = "body"}
          \cup {g \in Callbacks : InQueue(g)}

OneShot == INSTANCE OneShotEvents WITH reg <- RegOf, woken <- Woken

\* IOManager's registration implements OneShotEvents: addEvent registers
\* one fiber per (fd, event), triggerEvent (from cancelEvent, cancalAll)
\* makes exactly that fiber runnable once and clears the registration,
\* delEvent clears it without waking anyone, and do_io() resumes the
\* fiber; no trigger is lost and no fiber is woken that was not
\* registered.
EventsRefined == OneShot!Spec

====
