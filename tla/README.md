# TLA+ models of MyCoroutine

This directory holds TLA+ models of the M:N coroutine runtime in `src/`. The
models are checked with TLC. Every module is written from the C++ source.
`PROJECT.json` lists the components, the runs, the mutants and the map from
each TLA+ definition to the lines it models. It also lists the findings and the
hazards.

## 1. The system

| Part | Source | State | Operations |
|---|---|---|---|
| Fiber | `Fiber.cpp/.h` | `m_state` (READY, RUNNING, TERM), `m_ctx`, the stack, thread-locals `t_fiber`, `t_thread_fiber` | constructor, `resume`, `yield`, `MainFunc`, `reset` |
| Scheduler | `Scheduler.cpp/.h` | `m_tasks` (a list of fiber-or-callback tasks with a thread affinity), `m_activeThreadCount`, `m_idleThreadCount`, `m_stopping`, the threads, the caller's `m_rootFiber` | `start`, `schedule`, `run` (the dispatch loop), `idle`, `tickle`, `stopping`, `stop` |
| TimerManager | `Timer.cpp/.h` | `m_timers` (a set ordered by deadline, then address), `m_tickled`, `m_previouseTime`; per timer `m_next`, `m_ms`, `m_cb`, `m_recurring` | `addTimer`, `addConditionTimer`, `getNextTimer`, `listExpiredCb`, `detectClockRollover`, `Timer::cancel/refresh/reset` |
| IOManager | `IOManager.cpp/.h` | the epoll fd, the tickle pipe, `m_fdContexts` (per fd: the event mask and per-event continuation, a mutex), `m_pendingEventCount` | `addEvent`, `delEvent`, `cancelEvent`, `cancalAll`, `triggerEvent`, `tickle`, `stopping`, `idle`, `onTimerInsertedAtFront` |
| FdManager | `FdManager.cpp/.h` | per fd: is socket, system and user non-blocking flags, receive and send timeouts | `FdCtx::init`, `setTimeout`, `getTimeout`, `FdManager::get`, `del` |
| Hooks | `Hook.cpp/.h` | thread-local `t_hook_enable` | `do_io` (read, write, recv, send, accept and the rest), `sleep`, `socket`, `connect_with_timeout`, `close`, `fcntl`, `ioctl`, `setsockopt` |
| Singleton | `Singleton.h` | a function-local static | `GetInstance` |
| Programs | `server.cpp`, `test.cpp` | | the echo server, the tests |

How the parts interact:

- A worker thread runs `Scheduler::run`. Under `m_mutex` it takes the first task it may run and resumes that task's fiber. A callback task is run on a fresh fiber.
- With no task, the thread resumes its idle fiber. `IOManager` overrides `idle`. Its idle fiber takes the expired timers from `TimerManager` and schedules their callbacks. In the code it never calls `epoll_wait` (see findings).
- A hooked blocking call (`do_io`) works in three steps:
  1. it arms a condition timer;
  2. it registers the running fiber as the continuation of an fd event (`addEvent`);
  3. it yields.
- The fiber runs again when the event is triggered: by the timer's `cancelEvent`, by `close`'s `cancalAll`, or (in the design) by epoll.

Hard behaviours:
- workers run in parallel and share the queue;
- a fiber switches out in two steps: it changes its state, then `swapcontext` saves its context;
- timer callbacks are handed out under a lock and run later on any thread;
- `addEvent` runs without the fd mutex that `cancelEvent` and `cancalAll` take;
- the wall clock may move back;
- `stop` must wait until the queue, the timers and the pending events are all done.

## 2. Modules and what they model

### Scheduler.tla (with MCScheduler.tla)

**State.** The module models the dispatch loop of `Scheduler::run` with the fiber life cycle it drives:
- `tasks` is `m_tasks`; `fstate` is each fiber's `m_state`.
- `pc[t]` is where thread `t` is: parked, scanning, in a fiber, in the idle fiber, or exited.
- `stage[t]` is where the fiber on `t` is: running its body, queued itself, or inside `yield()` after the state change.
- `active` and `idleCnt` are the two atomic counters. `idleTerm` says an idle fiber is TERM.
- `stopFlag` is `m_stopping`. `mainPc` is the main thread.

**Fiber bodies.** A fiber's body is a program `Prog[f]` of scheduler calls:
- `yield` is `schedule(GetThis(), thr)` followed by `yield()`, the pattern of test_fiber1;
- `spawn` is `schedule(cb, thr)`, the pattern of test_fiber4.

**Actions.**
- `RunTask` and `NoTask` are one pass of the scan.
- `BaseIdle` is one iteration of `Scheduler::idle`.
- `FiberSchedule`, `FiberYield`, `FiberReturn` and `SwitchBack` are the fiber's side.
- `Start`, `MainSchedule`, `Stop` and `Join` are the main thread.
- With `use_caller`, the caller thread enters the loop only in `Stop`, through `m_rootFiber`.

### TimerManager.tla (with MCTimerManager.tla)

**State.** The timer set, the `m_tickled` latch and `m_previouseTime`. A timer's number stands for its address, the tie-break of the set's order. Per timer: `tnext`, `tms`, `hasCb` (`m_cb` is not null) and `rec`.

**Actions.** One action per operation: `AddTimer`, `Cancel`, `Refresh`, `Reset`, `GetNextTimer` and `ListExpiredCb`.

**Environment.** The clock ticks and may jump back by any amount (`JumpBack`, at most `MaxJumps` times).

**History variables.** `pending` counts callbacks handed out and not yet run; `RunCallback` runs one. `cancelOk` remembers that `cancel()` returned true. `lastList` is the clock at the latest `listExpiredCb()` call, so that a rollover can be judged against the time the spec says `m_previouseTime` holds.

`ListExpiredCb` has two disjuncts: `ListEmpty`, the early return on an empty set (line 115), which leaves `m_previouseTime` alone, and the call that runs `detectClockRollover` and takes the expired timers.

### IOManager.tla (with MCIOManager.tla)

**Composition.** It EXTENDS Scheduler and TimerManager, like `class IOManager : public Scheduler, public TimerManager`. The module wraps each scheduler step (`IoRunTask`, `IoNoTask`, `IoFiberSchedule`, `IoMainSchedule`, `IoStop`) so that its `tickle()` calls write to the self-pipe.

**State.**
- `events[fd]` is `FdContext::events`; `waiter[fd][ev]` and `cbOf[fd][ev]` are the event context's `fiber` and `cb` (a callback is named by the fiber its thunk runs on); `pendingEv` is `m_pendingEventCount`.
- `pipe` counts bytes in the tickle pipe; `PipeCap` bounds it (a blocking `write` on a full pipe never returns).
- `fdOpen` and `ready` are the environment: whether the fd is still open, and which (fd, event) would not block now.
- `io[f]` is where fiber `f` is inside `do_io`: none, armed (timer set), adding (event registered, context not yet stored), waiting or resumed.
- `iotmr[f]` is its condition timer; `tcancel[f]` is `timer_info::cancelled`; `capture[i]` is what timer `i`'s lambda captured.
- `idlePh[t]` is the step of the `IOManager::idle` loop.

**Fiber bodies.** Besides `yield` and `spawn`, a program has `read(fd)`, `write(fd)`, `connect(fd, timeout)`, `watch(fd, ev, cb)` (`addEvent` with a callback), `del(fd, ev)` (`delEvent`), `close(fd)` and `sleep(ms)`, and a timer callback fiber runs `timercb`. `Read` stands for every hooked read (`read`, `readv`, `recv`, `recvfrom`, `recvmsg`: the same `do_io` on READ), `Write` for every hooked write (`write`, `writev`, `send`, `sendto`, `sendmsg`) and `Accept` for `accept`. None of them arms a timer: `do_io` takes its timeout from the `FdCtx` that `FdMgr->get(fd)` has just rebuilt (FdManager.cpp:89-113), whose timeouts are always -1, so only `connect` (`s_connect_timeout`, 3000 ms) and `sleep` set timers. `IoCall` still models `do_io`'s timer branch, which no program reaches. A read and a connect are the same wait (`connect_with_timeout` waits on WRITE like `do_io`); they differ in `AfterWait`: woken without a timeout, `do_io` retries the real call and `connect` reads `SO_ERROR` and returns.

**Actions.**
- `IoIdleCheck` is `stopping(next_timeout)`; `IoIdleTimers` is `listExpiredCb`, one `schedule(cb)` per callback and the `yield` back to `run()`. No epoll step exists, because `epoll_wait` is commented out in the code.
- `cancelEvent` and `cancalAll` hold the fd's mutex across several steps, and `triggerEvent` schedules the fiber before it resets the context, so a call is a short program kept in `trig[t]`: `CancelEvent` and `CancelAll` take the mutex (no other thread `Holds` it) and run the first `Fire` (clear the bit, `schedule`); `ResetCtx` is `resetEventContext` with the `--m_pendingEventCount` that follows; `CheckWrite` is `cancalAll`'s second `if(events & WRITE)`. `TrigStep` runs the head of the program; the last step finishes the caller (`close()` then closes the fd).
- `addEvent` runs without that mutex, so it is two actions: `IoAddEvent` (assert, `epoll_ctl`, `++m_pendingEventCount`, `events |=`) and `IoAddCtx` (assert an empty context, store the fiber). `IoWatch` is the first half of `addEvent(fd, ev, cb)`; its second half is `IoAddCtx`'s `if(cb)` branch, which stores the callback and returns 0. `Fire` schedules `cb` when it is set (`CtxTask`), else the fiber.
- `DelEvent` is `delEvent` under the fd's mutex: when the event is registered it decrements `m_pendingEventCount`, clears the bit and resets the context (fiber and callback); otherwise it returns false and changes nothing. It does not trigger anything, so a fiber waiting on the event stays suspended. Because `addEvent` takes no fd mutex, `DelEvent` may run between its two halves.
- `do_io` and `connect_with_timeout` are `IoCall` (EBADF on a closed fd, the attempt, the condition timer), `IoAddEvent`/`IoAddCtx`, `IoWait` (the yield) and `IoResume` (cancel the timer, then ETIMEDOUT, retry or return).
- `IoClose` is the hooked `close()`; `IoSleep` is the hooked `sleep()`; `IoTimerCb` runs a timer callback (`OnTimer`'s weak_ptr test, then the do_io lambda or sleep's `schedule`).
- `Arrive` (a peer makes the fd ready) and `ClockTick` are the environment.

**Refinement.** `OneShotEvents.tla` is the contract of event registration, written from spec sections 4.3 and 8: a fiber registers one (fd, event); at most one fiber is registered per pair; firing clears the registration and makes exactly that fiber runnable once; the fiber then resumes. `Unregister` is `delEvent`: the registration is dropped and nobody is woken. `IOManager.tla` instantiates it with the mapping `reg <- RegOf` (the fiber stored in the context of a registered event, or the fiber between the halves of `addEvent`) and `woken <- Woken` (a waiting fiber that is queued or already running its body, or a fired callback still queued); while `addEvent(fd, ev, cb)` is between its halves the registration is already the callback's, and checks `EventsRefined == OneShot!Spec`.

### FdManager.tla (with MCFdManager.tla) and FdView.tla

**State.** `slot[fd]` is `m_datas[fd]` (`NoCtx` for a null pointer): an `FdCtx` as a record of `m_isSocket`, `m_sysNoBlock`, `m_userNoBlock` and the two timeouts. `size` is `m_datas.size()`. `kopen`, `ksock` and `knb` are the kernel's state of each descriptor (open, a socket, `O_NONBLOCK`). `ret` is what the last hooked call returned, abstracted to its kind (`ok`, `ebadf`, the flags `F_GETFL` reports, and for a read or write with no data: `nonblock`, `block` the thread, or `wait` as a fiber with a timeout).

**Helpers.** `NewCtx` is the `FdCtx` constructor with `init()` (fstat decides "socket"; `CtorKnb` is the `fcntl` that forces `O_NONBLOCK` on a socket). `Got(fd)` is `FdManager::get(fd)`: null past the end of the table, otherwise, because the test for an existing entry sits in the out-of-range branch, a new context. `Store` writes it back. `ToMs` is `setsockopt`'s `tv_sec * 1000 + tv_usec / 1000`.

**Actions.** One per hooked call, each a whole call: `Socket` (`socket_f` and `get(fd, true)`, including the read past the end and the resize to `fd * 1.5`; the undefined read is a choice between null and garbage), `SetFl` and `GetFl` (`fcntl` F_SETFL/F_GETFL), `Ioctl` (FIONBIO), `SetSockOpt` (SO_RCVTIMEO/SO_SNDTIMEO), `Close` (`del` and the real close) and `DoIo` (which path `do_io` takes when there is no data). `OpenFile` is an unhooked `open` of a regular file, so descriptor numbers are reused across kinds.

**Refinement.** `FdView.tla` is what the hooks promise a program (spec sections 4.5, 4.6 and 8): the `O_NONBLOCK` it set is the one `F_GETFL` reports, and a read or write on a socket it left blocking waits as a fiber with the timeout it set. `FdManager.tla` maps its state onto it (`nb` is the user flag of a socket's context, else the kernel flag; `rto`/`sto` are the stored timeouts) and checks `ViewRefined == View!Spec`.

## 3. Runs

| Run | Expect | What it shows |
|---|---|---|
| scheduler_pinned | pass | Two workers plus the caller. A fiber runs test_fiber1's schedule-then-yield with the thread's affinity and then schedules a callback pinned to its thread, as test_fiber4 does. No fiber runs on two threads, and `stop()` returns. |
| scheduler_self_any | violation | test_fiber1 (spec scenario 1): a fiber schedules itself with no affinity, then yields. A second worker takes it after `m_state = READY` and before `swapcontext`, so two threads execute the fiber. |
| timers_oneshot | pass | One-shot timers with add, cancel, refresh and reset, and a clock that may jump back once. A timer whose `cancel()` returned true never fires; every timer that falls due is handed out; every timer in the set still has its callback. |
| timers_recurring_cancel | violation | A recurring timer is handed out and re-armed. `cancel()` then returns true, and the handed-out callback still runs. This contradicts spec invariant 4. |
| timers_rollover | violation | `listExpiredCb()` on an empty set leaves `m_previouseTime` at an older, later time. After the clock steps back, a timer added later is fired at once as a rollover, though the clock has not gone back an hour since the last call (spec 4.4: previous_time is always updated). |
| io_single | pass | The default `IOManager` (one thread, use_caller): a read woken by `close()`, a connect that either times out or is woken by `close()`, then a write on the same fd that registers WRITE again after the timer's `cancelEvent` reset its context, a read racing the same `close()`, a sleep, server.cpp's `test_IOmanager`, which also adds a WRITE callback and drops it with `delEvent`, and its `test_accept` callback, which a `close()` of the listening socket runs and which re-registers through `schedule(watch_io_read)` (that `addEvent` fails on the closed fd). The pending count equals the registered events, `addEvent`'s asserts hold, every hooked call returns and leaves no armed timer or stored continuation behind (`CallLeavesNoTrace`), the event table refines `OneShotEvents`, and `stop()` returns. |
| io_timeout_race | violation | Spec scenario 5 (connect timeout) on two workers: `connect`'s timer fires on the other worker before the WRITE event is registered, cancels nothing, and the connect never returns. |
| io_stale_ctx | violation | `close()` on another worker runs between the two halves of `addEvent`, leaving a fiber in the context of an unregistered event. |
| io_no_epoll | violation | With `epoll_wait` disabled, a reader with no timeout is never resumed when data arrives. |
| io_trigger_race | violation | `close()` on one worker runs `cancalAll`, whose trigger schedules the reader before `resetEventContext`. The reader runs on the other worker, its `goto retry` finds the fd still open (the real close comes later) and `addEvent` finds the old fiber still in the context (`AddEventAsserts`). |
| fd_hooks | pass | Any sequence of hooked calls on three fds with a table of two entries: a hooked read or write never blocks the worker thread on a socket the table covers (`NoThreadBlock`, even after `ioctl(FIONBIO, 0)`), and a stored `FdCtx` always describes the descriptor that now has its number (`CtxNotStale`). |
| fd_view_refinement | violation | FdManager does not implement FdView: `socket`, `fcntl(F_SETFL, O_NONBLOCK)`, then `F_GETFL` reports the socket blocking, because `get()` rebuilt the context. |

**Bounds.**
- Scheduler: two workers and a caller are enough for the yield-window race and for pinned tasks skipped by another thread. Four fibers cover a self-rescheduling fiber, a spawned callback, a callback scheduled before `start()` and one scheduled after it.
- IOManager: two socket fds for the waits (one a data fd that data may reach) and, in io_single, a third for the callback registration, four timer ids (more than any program arms: io_single arms at most two, the connect's and the sleep's), periods of 1 and 2 ticks (the connect timer is shorter than fc's sleep, so the connect can time out before `close(s2)`; a clock tick between the two arms makes them fall due together; io_single reaches both a connect that times out and one that `close(s2)` wakes), no clock jump (the timer model covers rollover). One thread is the configuration of `test.cpp`; two workers are the least that shows each race. `PipeCap` is above the largest pipe TLC reaches (2 in io_single), so no behaviour is cut off by it.
- FdManager: three fds and a table of two entries, so the third socket is past the end of the table and takes both outcomes of `get()`'s undefined read, and a number is reused after `close()` for a socket or a regular file. Two timevals (1 s and 1 ms) give two distinct timeouts, enough to tell a lost timeout from a kept one.
- Timers: two timers, so the address tie-break of the order matters. The periods are 1 and 2. The clock runs to 4, so a timer can expire, be refreshed and expire again. `Hour = 1` makes a single jump back count as a rollover.

**Fairness.** Worker threads are OS threads, so each gets weak fairness on its own steps, and so does the main thread. The timer model assumes that `listExpiredCb` is called again and again (the idle fiber loops) and that the clock advances.

In IOManager, each thread and the main thread get weak fairness, and so does `ClockTick` (time passes while a timer is pending). `Arrive` has no fairness: a peer need not ever send.

FdManager and FdView state safety only (invariants and the refinement's step condition), so they assume no fairness.

## 4. Plan

1. Done: Scheduler, TimerManager, IOManager with `addEvent` (with and without a callback), `delEvent`, `do_io`, `connect`, `accept`, `sleep` and `close`; FdManager with `socket`, `fcntl`, `ioctl`, `setsockopt`; the refinements to OneShotEvents and FdView.
2. Next: a property that `stop()` leaves no fiber suspended (spec section 8, invariant 6); composing FdManager's path decision into IOManager, so that a read on a non-socket or a user-non-blocking fd does not wait.
3. A passing configuration with two workers; the trigger race (io_trigger_race) and the addEvent races break the invariants there, so it needs the programs that avoid them.

## 5. Findings

`PROJECT.json` lists each finding with its run:
- `Fiber::yield` marks the fiber READY before saving its context (scheduler_self_any). In IOManager a `close()` or connect timeout on a second worker reaches the same window; no IOManager run lists `NoFiberOnTwoThreads`;
- a recurring timer's callback runs after `cancel()` returned true;
- `epoll_wait` is commented out (io_no_epoll); as a consequence nothing ever reads the tickle pipe;
- the connect timeout and `close()` race `addEvent`, which runs without the fd's mutex (io_timeout_race, io_stale_ctx). The same race is why `EventsRefined` holds in io_single but not with two workers;
- `FdManager::get` rebuilds the context of every fd in the table, so the user's non-blocking flag and timeouts are lost (fd_view_refinement); in particular no hooked read or write ever times out;
- `listExpiredCb()` returns on an empty set before it records the time, so a later clock step back is misjudged as a rollover (timers_rollover);
- `triggerEvent()` schedules the fiber before it resets the event context, so a read woken by `close()` and retried on another worker trips `addEvent`'s assert (io_trigger_race).

Hazards without a run of their own are listed in `PROJECT.json` with a note: `reset(ms, false)` never moves the deadline (a one-statement bug a unit test shows); `get(fd, true)` reads `m_datas[fd]` past the end before resizing.

## 6. Not modelled

- Stacks, `ucontext` and `Fiber::reset`: `run()` resets `cb_fiber` after every callback, so the reset path is never taken.
- `server.cpp`'s `main` and echo loop and the Redis client in `test.cpp`: socket I/O. That `main` builds the default `IOManager` (no worker) and never calls `stop()`, so its task never runs, is visible in the code and listed as a hazard.
- `contextResize` (layout; its `fd + fd > 1` bug is listed as a hazard).
- FdManager's reader-writer lock and the data race on `FdCtx`'s bit-fields: the model makes one hooked call at a time. `m_isClosed` is never set, so the `isClose()` branches of the hooks are dead and left out.
- The `fcntl` commands other than F_SETFL/F_GETFL and `getsockopt`: they go straight to the system call.
- `Singleton.h`: its initialisation is thread-safe by the language.
