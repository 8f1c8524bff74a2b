----------------------------- MODULE Scheduler -----------------------------
(***************************************************************************)
(* The N-M fiber scheduler of src/Scheduler.cpp together with the fiber    *)
(* lifecycle of src/Fiber.cpp that the dispatch loop drives.               *)
(*                                                                         *)
(* Every worker thread runs Scheduler::run(): under m_mutex it scans       *)
(* m_tasks for the first task whose thread affinity is ANY or itself and   *)
(* whose fiber is not RUNNING, removes it and resumes it; with no task it  *)
(* resumes its idle fiber, and it leaves the loop once the idle fiber is   *)
(* TERM.  A fiber runs its callback, modelled as a program of scheduler    *)
(* calls: "yield" is schedule(Fiber::GetThis(), thr) followed by yield(),  *)
(* "spawn" is schedule(cb, thr) of a thunk, run on a fresh fiber.          *)
(*                                                                         *)
(* Fiber::yield() sets m_state and only then swapcontext() saves the       *)
(* fiber's registers; a thread in stage "yielding" is still executing on   *)
(* the fiber's stack.  The main thread constructs, start()s, schedule()s   *)
(* and stop()s the scheduler; with use_caller it is also the Caller        *)
(* worker, whose dispatch fiber only runs inside stop().                   *)
(***************************************************************************)
EXTENDS Integers, Sequences, SequencesExt, FiniteSets

CONSTANTS
    Workers,     \* threads created by start()
    UseCaller,   \* constructor flag use_caller
    Caller,      \* the caller thread, a worker when UseCaller
    Fibers,      \* fibers, including those created for thunks
    Prog,        \* Prog[f]: the calls made by f's callback, in order
    InitTasks,   \* tasks scheduled by main before start()
    LateTasks,   \* tasks scheduled by main after start(), before stop()
    ANY,         \* std::thread::id(-1): no thread affinity
    NoFiber      \* no fiber

Threads == Workers \cup (IF UseCaller THEN {Caller} ELSE {})

Affinity == Threads \cup {ANY}

\* ScheduleTask: a fiber, or a thunk (cb) that run() wraps in fiber fib.
Task == [fib : Fibers, cb : BOOLEAN, thr : Affinity]

\* The scheduler calls of a fiber body (Prog[f] is a sequence of them);
\* modules that extend this one add calls of their own.
Op == [kind : {"yield"}, pin : BOOLEAN]
        \cup [kind : {"spawn"}, fib : Fibers, pin : BOOLEAN]

ASSUME /\ Caller \notin Workers
       /\ Threads # {}
       /\ InitTasks \in Seq(Task) /\ LateTasks \in Seq(Task)

VARIABLES
    tasks,     \* m_tasks
    fstate,    \* Fiber::m_state of every fiber
    pos,       \* index in Prog[f] of the next call f's callback makes
    pc,        \* per thread: "parked", "sched", "fiber", "idle", "exited"
    cur,       \* per thread: the fiber it resumed (t_fiber)
    stage,     \* per thread in "fiber": "body", "queued", "yielding"
    active,    \* m_activeThreadCount
    idleCnt,   \* m_idleThreadCount
    idleTerm,  \* per thread: its idle fiber is TERM
    stopFlag,  \* m_stopping
    mainPc,    \* main thread: "init", "started", "stopping", "done"
    late       \* next index into LateTasks

schedVars == <<tasks, fstate, pos, pc, cur, stage, active, idleCnt,
               idleTerm, stopFlag, mainPc, late>>

-----------------------------------------------------------------------------
(* Helpers                                                                 *)

\* The affinity a call passes: std::this_thread::get_id() when pinned.
AffinityOf(t, pin) == IF pin THEN t ELSE ANY

\* Scheduler::stopping()
Stopping == stopFlag /\ tasks = <<>> /\ active = 0

\* A scan that ignores thread affinity.
RunnableNoAffinity(t, task) == ~(~task.cb /\ fstate[task.fib] = "RUNNING")

\* The scan in run(): skip tasks for other threads and RUNNING fibers.
Runnable(t, task) ==
    /\ task.thr \in {ANY, t}
    /\ ~(~task.cb /\ fstate[task.fib] = "RUNNING")

Pick(t) == SelectInSeq(tasks, LAMBDA task : Runnable(t, task))

\* The next call the callback of the fiber running on t makes.
NextOp(t) == Prog[cur[t]][pos[cur[t]]]

AtEnd(t) == pos[cur[t]] > Len(Prog[cur[t]])

-----------------------------------------------------------------------------
Init ==
    /\ tasks = InitTasks
    /\ fstate = [f \in Fibers |-> "READY"]
    /\ pos = [f \in Fibers |-> 1]
    /\ pc = [t \in Threads |-> "parked"]
    /\ cur = [t \in Threads |-> NoFiber]
    /\ stage = [t \in Threads |-> "none"]
    /\ active = 0
    /\ idleCnt = 0
    /\ idleTerm = [t \in Threads |-> FALSE]
    /\ stopFlag = FALSE
    /\ mainPc = "init"
    /\ late = 1

-----------------------------------------------------------------------------
(* The dispatch loop, Scheduler::run()                                     *)

\* A task is found: it is removed, m_activeThreadCount is incremented and
\* its fiber (or a new fiber for the thunk) is resumed: Fiber::resume()
\* sets t_fiber and m_state = RUNNING before switching to it.
RunTask(t) ==
    /\ pc[t] = "sched"
    /\ Pick(t) # 0
    /\ LET task == tasks[Pick(t)] IN
         /\ tasks' = RemoveAt(tasks, Pick(t))
         /\ active' = active + 1
         /\ cur' = [cur EXCEPT ![t] = task.fib]
         /\ fstate' = [fstate EXCEPT ![task.fib] = "RUNNING"]
         /\ pc' = [pc EXCEPT ![t] = "fiber"]
         /\ stage' = [stage EXCEPT ![t] = "body"]
    /\ UNCHANGED <<pos, idleCnt, idleTerm, stopFlag, mainPc, late>>

\* A loop that enters the idle fiber without counting it as idle.
NoTaskNoIdleCount(t) ==
    /\ pc[t] = "sched"
    /\ Pick(t) = 0
    /\ pc' = [pc EXCEPT ![t] = IF idleTerm[t] THEN "exited" ELSE "idle"]
    /\ UNCHANGED <<tasks, fstate, pos, cur, stage, active, idleCnt, idleTerm,
                   stopFlag, mainPc, late>>

\* No task for this thread: leave the loop if the idle fiber is TERM,
\* otherwise resume the idle fiber with m_idleThreadCount incremented.
NoTask(t) ==
    /\ pc[t] = "sched"
    /\ Pick(t) = 0
    /\ IF idleTerm[t]
         THEN /\ pc' = [pc EXCEPT ![t] = "exited"]
              /\ UNCHANGED idleCnt
         ELSE /\ pc' = [pc EXCEPT ![t] = "idle"]
              /\ idleCnt' = idleCnt + 1
    /\ UNCHANGED <<tasks, fstate, pos, cur, stage, active, idleTerm,
                   stopFlag, mainPc, late>>

\* An idle fiber that never returns.
BaseIdleNoTerm(t) ==
    /\ pc[t] = "idle"
    /\ idleCnt' = idleCnt - 1
    /\ pc' = [pc EXCEPT ![t] = "sched"]
    /\ UNCHANGED <<tasks, fstate, pos, cur, stage, active, idleTerm, stopFlag,
                   mainPc, late>>

\* Scheduler::idle(): one test of stopping(); the idle fiber either yields
\* back or returns and becomes TERM; run() decrements m_idleThreadCount.
BaseIdle(t) ==
    /\ pc[t] = "idle"
    /\ idleTerm' = [idleTerm EXCEPT ![t] = Stopping]
    /\ idleCnt' = idleCnt - 1
    /\ pc' = [pc EXCEPT ![t] = "sched"]
    /\ UNCHANGED <<tasks, fstate, pos, cur, stage, active, stopFlag,
                   mainPc, late>>

-----------------------------------------------------------------------------
(* The callback of the fiber running on thread t                           *)

\* schedule(fiber-or-cb, thr): push under m_mutex (tickle() is a no-op in
\* the base scheduler).  "yield" schedules the running fiber itself.
FiberSchedule(t) ==
    /\ pc[t] = "fiber"
    /\ stage[t] = "body"
    /\ ~AtEnd(t)
    /\ NextOp(t).kind \in {"yield", "spawn"}
    /\ LET op == NextOp(t) IN
         IF op.kind = "yield"
           THEN /\ tasks' = Append(tasks, [fib |-> cur[t], cb |-> FALSE,
                                           thr |-> AffinityOf(t, op.pin)])
                /\ stage' = [stage EXCEPT ![t] = "queued"]
                /\ UNCHANGED pos
           ELSE /\ tasks' = Append(tasks, [fib |-> op.fib, cb |-> TRUE,
                                           thr |-> AffinityOf(t, op.pin)])
                /\ pos' = [pos EXCEPT ![cur[t]] = @ + 1]
                /\ UNCHANGED stage
    /\ UNCHANGED <<fstate, pc, cur, active, idleCnt, idleTerm, stopFlag,
                   mainPc, late>>

\* Fiber::yield(): SetThis(main fiber) and m_state = READY; the
\* swapcontext() that saves the fiber's context is the next step.
FiberYield(t) ==
    /\ pc[t] = "fiber"
    /\ stage[t] = "queued"
    /\ fstate' = [fstate EXCEPT ![cur[t]] = "READY"]
    /\ pos' = [pos EXCEPT ![cur[t]] = @ + 1]
    /\ stage' = [stage EXCEPT ![t] = "yielding"]
    /\ UNCHANGED <<tasks, pc, cur, active, idleCnt, idleTerm, stopFlag,
                   mainPc, late>>

\* Fiber::MainFunc(): the callback returned, m_state = TERM, then yield().
FiberReturn(t) ==
    /\ pc[t] = "fiber"
    /\ stage[t] = "body"
    /\ AtEnd(t)
    /\ fstate' = [fstate EXCEPT ![cur[t]] = "TERM"]
    /\ stage' = [stage EXCEPT ![t] = "yielding"]
    /\ UNCHANGED <<tasks, pos, pc, cur, active, idleCnt, idleTerm, stopFlag,
                   mainPc, late>>

\* swapcontext() back to the dispatch fiber: resume() returns in run(),
\* which decrements m_activeThreadCount and drops the task.
SwitchBack(t) ==
    /\ pc[t] = "fiber"
    /\ stage[t] = "yielding"
    /\ active' = active - 1
    /\ pc' = [pc EXCEPT ![t] = "sched"]
    /\ cur' = [cur EXCEPT ![t] = NoFiber]
    /\ stage' = [stage EXCEPT ![t] = "none"]
    /\ UNCHANGED <<tasks, fstate, pos, idleCnt, idleTerm, stopFlag,
                   mainPc, late>>

-----------------------------------------------------------------------------
(* The main thread                                                         *)

\* Scheduler::start(): one thread per worker slot, each entering run().
Start ==
    /\ mainPc = "init"
    /\ ~stopFlag
    /\ pc' = [t \in Threads |-> IF t \in Workers THEN "sched" ELSE pc[t]]
    /\ mainPc' = "started"
    /\ UNCHANGED <<tasks, fstate, pos, cur, stage, active, idleCnt,
                   idleTerm, stopFlag, late>>

\* Scheduler::schedule() called by main between start() and stop().
MainSchedule ==
    /\ mainPc = "started"
    /\ late <= Len(LateTasks)
    /\ tasks' = Append(tasks, LateTasks[late])
    /\ late' = late + 1
    /\ UNCHANGED <<fstate, pos, pc, cur, stage, active, idleCnt, idleTerm,
                   stopFlag, mainPc>>

\* Scheduler::stop(): m_stopping = true; with use_caller the caller thread
\* resumes m_rootFiber and runs the dispatch loop itself.
Stop ==
    /\ mainPc = "started"
    /\ late > Len(LateTasks)
    /\ ~Stopping
    /\ stopFlag' = TRUE
    /\ pc' = IF UseCaller THEN [pc EXCEPT ![Caller] = "sched"] ELSE pc
    /\ mainPc' = "stopping"
    /\ UNCHANGED <<tasks, fstate, pos, cur, stage, active, idleCnt,
                   idleTerm, late>>

\* The rest of stop(): m_rootFiber has returned and every thread is joined.
Join ==
    /\ mainPc = "stopping"
    /\ \A t \in Threads : pc[t] = "exited"
    /\ mainPc' = "done"
    /\ UNCHANGED <<tasks, fstate, pos, pc, cur, stage, active, idleCnt,
                   idleTerm, stopFlag, late>>

\* stop() has returned: the program is over.
Done ==
    /\ mainPc = "done"
    /\ UNCHANGED schedVars

-----------------------------------------------------------------------------
\* Every step of thread t except those of its idle fiber.
DispatchStep(t) ==
    \/ RunTask(t) \/ NoTask(t)
    \/ FiberSchedule(t) \/ FiberYield(t) \/ FiberReturn(t) \/ SwitchBack(t)

MainStep == Start \/ MainSchedule \/ Stop \/ Join

ThreadStep(t) == DispatchStep(t) \/ BaseIdle(t)

Next == MainStep \/ Done \/ \E t \in Threads : ThreadStep(t)

\* Worker threads are OS threads, preemptively scheduled: none of them,
\* nor the main thread, stops taking steps while it can take one.
Fairness == WF_schedVars(MainStep) /\ \A t \in Threads : WF_schedVars(ThreadStep(t))

Spec == Init /\ [][Next]_schedVars /\ Fairness

-----------------------------------------------------------------------------
(* Properties                                                              *)

TypeOK ==
    /\ tasks \in Seq(Task)
    /\ fstate \in [Fibers -> {"READY", "RUNNING", "TERM"}]
    /\ pos \in [Fibers -> Nat]
    /\ pc \in [Threads -> {"parked", "sched", "fiber", "idle", "exited"}]
    /\ cur \in [Threads -> Fibers \cup {NoFiber}]
    /\ stage \in [Threads -> {"none", "body", "queued", "yielding"}]
    /\ active \in Nat /\ idleCnt \in Nat
    /\ idleTerm \in [Threads -> BOOLEAN]
    /\ stopFlag \in BOOLEAN
    /\ mainPc \in {"init", "started", "stopping", "done"}

\* A fiber has one stack: two threads never execute the same fiber at once.
\* This is what the RUNNING test in run()'s scan and Fiber::resume()'s
\* assertion are there to guarantee while a fiber reschedules itself and
\* is still switching out in yield().
NoFiberOnTwoThreads ==
    \A t1, t2 \in Threads :
        (t1 # t2 /\ pc[t1] = "fiber" /\ pc[t2] = "fiber") => cur[t1] # cur[t2]

\* stop() eventually returns: every worker's dispatch loop ends.
StopReturns == <>(mainPc = "done")

\* f has a task in m_tasks.
InQueue(f) == \E k \in 1..Len(tasks) : tasks[k].fib = f
=============================================================================
