---------------------------- MODULE MCScheduler ----------------------------
(***************************************************************************)
(* Model of Scheduler for TLC: two workers plus the caller thread, three   *)
(* fibers and one thunk.  Fibers reschedule themselves pinned to the       *)
(* current thread, as test_fiber4/test_fiber5 in src/test.cpp do; the      *)
(* variant SelfAny reschedules with no affinity, as test_fiber1 does.      *)
(***************************************************************************)
EXTENDS Scheduler

CONSTANTS w1, w2, caller, f1, f2, f3, g1

MCWorkers == {w1, w2}
MCFibers == {f1, f2, f3, g1}

YieldPinned == [kind |-> "yield", pin |-> TRUE]
YieldAny == [kind |-> "yield", pin |-> FALSE]

\* f1 is test_fiber1 with the thread's affinity (schedule(GetThis(),
\* this thread), then yield()) and then schedules thunk g1 pinned to its
\* thread, as test_fiber4 schedules test_fiber5;
\* f2 (run as a thunk) yields pinned; f3 is scheduled by main after start().
PinnedProg ==
    [f \in MCFibers |->
        CASE f = f1 -> <<YieldPinned, [kind |-> "spawn", fib |-> g1, pin |-> TRUE]>>
          [] f = f2 -> <<YieldPinned>>
          [] OTHER  -> <<>>]

\* test_fiber1: schedule(Fiber::GetThis()) then yield(), no affinity.
AnyProg ==
    [f \in MCFibers |-> IF f = f1 THEN <<YieldAny>> ELSE <<>>]

MCInitTasks == <<[fib |-> f1, cb |-> FALSE, thr |-> ANY],
                 [fib |-> f2, cb |-> TRUE, thr |-> ANY]>>

MCLateTasks == <<[fib |-> f3, cb |-> TRUE, thr |-> ANY]>>
=============================================================================
