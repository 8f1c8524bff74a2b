---------------------------- MODULE MCIOManager ----------------------------
(***************************************************************************)
(* Model of IOManager for TLC.  Fibers fa, fb, fc are the tasks main       *)
(* schedules after the constructor, k1..k4 run the callbacks of timers     *)
(* 1..4, ta, tw, ta2 and tx run thunks, s1..s3 are sockets.  Single is    *)
(* default IOManager (one thread: the caller) as in test_sleep and         *)
(* testIOManager of src/test.cpp; the race programs run on                 *)
(* IOManager(2, false).                                                    *)
(***************************************************************************)
EXTENDS IOManager

CONSTANTS w1, w2, caller, fa, fb, fc, k1, k2, k3, k4, ta, tw, ta2, tx, s1, s2, s3

MCFibers == {fa, fb, fc, k1, k2, k3, k4, ta, tw, ta2, tx}
MCTimerIds == {1, 2, 3, 4}
MCTimerCb == [i \in MCTimerIds |-> CASE i = 1 -> k1 [] i = 2 -> k2 [] i = 3 -> k3
                                   [] OTHER -> k4]

\* read(), readv(), recv(), recvfrom(), recvmsg(): do_io on READ.  Its
\* timeout is getTimeout(SO_RCVTIMEO) of the FdCtx that FdMgr->get() has
\* just rebuilt, always -1, so no timer is armed.
Read(s) == [kind |-> "io", fd |-> s, ev |-> "READ", to |-> -1, retry |-> TRUE]
\* write(), writev(), send(), sendto(), sendmsg(): do_io on WRITE, with
\* the same -1 timeout.
Write(s) == [kind |-> "io", fd |-> s, ev |-> "WRITE", to |-> -1, retry |-> TRUE]
\* accept(): do_io on READ; the FdMgr get() of an accepted fd is not
\* reached, for no peer connects in these programs.
Accept(s) == Read(s)
\* connect(): connect_with_timeout with s_connect_timeout (3000 ms), a
\* WRITE wait that returns instead of retrying.
Connect(s, to) == [kind |-> "io", fd |-> s, ev |-> "WRITE", to |-> to, retry |-> FALSE]
Close(s) == [kind |-> "close", fd |-> s]
Sleep(ms) == [kind |-> "sleep", ms |-> ms]
\* addEvent(s, ev, cb), the thunk cb running on fiber g.
Watch(s, ev, g) == [kind |-> "watch", fd |-> s, ev |-> ev, cb |-> g]
\* delEvent(s, ev).
Del(s, ev) == [kind |-> "del", fd |-> s, ev |-> ev]

CbProg(f) == CASE f = k1 -> <<[kind |-> "timercb", tmr |-> 1]>>
               [] f = k2 -> <<[kind |-> "timercb", tmr |-> 2]>>
               [] f = k3 -> <<[kind |-> "timercb", tmr |-> 3]>>
               [] f = k4 -> <<[kind |-> "timercb", tmr |-> 4]>>
               [] OTHER -> <<>>

\* fa reads s1, connects s2 and, whether or not the connect timed out,
\* writes s2: after a timeout that write registers the WRITE event whose
\* context the timer's cancelEvent() has just reset.  fb yields back to
\* the scheduler (Fiber::GetThis()->yield() after scheduling itself, as
\* test_fiber1 does) and reads s2.  fc is test_IOmanager of server.cpp on
\* the listening socket s3 (addEvent(READ, test_accept), test_accept on
\* ta), registers a WRITE callback (tx) and drops it again with
\* delEvent, closes s1 (waking fa's read), sleeps and closes s2, which
\* wakes fb and whichever call of fa waits on it, and s3, which runs
\* test_accept: its accept fails on the closed fd, and it schedules
\* watch_io_read (tw), whose addEvent(READ, test_accept) fails.  With
\* epoll_wait disabled, close() is the only way a read or write waiting
\* on an fd is resumed, so every fd a fiber waits on is closed.
MixProg ==
    [f \in MCFibers |->
        CASE f = fa -> <<Read(s1), Connect(s2, 1), Write(s2)>>
          [] f = fb -> <<[kind |-> "yield", pin |-> FALSE], Read(s2)>>
          [] f = fc -> <<Watch(s3, "READ", ta), Watch(s3, "WRITE", tx), Del(s3, "WRITE"),
                         Close(s1), Sleep(2), Close(s2), Close(s3)>>
          [] f = ta -> <<Accept(s3), [kind |-> "spawn", fib |-> tw, pin |-> FALSE]>>
          [] f = tw -> <<Watch(s3, "READ", ta2)>>
          [] OTHER  -> CbProg(f)]

\* fa reads s1 while fc closes s1.
CloseRaceProg ==
    [f \in MCFibers |->
        CASE f = fa -> <<Read(s1)>>
          [] f = fc -> <<Close(s1)>>
          [] OTHER  -> CbProg(f)]

\* Connect timeout (spec section 8, scenario 5): fa connects s1 to an
\* address that never answers, so only the connect timer ends the wait.
TimeoutProg ==
    [f \in MCFibers |->
        CASE f = fa -> <<Connect(s1, 1)>>
          [] OTHER  -> CbProg(f)]

\* fa reads s1, whose peer sends.
BlockingReadProg ==
    [f \in MCFibers |->
        CASE f = fa -> <<Read(s1)>>
          [] OTHER  -> CbProg(f)]

Task3 == <<[fib |-> fa, cb |-> TRUE, thr |-> ANY],
           [fib |-> fb, cb |-> TRUE, thr |-> ANY],
           [fib |-> fc, cb |-> TRUE, thr |-> ANY]>>

Task2 == <<[fib |-> fa, cb |-> TRUE, thr |-> ANY],
           [fib |-> fc, cb |-> TRUE, thr |-> ANY]>>

NoTasks == <<>>

Task1 == <<[fib |-> fa, cb |-> TRUE, thr |-> ANY]>>
====
