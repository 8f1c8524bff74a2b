--------------------------- MODULE OneShotEvents ---------------------------
(***************************************************************************)
(* The contract of IOManager's event registration (spec sections 4.3 and  *)
(* 8): a fiber registers its interest in one event of one fd; at most one *)
(* fiber is registered per (fd, event); firing the event (readiness,      *)
(* cancelEvent or cancalAll) clears the registration and makes that fiber *)
(* runnable exactly once; the fiber then resumes.  delEvent drops a       *)
(* registration without firing it.  Nothing else wakes a registered       *)
(* fiber and no firing is lost.                                           *)
(***************************************************************************)
CONSTANTS Fds, Events, Fibers, NoFiber

VARIABLES reg,    \* reg[fd][ev]: the fiber waiting for ev on fd
          woken   \* fibers made runnable by a firing, not yet resumed

Registered(f) == \E fd \in Fds, ev \in Events : reg[fd][ev] = f

Init ==
    /\ reg = [fd \in Fds |-> [ev \in Events |-> NoFiber]]
    /\ woken = {}

Register(f, fd, ev) ==
    /\ reg[fd][ev] = NoFiber
    /\ ~Registered(f) /\ f \notin woken
    /\ reg' = [reg EXCEPT ![fd][ev] = f]
    /\ UNCHANGED woken

\* Fire the events evs of fd: each registered fiber becomes runnable.
Fire(fd, evs) ==
    /\ \E ev \in evs : reg[fd][ev] # NoFiber
    /\ woken' = woken \cup {reg[fd][ev] : ev \in {e \in evs : reg[fd][e] # NoFiber}}
    /\ reg' = [reg EXCEPT ![fd] = [ev \in Events |-> IF ev \in evs THEN NoFiber
                                                     ELSE @[ev]]]

\* Remove the registration of ev on fd; no one is woken.
Unregister(fd, ev) ==
    /\ reg[fd][ev] # NoFiber
    /\ reg' = [reg EXCEPT ![fd][ev] = NoFiber]
    /\ UNCHANGED woken

Resume(f) ==
    /\ f \in woken
    /\ woken' = woken \ {f}
    /\ UNCHANGED reg

Next ==
    \/ \E f \in Fibers, fd \in Fds, ev \in Events : Register(f, fd, ev)
    \/ \E fd \in Fds, evs \in SUBSET Events : Fire(fd, evs)
    \/ \E fd \in Fds, ev \in Events : Unregister(fd, ev)
    \/ \E f \in Fibers : Resume(f)

Spec == Init /\ [][Next]_<<reg, woken>>

=============================================================================
