------------------------------- MODULE FdView -------------------------------
(***************************************************************************)
(* What a program sees of its file descriptors through the hooked calls   *)
(* socket, fcntl(F_SETFL/F_GETFL), ioctl(FIONBIO), setsockopt(SO_RCVTIMEO *)
(* /SO_SNDTIMEO), close and a read or write: the descriptor's O_NONBLOCK  *)
(* flag is the one the program last set, and a read or write on a socket  *)
(* the program left blocking waits (as a fiber) with the timeout the      *)
(* program last set.  This is the promise the hooks and FdManager make;   *)
(* FdManager.tla is checked against it.                                   *)
(***************************************************************************)
LOCAL INSTANCE Integers

CONSTANTS Fds, Timeouts

VARIABLES open, sock, nb, rto, sto, ret

\* -1 is the code's "no timeout".
NoTimeout == -1

Result == [r : {"none", "fd", "emfile", "ok", "ebadf", "nb", "blk",
                "nonblock", "block", "wait"},
           v : Fds \cup Timeouts \cup {NoTimeout}]

Res(r, v) == [r |-> r, v |-> v]

Lowest(S) == CHOOSE fd \in S : \A g \in S : fd <= g

\* The kernel hands out the lowest free descriptor.
NewFd(isSock) ==
    IF \A fd \in Fds : open[fd]
      THEN /\ ret' = Res("emfile", NoTimeout)
           /\ UNCHANGED <<open, sock, nb, rto, sto>>
      ELSE LET fd == Lowest({g \in Fds : ~open[g]}) IN
           /\ open' = [open EXCEPT ![fd] = TRUE]
           /\ sock' = [sock EXCEPT ![fd] = isSock]
           /\ nb' = [nb EXCEPT ![fd] = FALSE]
           /\ rto' = [rto EXCEPT ![fd] = NoTimeout]
           /\ sto' = [sto EXCEPT ![fd] = NoTimeout]
           /\ ret' = Res("fd", fd)

Socket == NewFd(TRUE)

OpenFile == NewFd(FALSE)

\* F_SETFL and FIONBIO set the program's O_NONBLOCK flag.
SetNonBlock(fd, b) ==
    /\ nb' = IF open[fd] THEN [nb EXCEPT ![fd] = b] ELSE nb
    /\ ret' = Res(IF open[fd] THEN "ok" ELSE "ebadf", NoTimeout)
    /\ UNCHANGED <<open, sock, rto, sto>>

GetFl(fd) ==
    /\ ret' = Res(CASE ~open[fd] -> "ebadf" [] nb[fd] -> "nb" [] OTHER -> "blk",
                  NoTimeout)
    /\ UNCHANGED <<open, sock, nb, rto, sto>>

\* SO_RCVTIMEO (kind "READ") or SO_SNDTIMEO (kind "WRITE") on a socket.
SetTimeout(fd, kind, t) ==
    /\ rto' = IF open[fd] /\ sock[fd] /\ kind = "READ"
                THEN [rto EXCEPT ![fd] = t] ELSE rto
    /\ sto' = IF open[fd] /\ sock[fd] /\ kind = "WRITE"
                THEN [sto EXCEPT ![fd] = t] ELSE sto
    /\ ret' = Res(IF open[fd] THEN "ok" ELSE "ebadf", NoTimeout)
    /\ UNCHANGED <<open, sock, nb>>

Close(fd) ==
    /\ open' = [open EXCEPT ![fd] = FALSE]
    /\ nb' = [nb EXCEPT ![fd] = FALSE]
    /\ rto' = [rto EXCEPT ![fd] = NoTimeout]
    /\ sto' = [sto EXCEPT ![fd] = NoTimeout]
    /\ ret' = Res(IF open[fd] THEN "ok" ELSE "ebadf", NoTimeout)
    /\ UNCHANGED sock

\* How a read or write that has no data to move proceeds.
Io(fd, kind) ==
    /\ ret' = CASE ~open[fd] -> Res("ebadf", NoTimeout)
                [] nb[fd] -> Res("nonblock", NoTimeout)
                [] ~sock[fd] -> Res("block", fd)
                [] OTHER -> Res("wait", IF kind = "READ" THEN rto[fd]
                                                         ELSE sto[fd])
    /\ UNCHANGED <<open, sock, nb, rto, sto>>

Init ==
    /\ open = [fd \in Fds |-> FALSE]
    /\ sock = [fd \in Fds |-> FALSE]
    /\ nb = [fd \in Fds |-> FALSE]
    /\ rto = [fd \in Fds |-> NoTimeout]
    /\ sto = [fd \in Fds |-> NoTimeout]
    /\ ret = Res("none", NoTimeout)

Next ==
    \/ Socket
    \/ OpenFile
    \/ \E fd \in Fds :
          \/ \E b \in BOOLEAN : SetNonBlock(fd, b)
          \/ GetFl(fd)
          \/ \E k \in {"READ", "WRITE"}, t \in Timeouts : SetTimeout(fd, k, t)
          \/ Close(fd)
          \/ \E k \in {"READ", "WRITE"} : Io(fd, k)

Spec == Init /\ [][Next]_<<open, sock, nb, rto, sto, ret>>

=============================================================================
