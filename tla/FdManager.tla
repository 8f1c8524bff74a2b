------------------------------ MODULE FdManager ------------------------------
(***************************************************************************)
(* FdManager (src/FdManager.cpp) with the hooks that consult it (socket,  *)
(* fcntl, ioctl, setsockopt, close and the path decision of do_io in      *)
(* src/Hook.cpp), over the kernel's state of each descriptor.  A program  *)
(* makes one hooked call at a time; every call is one step.               *)
(*                                                                         *)
(* slot[fd] is m_datas[fd] (NoCtx for a null pointer), size is            *)
(* m_datas.size(); kopen, ksock and knb are the kernel's view: the fd is  *)
(* open, is a socket, has O_NONBLOCK.  ret is what the last call         *)
(* returned.  m_isInit and m_isClosed are left out: no hook reads the     *)
(* first, and nothing ever sets the second.                               *)
(***************************************************************************)
EXTENDS Integers

CONSTANTS Fds, TimeVals, InitSize

VARIABLES kopen, ksock, knb, slot, size, ret

vars == <<kopen, ksock, knb, slot, size, ret>>

ASSUME /\ Fds \subseteq Nat
       /\ TimeVals \subseteq [sec : Nat, usec : 0..999999]
       /\ InitSize \in Nat

NoTimeout == -1

\* setsockopt's conversion of a timeval to milliseconds.
ToMs(tv) == tv.sec * 1000 + tv.usec \div 1000

Timeouts == {ToMs(tv) : tv \in TimeVals}

NoCtx == [sock |-> FALSE, sysNb |-> FALSE, userNb |-> FALSE,
          rto |-> -2, sto |-> -2]

Ctx == [sock : BOOLEAN, sysNb : BOOLEAN, userNb : BOOLEAN,
        rto : Timeouts \cup {NoTimeout}, sto : Timeouts \cup {NoTimeout}]

Res(r, v) == [r |-> r, v |-> v]

Lowest(S) == CHOOSE fd \in S : \A g \in S : fd <= g

-----------------------------------------------------------------------------
(* FdCtx and FdManager                                                     *)

\* A constructor that leaves the timeouts zero-initialised.
NewCtxZeroTimeout(fd) ==
    LET s == kopen[fd] /\ ksock[fd]
    IN  [sock |-> s, sysNb |-> s, userNb |-> FALSE, rto |-> 0, sto |-> 0]

\* The FdCtx constructor and init(): fstat decides "socket" (it fails on a
\* closed fd), the timeouts are -1 and the user flag is clear.
NewCtx(fd) ==
    LET s == kopen[fd] /\ ksock[fd]
    IN  [sock |-> s, sysNb |-> s, userNb |-> FALSE,
         rto |-> NoTimeout, sto |-> NoTimeout]

\* An init() that records m_sysNoBlock without calling fcntl.
CtorKnbKeep(fd) == knb[fd]

\* init() also sets O_NONBLOCK on a socket through the real fcntl.
CtorKnb(fd) == knb[fd] \/ (kopen[fd] /\ ksock[fd])

\* FdManager::get(fd) with auto_create false: null past the end of the
\* table; otherwise the test for an existing entry is inside the
\* out-of-range branch, so a new FdCtx is built and stored every time.
Got(fd) == IF fd < size THEN NewCtx(fd) ELSE NoCtx

\* get(fd) followed by the caller's changes to the FdCtx it returned: c is
\* the changed context, which the table now holds.
Store(fd, c) ==
    /\ slot' = IF fd < size THEN [slot EXCEPT ![fd] = c] ELSE slot
    /\ knb' = IF fd < size THEN [knb EXCEPT ![fd] = CtorKnb(fd)] ELSE knb

\* setTimeout / getTimeout: SO_RCVTIMEO selects the receive timeout,
\* anything else the send timeout.
SetTimeoutOf(c, kind, t) ==
    IF kind = "READ" THEN [c EXCEPT !.rto = t] ELSE [c EXCEPT !.sto = t]

TimeoutOf(c, kind) == IF kind = "READ" THEN c.rto ELSE c.sto

-----------------------------------------------------------------------------
(* Hooked calls                                                            *)

\* The kernel gives a descriptor (socket_f, or an unhooked open) the
\* lowest free number; isSock says which.
KernelNewFd(fd, isSock) ==
    /\ kopen' = [kopen EXCEPT ![fd] = TRUE]
    /\ ksock' = [ksock EXCEPT ![fd] = isSock]

\* socket(): socket_f, then get(fd, true).  Past the end of the table get
\* first reads m_datas[fd] (undefined: null or garbage); on null it
\* builds the FdCtx and resizes the table to fd * 1.5.
Socket ==
    IF \A fd \in Fds : kopen[fd]
      THEN /\ ret' = Res("emfile", NoTimeout)
           /\ UNCHANGED <<kopen, ksock, knb, slot, size>>
      ELSE LET fd == Lowest({g \in Fds : ~kopen[g]})
               c == [sock |-> TRUE, sysNb |-> TRUE, userNb |-> FALSE,
                     rto |-> NoTimeout, sto |-> NoTimeout]
           IN  /\ KernelNewFd(fd, TRUE)
               /\ ret' = Res("fd", fd)
               /\ IF fd < size
                    THEN /\ slot' = [slot EXCEPT ![fd] = c]
                         /\ knb' = [knb EXCEPT ![fd] = TRUE]
                         /\ UNCHANGED size
                    ELSE \/ /\ size' = (fd * 3) \div 2
                            /\ slot' = [slot EXCEPT ![fd] = c]
                            /\ knb' = [knb EXCEPT ![fd] = TRUE]
                         \/ /\ knb' = [knb EXCEPT ![fd] = FALSE]
                            /\ UNCHANGED <<size, slot>>

\* An unhooked open() of a regular file.
OpenFile ==
    /\ \E fd \in Fds : ~kopen[fd]
    /\ LET fd == Lowest({g \in Fds : ~kopen[g]}) IN
       /\ KernelNewFd(fd, FALSE)
       /\ knb' = [knb EXCEPT ![fd] = FALSE]
       /\ ret' = Res("fd", fd)
    /\ UNCHANGED <<slot, size>>

\* fcntl(fd, F_SETFL, b ? O_NONBLOCK : 0): on a socket the user flag
\* records b and the kernel keeps the system flag.
SetFl(fd, b) ==
    LET c == Got(fd) IN
    /\ IF c.sock
         THEN Store(fd, [c EXCEPT !.userNb = b])
         ELSE /\ slot' = IF fd < size THEN [slot EXCEPT ![fd] = c] ELSE slot
              /\ knb' = IF kopen[fd] THEN [knb EXCEPT ![fd] = b] ELSE knb
    /\ ret' = Res(IF kopen[fd] THEN "ok" ELSE "ebadf", NoTimeout)
    /\ UNCHANGED <<kopen, ksock, size>>

\* fcntl(fd, F_GETFL): the real flags are read first, then get(fd); on a
\* socket O_NONBLOCK is replaced by the user flag.
GetFl(fd) ==
    LET c == Got(fd)
        flag == IF c.sock THEN c.userNb ELSE knb[fd]
    IN  /\ Store(fd, c)
        /\ ret' = Res(CASE ~kopen[fd] -> "ebadf" [] flag -> "nb" [] OTHER -> "blk",
                      NoTimeout)
        /\ UNCHANGED <<kopen, ksock, size>>

\* ioctl(fd, FIONBIO, &b): on a socket setUserNoBlock(b); in every case
\* the real ioctl then sets the kernel flag to b.
Ioctl(fd, b) ==
    LET c == Got(fd) IN
    /\ slot' = IF fd < size
                 THEN [slot EXCEPT ![fd] = IF c.sock THEN [c EXCEPT !.userNb = b]
                                                     ELSE c]
                 ELSE slot
    /\ knb' = IF kopen[fd] THEN [knb EXCEPT ![fd] = b] ELSE knb
    /\ ret' = Res(IF kopen[fd] THEN "ok" ELSE "ebadf", NoTimeout)
    /\ UNCHANGED <<kopen, ksock, size>>

\* setsockopt(SOL_SOCKET, SO_RCVTIMEO / SO_SNDTIMEO, &tv): the timeout
\* is stored in whatever FdCtx get() returns, then the real setsockopt.
SetSockOpt(fd, kind, tv) ==
    LET c == Got(fd) IN
    /\ Store(fd, SetTimeoutOf(c, kind, ToMs(tv)))
    /\ ret' = Res(IF kopen[fd] THEN "ok" ELSE "ebadf", NoTimeout)
    /\ UNCHANGED <<kopen, ksock, size>>

\* A close() that does not call FdMgr::del.
CloseNoDel(fd) ==
    /\ kopen' = [kopen EXCEPT ![fd] = FALSE]
    /\ knb' = [knb EXCEPT ![fd] = FALSE]
    /\ ret' = Res(IF kopen[fd] THEN "ok" ELSE "ebadf", NoTimeout)
    /\ UNCHANGED <<slot, ksock, size>>

\* close(): get(fd); cancalAll (IOManager.tla); del(fd) clears the entry
\* inside the table; then the real close.
Close(fd) ==
    /\ slot' = IF fd < size THEN [slot EXCEPT ![fd] = NoCtx] ELSE slot
    /\ kopen' = [kopen EXCEPT ![fd] = FALSE]
    /\ knb' = [knb EXCEPT ![fd] = FALSE]
    /\ ret' = Res(IF kopen[fd] THEN "ok" ELSE "ebadf", NoTimeout)
    /\ UNCHANGED <<ksock, size>>

\* do_io() up to the first attempt of the real call, when it would have
\* no data: no FdCtx, not a socket, or the user flag set -> the real call
\* as the kernel flag says; otherwise the call is made with the kernel's
\* flag and, if it does not block the thread, the fiber waits with
\* getTimeout(kind).
DirectResult(fd, k) ==
    CASE ~kopen[fd] -> Res("ebadf", NoTimeout)
      [] k -> Res("nonblock", NoTimeout)
      [] OTHER -> Res("block", fd)

DoIo(fd, kind) ==
    LET c == Got(fd)
        k == IF fd < size THEN CtorKnb(fd) ELSE knb[fd]
    IN  /\ Store(fd, c)
        /\ ret' = IF c = NoCtx \/ ~c.sock \/ c.userNb
                    THEN DirectResult(fd, k)
                    ELSE IF k THEN Res("wait", TimeoutOf(c, kind))
                              ELSE Res("block", fd)
        /\ UNCHANGED <<kopen, ksock, size>>

-----------------------------------------------------------------------------
\* FdManager(): m_datas.resize(64) (InitSize in a model); no fd open.
Init ==
    /\ kopen = [fd \in Fds |-> FALSE]
    /\ ksock = [fd \in Fds |-> FALSE]
    /\ knb = [fd \in Fds |-> FALSE]
    /\ slot = [fd \in Fds |-> NoCtx]
    /\ size = InitSize
    /\ ret = Res("none", NoTimeout)

Next ==
    \/ Socket
    \/ OpenFile
    \/ \E fd \in Fds :
          \/ \E b \in BOOLEAN : SetFl(fd, b) \/ Ioctl(fd, b)
          \/ GetFl(fd)
          \/ \E k \in {"READ", "WRITE"}, tv \in TimeVals : SetSockOpt(fd, k, tv)
          \/ Close(fd)
          \/ \E k \in {"READ", "WRITE"} : DoIo(fd, k)

Spec == Init /\ [][Next]_vars


-----------------------------------------------------------------------------
(* The program's view, and what FdManager promises                        *)

\* The O_NONBLOCK flag F_GETFL would report: the user flag of a socket's
\* FdCtx, otherwise the kernel's.
UserNb(fd) ==
    /\ kopen[fd]
    /\ IF slot[fd] # NoCtx /\ slot[fd].sock THEN slot[fd].userNb ELSE knb[fd]

\* The timeout do_io would use on a socket.
UserTimeout(fd, kind) ==
    IF kopen[fd] /\ ksock[fd] /\ slot[fd] # NoCtx
      THEN TimeoutOf(slot[fd], kind) ELSE NoTimeout

View == INSTANCE FdView WITH
            open <- kopen,
            sock <- ksock,
            nb <- [fd \in Fds |-> UserNb(fd)],
            rto <- [fd \in Fds |-> UserTimeout(fd, "READ")],
            sto <- [fd \in Fds |-> UserTimeout(fd, "WRITE")]

FdTypeOK ==
    /\ kopen \in [Fds -> BOOLEAN]
    /\ ksock \in [Fds -> BOOLEAN]
    /\ knb \in [Fds -> BOOLEAN]
    /\ slot \in [Fds -> Ctx \cup {NoCtx}]
    /\ size \in Nat
    /\ ret \in View!Result

\* Spec section 4.6 and the fcntl round trip of section 8: every hooked
\* call behaves as FdView says, so F_GETFL reports the O_NONBLOCK the
\* program set with F_SETFL or FIONBIO, and a read or write on a socket
\* the program left blocking waits with the timeout it set with
\* setsockopt.  It fails if FdManager::get loses what an FdCtx recorded.
ViewRefined == View!Spec

\* A hooked read or write never blocks the worker thread in the kernel on
\* a socket the table covers: FdCtx::init forces O_NONBLOCK, even after
\* ioctl(FIONBIO, 0) or an unhooked change has cleared it.  (A socket past
\* the end of the table, left there by get()'s undefined read, is passed
\* straight to the kernel.)
NoThreadBlock == ret.r = "block" => ~ksock[ret.v] \/ ret.v >= size

\* An FdCtx in the table describes the descriptor that now has its
\* number: close() deletes the entry, so a number reused for a regular
\* file is not taken for a socket (m_isSocket is not stale).
CtxNotStale ==
    \A fd \in Fds : slot[fd] # NoCtx => slot[fd].sock = (kopen[fd] /\ ksock[fd])

=============================================================================
