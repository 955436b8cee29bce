-------------------------- MODULE SeqpacketSockets --------------------------
(***************************************************************************)
(* The socket types of src/seqpacket.rs over a kernel of SOCK_SEQPACKET   *)
(* Unix sockets.                                                           *)
(*                                                                         *)
(*  - fdOf:  the process's descriptor table, fd -> open socket (the open  *)
(*           file description, shared by dup()ed descriptors);             *)
(*  - owner: which Rust value owns each fd: one of the four wrapper types *)
(*           of impl_rawfd_traits!, a raw fd the program holds after      *)
(*           into_raw_fd(), or nobody;                                     *)
(*  - sk:    each socket's state, O_NONBLOCK flag, peer, hang-up flag,    *)
(*           queue of received packets and backlog of pending connections;*)
(*  - bound: the name space, name -> socket.  A path name stays bound to  *)
(*           a closed socket (the socket file) until it is unlinked; an   *)
(*           abstract name is freed when its socket closes;               *)
(*  - last:  the last call and what it returned.                           *)
(*                                                                         *)
(* Each action is a whole method: the Socket it creates is closed by      *)
(* Drop on every `?` error path.  A blocking call that cannot complete is *)
(* the outcome "Blocks" (the calling thread is stuck); a connect() that   *)
(* would block on a full backlog waits until there is room.  Packets are  *)
(* their lengths; names are model values, their byte-level form is        *)
(* UnixSocketAddr's concern.                                               *)
(***************************************************************************)
EXTENDS Integers, Sequences, FiniteSets

CONSTANTS
  Fds,          \* the descriptor numbers the process may use (RLIMIT_NOFILE)
  Socks,        \* socket objects the kernel can hold at once
  PathNames,    \* pathname addresses
  AbstractNames,\* abstract addresses
  MaxPacket,    \* largest packet a send() passes
  MaxBuf,       \* largest buffer a recv() passes
  RxCap,        \* packets a socket's receive queue holds
  Backlog,      \* listen() backlog
  AllowRawFd,   \* whether the program moves fds through into_raw_fd/from_raw_fd
  MaxSleepers,  \* threads of the program that may be asleep in a call at once
  NoSock, NoName

ASSUME /\ Fds \subseteq Nat /\ Fds # {}
       /\ NoSock \notin Socks /\ NoName \notin PathNames \cup AbstractNames
       /\ MaxPacket \in Nat \ {0} /\ MaxBuf \in Nat \ {0}
       /\ RxCap \in Nat \ {0} /\ Backlog \in Nat \ {0}
       /\ AllowRawFd \in BOOLEAN /\ MaxSleepers \in Nat

Names == PathNames \cup AbstractNames
Wrappers == {"UnixSeqpacketConn", "UnixSeqpacketListener",
             "NonblockingUnixSeqpacketConn", "NonblockingUnixSeqpacketListener"}
ConnTypes == {"UnixSeqpacketConn", "NonblockingUnixSeqpacketConn"}
ListenerTypes == {"UnixSeqpacketListener", "NonblockingUnixSeqpacketListener"}
NbTypes == {"NonblockingUnixSeqpacketConn", "NonblockingUnixSeqpacketListener"}
States == {"free", "open", "listening", "connected", "closed"}
Live == {"open", "listening", "connected"}

VARIABLES fdOf, owner, sk, bound, last, wait
vars == <<fdOf, owner, sk, bound, last, wait>>

FreeSock == [st |-> "free", nb |-> FALSE, peer |-> NoSock, hup |-> FALSE,
             rx |-> <<>>, backlog |-> <<>>]

\* The outcome of a call; bytes, flag and the packet's length plen (-1 for
\* none) are what send() and recv() return.
Outcome(o, r) == [op |-> o, res |-> r, bytes |-> 0, flag |-> FALSE, plen |-> -1]

-----------------------------------------------------------------------------
(* Kernel and helper operations (helpers.rs is not in this tree; these     *)
(* follow the POSIX calls the spec names for the collaborators).           *)

FreeFds == {fd \in Fds : fdOf[fd] = NoSock}
\* open(), socket(), dup() and accept() return the lowest free descriptor.
LowestFd == CHOOSE fd \in FreeFds : \A g \in FreeFds : fd <= g
FreeSocks == {s \in Socks : sk[s].st = "free"}
\* Two distinct fresh sockets (pair(), or a connect's server end).
FreshPair == CHOOSE p \in FreeSocks \X FreeSocks : p[1] # p[2]
FreshSock == CHOOSE s \in FreeSocks : TRUE

OpenSock(nb) == [FreeSock EXCEPT !.st = "open", !.nb = nb]

(***************************************************************************)
(* close() of the last descriptor of socket `s`, as a function of the     *)
(* socket table: the peer and the clients of pending connections see a    *)
(* hang-up, queued packets are dropped, pending server ends close too; a  *)
(* socket still named by a path stays "closed" until unlinked.            *)
(***************************************************************************)
PathBound(b, s) == \E n \in PathNames : b[n] = s
CloseSock(t, b, s) ==
  LET gone == {s} \cup {t[s].backlog[i] : i \in DOMAIN t[s].backlog}
  IN  [x \in Socks |->
         IF x \in gone
         THEN IF PathBound(b, x) THEN [FreeSock EXCEPT !.st = "closed"] ELSE FreeSock
         ELSE IF t[x].st = "connected" /\ t[x].peer \in gone
              THEN [t[x] EXCEPT !.hup = TRUE]
              ELSE t[x]]
\* Abstract names of closed sockets disappear.
ReleaseNames(b, gone) ==
  [n \in Names |-> IF n \in AbstractNames /\ b[n] \in gone THEN NoSock ELSE b[n]]

\* Mutant: close() tears the socket down even while a try_clone copy is open.
CloseFdAlwaysLast(fd) ==
  LET s == fdOf[fd]
      gone == {s} \cup {sk[s].backlog[i] : i \in DOMAIN sk[s].backlog}
  IN  /\ fdOf' = [fdOf EXCEPT ![fd] = NoSock]
      /\ owner' = [owner EXCEPT ![fd] = "none"]
      /\ sk' = CloseSock(sk, bound, s)
      /\ bound' = ReleaseNames(bound, gone)
      /\ UNCHANGED wait

\* Drop of the owner of `fd` (or of an unowned Socket on an error path).
CloseFd(fd) ==
  LET s == fdOf[fd]
      lastRef == \A g \in Fds \ {fd} : fdOf[g] # s
      gone == {s} \cup {sk[s].backlog[i] : i \in DOMAIN sk[s].backlog}
  IN  /\ fdOf' = [fdOf EXCEPT ![fd] = NoSock]
      /\ owner' = [owner EXCEPT ![fd] = "none"]
      /\ sk' = IF lastRef THEN CloseSock(sk, bound, s) ELSE sk
      /\ bound' = IF lastRef THEN ReleaseNames(bound, gone) ELSE bound
      /\ UNCHANGED wait

\* A Socket created by a method and dropped on a later `?`, after binding it
\* to `n` (NoName if it was not bound): the descriptor and the socket are
\* freed, but a path name stays bound to the closed socket.
DropFresh(s, n) ==
  /\ UNCHANGED <<fdOf, owner, wait>>
  /\ sk' = IF n \in PathNames THEN [sk EXCEPT ![s] = [FreeSock EXCEPT !.st = "closed"]]
                              ELSE sk
  /\ bound' = IF n \in PathNames THEN [bound EXCEPT ![n] = s] ELSE bound

\* The socket an address names accepts connections.
Listening(l) == l # NoSock /\ sk[l].st = "listening"
SocketFails == FreeFds = {} \/ FreeSocks = {}

\* A caller asleep in a blocking call on a descriptor: the call and its
\* argument (the buffer size of a recv, the packet of a send).
Waiting(k, o, n) == [kind |-> k, o |-> o, n |-> n]
NoWait == Waiting("none", "none", 0)

\* The call cannot complete: the thread sleeps on the socket's wait queue.
\* One sleeping caller per descriptor.
Block(fd, w, o) ==
  /\ wait[fd] = NoWait
  /\ Cardinality({g \in Fds : wait[g] # NoWait}) < MaxSleepers
  /\ wait' = [wait EXCEPT ![fd] = w]
  /\ last' = Outcome(o, "Blocks")
  /\ UNCHANGED <<fdOf, owner, sk, bound>>

-----------------------------------------------------------------------------
(* Init                                                                    *)

Init ==
  /\ fdOf = [fd \in Fds |-> NoSock]
  /\ owner = [fd \in Fds |-> "none"]
  /\ sk = [s \in Socks |-> FreeSock]
  /\ bound = [n \in Names |-> NoSock]
  /\ last = Outcome("none", "ok")
  /\ wait = [fd \in Fds |-> NoWait]

-----------------------------------------------------------------------------
(* Constructors: connect_unix_addr, connect_from_to_unix_addr, pair,       *)
(* the two bind_unix_addr, the two accept_unix_addr.                        *)

(***************************************************************************)
(* Socket::new, an optional bind_to(from), then connect_to(to).  The       *)
(* connect creates the server end and queues it on the listener's backlog;*)
(* on a full backlog the blocking socket waits (the action is disabled).  *)
(***************************************************************************)
Connect(o, from, to) ==
  LET fd == LowestFd
      c  == FreshSock
      l  == bound[to]
      fromFree == IF from = NoName THEN TRUE ELSE bound[from] = NoSock
  IN
  \/ /\ SocketFails
     /\ last' = Outcome(o, "EMFILE") /\ UNCHANGED <<fdOf, owner, sk, bound, wait>>
  \/ /\ ~SocketFails /\ ~fromFree
     /\ last' = Outcome(o, "EADDRINUSE") /\ DropFresh(c, NoName)
  \/ /\ ~SocketFails /\ fromFree
     /\ ~Listening(l)
     /\ last' = Outcome(o, "ECONNREFUSED") /\ DropFresh(c, from)
  \/ /\ ~SocketFails /\ fromFree
     /\ Listening(l) /\ FreeSocks = {c}
     /\ last' = Outcome(o, "ENOBUFS") /\ DropFresh(c, from)
  \/ /\ ~SocketFails /\ fromFree
     /\ Listening(l) /\ FreeSocks # {c}
     /\ Len(sk[l].backlog) < Backlog
     /\ LET v == CHOOSE x \in FreeSocks \ {c} : TRUE
        IN  sk' = [sk EXCEPT
                     ![c] = [OpenSock(FALSE) EXCEPT !.st = "connected", !.peer = v],
                     ![v] = [OpenSock(FALSE) EXCEPT !.st = "connected", !.peer = c],
                     ![l].backlog = Append(@, v)]
     /\ fdOf' = [fdOf EXCEPT ![fd] = c]
     /\ owner' = [owner EXCEPT ![fd] = "UnixSeqpacketConn"]
     /\ bound' = IF from = NoName THEN bound ELSE [bound EXCEPT ![from] = c]
     /\ last' = Outcome(o, "ok") /\ UNCHANGED wait

ConnectUnixAddr(to) == Connect("connect_unix_addr", NoName, to)
ConnectFromToUnixAddr(from, to) == Connect("connect_from_to_unix_addr", from, to)

\* Socket::pair: socketpair() takes two descriptors or none.
Pair ==
  \/ /\ Cardinality(FreeFds) < 2 \/ Cardinality(FreeSocks) < 2
     /\ last' = Outcome("pair", "EMFILE") /\ UNCHANGED <<fdOf, owner, sk, bound, wait>>
  \/ /\ Cardinality(FreeFds) >= 2 /\ Cardinality(FreeSocks) >= 2
     /\ LET a == LowestFd
            b == CHOOSE g \in FreeFds \ {a} : \A h \in FreeFds \ {a} : g <= h
            p == FreshPair
        IN  /\ fdOf' = [fdOf EXCEPT ![a] = p[1], ![b] = p[2]]
            /\ owner' = [owner EXCEPT ![a] = "UnixSeqpacketConn", ![b] = "UnixSeqpacketConn"]
            /\ sk' = [sk EXCEPT
                        ![p[1]] = [OpenSock(FALSE) EXCEPT !.st = "connected", !.peer = p[2]],
                        ![p[2]] = [OpenSock(FALSE) EXCEPT !.st = "connected", !.peer = p[1]]]
     /\ last' = Outcome("pair", "ok") /\ UNCHANGED <<bound, wait>>

(***************************************************************************)
(* bind_unix_addr of listener type t: Socket::new(SOCK_SEQPACKET, nb),    *)
(* bind_to, start_listening.  listen() on a freshly bound SOCK_SEQPACKET  *)
(* socket has no failure to model.                                        *)
(***************************************************************************)
BindListener(t, nb, n) ==
  LET fd == LowestFd
      s  == FreshSock
  IN
  \/ /\ SocketFails
     /\ last' = Outcome(t, "EMFILE") /\ UNCHANGED <<fdOf, owner, sk, bound, wait>>
  \/ /\ ~SocketFails /\ bound[n] # NoSock
     /\ last' = Outcome(t, "EADDRINUSE") /\ DropFresh(s, NoName)
  \/ /\ ~SocketFails /\ bound[n] = NoSock
     /\ fdOf' = [fdOf EXCEPT ![fd] = s]
     /\ owner' = [owner EXCEPT ![fd] = t]
     /\ sk' = [sk EXCEPT ![s] = [OpenSock(nb) EXCEPT !.st = "listening"]]
     /\ bound' = [bound EXCEPT ![n] = s]
     /\ last' = Outcome(t, "ok") /\ UNCHANGED wait

\* Mutant: the nonblocking listener created with Socket::new(.., false).
NonblockingBindBlocking(n) == BindListener("NonblockingUnixSeqpacketListener", FALSE, n)
BindUnixAddr(n) == BindListener("UnixSeqpacketListener", FALSE, n)
NonblockingBindUnixAddr(n) == BindListener("NonblockingUnixSeqpacketListener", TRUE, n)

\* Mutant: accept_from(fd, false) in the nonblocking listener too.
AcceptFromBlocking(t, nb, ct, fd) ==
  LET l == fdOf[fd]
      g == LowestFd
  IN
  /\ owner[fd] = t
  /\ sk[l].backlog # <<>> /\ FreeFds # {}
  /\ LET v == Head(sk[l].backlog)
     IN  /\ fdOf' = [fdOf EXCEPT ![g] = v]
         /\ owner' = [owner EXCEPT ![g] = ct]
         /\ sk' = [sk EXCEPT ![l].backlog = Tail(@), ![v].nb = FALSE]
  /\ last' = Outcome(t \o "::accept_unix_addr", "ok")
  /\ UNCHANGED <<bound, wait>>

(***************************************************************************)
(* accept_unix_addr of listener type t: Socket::accept_from(fd, nb) is    *)
(* accept4() with SOCK_NONBLOCK when nb; the connection is wrapped in the *)
(* matching connection type.  With nothing pending it is the listener's   *)
(* own O_NONBLOCK that decides between EAGAIN and blocking.               *)
(***************************************************************************)
AcceptReady(t, nb, ct, fd) ==
  LET l == fdOf[fd]
      g == LowestFd
  IN
  \/ /\ sk[l].backlog # <<>> /\ FreeFds = {}
     /\ last' = Outcome(t \o "::accept_unix_addr", "EMFILE")
     /\ UNCHANGED <<fdOf, owner, sk, bound>>
  \/ /\ sk[l].backlog # <<>> /\ FreeFds # {}
     /\ LET v == Head(sk[l].backlog)
        IN  /\ fdOf' = [fdOf EXCEPT ![g] = v]
            /\ owner' = [owner EXCEPT ![g] = ct]
            /\ sk' = [sk EXCEPT ![l].backlog = Tail(@), ![v].nb = nb]
     /\ last' = Outcome(t \o "::accept_unix_addr", "ok")
     /\ UNCHANGED bound

AcceptFrom(t, nb, ct, fd) ==
  LET l == fdOf[fd] IN
  /\ owner[fd] = t
  /\ \/ AcceptReady(t, nb, ct, fd) /\ UNCHANGED wait
     \/ /\ sk[l].backlog = <<>> /\ sk[l].nb
        /\ last' = Outcome(t \o "::accept_unix_addr", "WouldBlock")
        /\ UNCHANGED <<fdOf, owner, sk, bound, wait>>
     \/ /\ sk[l].backlog = <<>> /\ ~sk[l].nb
        /\ Block(fd, Waiting("accept", t, 0), t \o "::accept_unix_addr")

AcceptUnixAddr(fd) ==
  AcceptFrom("UnixSeqpacketListener", FALSE, "UnixSeqpacketConn", fd)
NonblockingAcceptUnixAddr(fd) ==
  AcceptFrom("NonblockingUnixSeqpacketListener", TRUE, "NonblockingUnixSeqpacketConn", fd)

-----------------------------------------------------------------------------
(* UnixSeqpacketConn: send, send_vectored, recv, recv_vectored             *)

\* Mutant: a send that does not wait for room in the peer's queue.
SendPacketNoCap(o, fd, n) ==
  LET s == fdOf[fd]
      p == sk[s].peer
  IN  /\ owner[fd] = "UnixSeqpacketConn" /\ ~sk[s].hup
      /\ sk' = [sk EXCEPT ![p].rx = Append(@, n)]
      /\ last' = Outcome(o, "ok")
      /\ UNCHANGED <<fdOf, owner, bound, wait>>

(***************************************************************************)
(* send() with MSG_EOR puts one packet of n bytes on the peer's queue.    *)
(* cvt_r! retries EINTR, so an interrupted send is not an outcome.        *)
(***************************************************************************)
SendReady(o, fd, n) ==
  LET s == fdOf[fd]
      p == sk[s].peer
  IN
  \/ /\ sk[s].hup
     /\ last' = Outcome(o, "EPIPE") /\ UNCHANGED <<fdOf, owner, sk, bound>>
  \/ /\ ~sk[s].hup /\ Len(sk[p].rx) < RxCap
     /\ sk' = [sk EXCEPT ![p].rx = Append(@, n)]
     /\ last' = Outcome(o, "ok")
     /\ UNCHANGED <<fdOf, owner, bound>>

SendPacket(o, fd, n) ==
  LET s == fdOf[fd]
      full == ~sk[s].hup /\ Len(sk[sk[s].peer].rx) >= RxCap
  IN
  /\ owner[fd] = "UnixSeqpacketConn"
  /\ \/ SendReady(o, fd, n) /\ UNCHANGED wait
     \/ /\ full /\ sk[s].nb
        /\ last' = Outcome(o, "WouldBlock") /\ UNCHANGED <<fdOf, owner, sk, bound, wait>>
     \/ /\ full /\ ~sk[s].nb
        /\ Block(fd, Waiting("send", o, n), o)

Send(fd, n) == SendPacket("send", fd, n)
\* send_ancillary with no ancillary data sends the slices as one packet.
SendVectored(fd, slices) ==
  SendPacket("send_vectored", fd, slices[1] + slices[2])

\* Mutant: recv_ancillary called with MSG_PEEK instead of no flags.
RecvPacketPeek(o, fd, cap) ==
  LET s == fdOf[fd]
  IN
  /\ owner[fd] = "UnixSeqpacketConn"
  /\ \/ /\ sk[s].rx # <<>>
        /\ LET n == Head(sk[s].rx)
           IN  last' = [Outcome(o, "ok") EXCEPT !.bytes = IF n < cap THEN n ELSE cap,
                                                 !.flag = n > cap, !.plen = n]
        /\ UNCHANGED <<fdOf, owner, sk, bound, wait>>
     \/ /\ sk[s].rx = <<>> /\ (sk[s].hup \/ sk[s].nb)
        /\ last' = Outcome(o, IF sk[s].hup THEN "ok" ELSE "WouldBlock")
        /\ UNCHANGED <<fdOf, owner, sk, bound, wait>>
     \/ /\ sk[s].rx = <<>> /\ ~sk[s].hup /\ ~sk[s].nb
        /\ Block(fd, Waiting("recv", o, cap), o)

(***************************************************************************)
(* recv_ancillary into `cap` bytes of buffers: the head packet is taken   *)
(* whole, what does not fit is discarded, and message_truncated() is the  *)
(* MSG_TRUNC flag.  An empty queue is end-of-file once the peer hung up.  *)
(***************************************************************************)
RecvReady(o, fd, cap) ==
  LET s == fdOf[fd] IN
  \/ /\ sk[s].rx # <<>>
     /\ LET n == Head(sk[s].rx)
        IN  last' = [Outcome(o, "ok") EXCEPT !.bytes = IF n < cap THEN n ELSE cap,
                                              !.flag = n > cap, !.plen = n]
     /\ sk' = [sk EXCEPT ![s].rx = Tail(@)]
     /\ UNCHANGED <<fdOf, owner, bound>>
  \/ /\ sk[s].rx = <<>> /\ sk[s].hup
     /\ last' = Outcome(o, "ok") /\ UNCHANGED <<fdOf, owner, sk, bound>>

RecvPacket(o, fd, cap) ==
  LET s == fdOf[fd]
      empty == sk[s].rx = <<>> /\ ~sk[s].hup
  IN
  /\ owner[fd] = "UnixSeqpacketConn"
  /\ \/ RecvReady(o, fd, cap) /\ UNCHANGED wait
     \/ /\ empty /\ sk[s].nb
        /\ last' = Outcome(o, "WouldBlock") /\ UNCHANGED <<fdOf, owner, sk, bound, wait>>
     \/ /\ empty /\ ~sk[s].nb
        /\ Block(fd, Waiting("recv", o, cap), o)

Recv(fd, cap) == RecvPacket("recv", fd, cap)
RecvVectored(fd, bufs) == RecvPacket("recv_vectored", fd, bufs[1] + bufs[2])

-----------------------------------------------------------------------------
(* Descriptor operations of every wrapper type                             *)

\* try_clone: Socket::try_clone_from dup()s the descriptor; the copy
\* shares the socket and its O_NONBLOCK flag, and has the same type.
TryClone(t, fd) ==
  /\ owner[fd] = t
  /\ \/ /\ FreeFds = {}
        /\ last' = Outcome("try_clone", "EMFILE") /\ UNCHANGED <<fdOf, owner>>
     \/ /\ FreeFds # {}
        /\ fdOf' = [fdOf EXCEPT ![LowestFd] = fdOf[fd]]
        /\ owner' = [owner EXCEPT ![LowestFd] = owner[fd]]
        /\ last' = Outcome("try_clone", "ok")
  /\ UNCHANGED <<sk, bound, wait>>

ConnTryClone(fd) == TryClone("UnixSeqpacketConn", fd)
ListenerTryClone(fd) == TryClone("UnixSeqpacketListener", fd)
NonblockingConnTryClone(fd) == TryClone("NonblockingUnixSeqpacketConn", fd)
NonblockingListenerTryClone(fd) == TryClone("NonblockingUnixSeqpacketListener", fd)

\* set_nonblocking exists on the two blocking types only.
SetNonblocking(t, fd, b) ==
  /\ owner[fd] = t
  /\ sk' = [sk EXCEPT ![fdOf[fd]].nb = b]
  /\ last' = Outcome("set_nonblocking", "ok")
  /\ UNCHANGED <<fdOf, owner, bound, wait>>

ConnSetNonblocking(fd, b) == SetNonblocking("UnixSeqpacketConn", fd, b)
ListenerSetNonblocking(fd, b) == SetNonblocking("UnixSeqpacketListener", fd, b)

\* Mutant: a Drop that forgets the descriptor instead of closing it.
DropLeak(fd) ==
  /\ owner[fd] \in Wrappers /\ wait[fd] = NoWait
  /\ owner' = [owner EXCEPT ![fd] = "none"]
  /\ last' = Outcome("drop", "ok")
  /\ UNCHANGED <<fdOf, sk, bound, wait>>

\* Drop closes the descriptor the wrapper owns; a wrapper borrowed by a
\* blocked call cannot be dropped until the call returns.
Drop(fd) ==
  /\ owner[fd] \in Wrappers /\ wait[fd] = NoWait
  /\ CloseFd(fd)
  /\ last' = Outcome("drop", "ok")

\* into_raw_fd forgets the wrapper: the program now holds the raw fd.
IntoRawFd(fd) ==
  /\ AllowRawFd /\ owner[fd] \in Wrappers /\ wait[fd] = NoWait
  /\ owner' = [owner EXCEPT ![fd] = "raw"]
  /\ last' = Outcome("into_raw_fd", "ok")
  /\ UNCHANGED <<fdOf, sk, bound, wait>>

\* from_raw_fd wraps an fd the program owns in a type of its kind; as the
\* Nonblocking types' docs ask, only a nonblocking fd in one of them.
FromRawFd(fd, t) ==
  /\ AllowRawFd /\ owner[fd] = "raw"
  /\ (t \in ListenerTypes) = (sk[fdOf[fd]].st = "listening")
  /\ t \in NbTypes => sk[fdOf[fd]].nb
  /\ owner' = [owner EXCEPT ![fd] = t]
  /\ last' = Outcome("from_raw_fd", "ok")
  /\ UNCHANGED <<fdOf, sk, bound, wait>>

\* The program closes a raw fd it holds.
CloseRaw(fd) ==
  /\ AllowRawFd /\ owner[fd] = "raw"
  /\ CloseFd(fd)
  /\ last' = Outcome("close", "ok")

\* The program removes a socket file (std::fs::remove_file).
Unlink(n) ==
  LET s == bound[n] IN
  /\ s # NoSock
  /\ bound' = [bound EXCEPT ![n] = NoSock]
  /\ sk' = IF sk[s].st = "closed" THEN [sk EXCEPT ![s] = FreeSock] ELSE sk
  /\ last' = Outcome("remove_file", "ok")
  /\ UNCHANGED <<fdOf, owner, wait>>

-----------------------------------------------------------------------------
\* Two slices or buffers whose lengths add up to at most m bytes.
Pairs(m) == {x \in [1 .. 2 -> 0 .. m] : x[1] + x[2] <= m}

(***************************************************************************)
(* A blocked call returns: the kernel wakes the sleeping thread once the  *)
(* socket is readable (a packet or a hang-up), writable (room in the      *)
(* peer's queue, or a hang-up) or has a pending connection, and the       *)
(* syscall then completes as it would have without blocking.              *)
(***************************************************************************)
ConnOf(t) == IF t \in NbTypes THEN "NonblockingUnixSeqpacketConn" ELSE "UnixSeqpacketConn"
Wake(fd) ==
  LET w == wait[fd] IN
  /\ w # NoWait
  /\ wait' = [wait EXCEPT ![fd] = NoWait]
  /\ \/ w.kind = "recv" /\ RecvReady(w.o, fd, w.n)
     \/ w.kind = "send" /\ SendReady(w.o, fd, w.n)
     \/ w.kind = "accept" /\ AcceptReady(w.o, w.o \in NbTypes, ConnOf(w.o), fd)

Next ==
  \/ \E to \in Names : ConnectUnixAddr(to)
  \/ \E from, to \in Names : ConnectFromToUnixAddr(from, to)
  \/ Pair
  \/ \E n \in Names : BindUnixAddr(n) \/ NonblockingBindUnixAddr(n)
  \/ \E n \in PathNames : Unlink(n)
  \/ \E fd \in Fds :
       \/ AcceptUnixAddr(fd) \/ NonblockingAcceptUnixAddr(fd)
       \/ \E n \in 0 .. MaxPacket : Send(fd, n)
       \/ \E sl \in Pairs(MaxPacket) : SendVectored(fd, sl)
       \/ \E c \in 0 .. MaxBuf : Recv(fd, c)
       \/ \E bs \in Pairs(MaxBuf) : RecvVectored(fd, bs)
       \/ ConnTryClone(fd) \/ ListenerTryClone(fd)
       \/ NonblockingConnTryClone(fd) \/ NonblockingListenerTryClone(fd)
       \/ \E b \in BOOLEAN : ConnSetNonblocking(fd, b) \/ ListenerSetNonblocking(fd, b)
       \/ Drop(fd) \/ IntoRawFd(fd) \/ CloseRaw(fd) \/ Wake(fd)
       \/ \E t \in Wrappers : FromRawFd(fd, t)

(***************************************************************************)
(* Weak fairness on each wake-up: a sleeping thread whose wait condition  *)
(* holds is woken by the kernel's wait queue and run by the scheduler.    *)
(* The program's own calls have no fairness: it may stop calling.         *)
(***************************************************************************)
Spec == Init /\ [][Next]_vars /\ \A fd \in Fds : WF_vars(Wake(fd))

-----------------------------------------------------------------------------
(* Properties                                                              *)

Owners == Wrappers \cup {"raw", "none"}
Outcomes == {"ok", "EMFILE", "ENOBUFS", "EADDRINUSE", "ECONNREFUSED", "EPIPE",
             "WouldBlock", "Blocks"}

TypeOK ==
  /\ fdOf \in [Fds -> Socks \cup {NoSock}]
  /\ owner \in [Fds -> Owners]
  /\ bound \in [Names -> Socks \cup {NoSock}]
  /\ \A s \in Socks :
       /\ sk[s].st \in States /\ sk[s].nb \in BOOLEAN /\ sk[s].hup \in BOOLEAN
       /\ sk[s].peer \in Socks \cup {NoSock}
       /\ sk[s].rx \in Seq(0 .. MaxPacket) /\ Len(sk[s].rx) <= RxCap
       /\ sk[s].backlog \in Seq(Socks) /\ Len(sk[s].backlog) <= Backlog
  /\ last.res \in Outcomes /\ last.bytes \in 0 .. MaxPacket
  /\ last.flag \in BOOLEAN /\ last.plen \in -1 .. MaxPacket
  /\ \A fd \in Fds : wait[fd] = NoWait \/ owner[fd] \in Wrappers

(***************************************************************************)
(* Every descriptor the process has open is owned by exactly one Rust     *)
(* value (a wrapper, or the program after into_raw_fd), and every owned   *)
(* descriptor is open on a live socket of the wrapper's kind.  This is    *)
(* what the `?` error paths (the Socket is dropped), into_raw_fd          *)
(* (mem::forget), try_clone (a second fd) and Drop (close of one fd while *)
(* clones keep the socket) must preserve together: a leak, a double      *)
(* close or a wrapper on a dead socket breaks it.                         *)
(***************************************************************************)
FdTableConsistent ==
  \A fd \in Fds :
    /\ (fdOf[fd] = NoSock) = (owner[fd] = "none")
    /\ fdOf[fd] # NoSock => sk[fdOf[fd]].st \in Live
    /\ owner[fd] \in ListenerTypes => sk[fdOf[fd]].st = "listening"
    /\ owner[fd] \in ConnTypes => sk[fdOf[fd]].st = "connected"

(***************************************************************************)
(* A descriptor owned by one of the Nonblocking types is in nonblocking   *)
(* mode: the type docs promise that its operations return WouldBlock     *)
(* instead of blocking, which rests on Socket::new(.., true) in           *)
(* NonblockingUnixSeqpacketListener::bind_unix_addr, on                   *)
(* accept_from(fd, true), and on try_clone sharing the flag.              *)
(***************************************************************************)
NbWrappersNonblocking ==
  \A fd \in Fds : owner[fd] \in NbTypes => sk[fdOf[fd]].nb

(***************************************************************************)
(* NonblockingUnixSeqpacketListener::accept_unix_addr never blocks the    *)
(* caller ("doesn't block if no client connect()ions are pending").       *)
(***************************************************************************)
NbAcceptNeverBlocks ==
  last.op = "NonblockingUnixSeqpacketListener::accept_unix_addr" => last.res # "Blocks"

(***************************************************************************)
(* The docs of recv and recv_vectored: "The returned bool indicates       *)
(* whether the received bytes completed a packet", and the pair() example *)
(* asserts it is true after receiving a whole 5-byte packet.              *)
(***************************************************************************)
RecvBoolMeansCompleted ==
  last.op \in {"recv", "recv_vectored"} /\ last.plen >= 0
    => last.flag = (last.bytes = last.plen)

-----------------------------------------------------------------------------
(* Refinement of SeqpacketChannel                                          *)

(***************************************************************************)
(* The channel a program sees: each socket without its O_NONBLOCK flag,   *)
(* the number of descriptors open on it (each one a handle: a wrapper, a  *)
(* clone, or a raw fd), and the packet the last recv()/recv_vectored()   *)
(* read.  Descriptor numbers, owners and names are hidden.                *)
(***************************************************************************)
ChanOf == [s \in Socks |-> [st |-> sk[s].st, peer |-> sk[s].peer, hup |-> sk[s].hup,
                            rx |-> sk[s].rx, backlog |-> sk[s].backlog]]
GotOf == IF last.op \in {"recv", "recv_vectored"} THEN last.plen ELSE -1
HandlesOf == [s \in Socks |-> Cardinality({fd \in Fds : fdOf[fd] = s})]
Chan == INSTANCE SeqpacketChannel WITH chan <- ChanOf, handles <- HandlesOf, got <- GotOf

(***************************************************************************)
(* The four socket types implement the sequential-packet channel: every   *)
(* method step, through any use of try_clone, into_raw_fd/from_raw_fd,    *)
(* set_nonblocking and Drop of one descriptor among several, is a step of *)
(* SeqpacketChannel or leaves the channel as it was.  recv() reads the    *)
(* oldest packet and removes exactly it; send() never passes the queue    *)
(* bound; try_clone adds a handle and Drop of a handle among several      *)
(* changes no connection; the socket closes as a unit only when its last  *)
(* handle is dropped, and its peer and the clients of its pending         *)
(* connections see the hang-up.                                           *)
(***************************************************************************)
ChannelRefinement == Chan!Spec

-----------------------------------------------------------------------------
(* Liveness                                                                *)

\* No Rust value owns a descriptor of socket p any more (no wrapper, no
\* clone, no raw fd the program holds), and no listener's backlog holds it.
Unreachable(p) ==
  /\ \A g \in Fds : owner[g] = "none" \/ fdOf[g] # p
  /\ \A l \in Socks : \A i \in DOMAIN sk[l].backlog : sk[l].backlog[i] # p

(***************************************************************************)
(* A thread blocked in send or recv on a connection returns once the     *)
(* program has given up every value that owns the peer: Drop of the last *)
(* of its clones, close() of its raw fd, or Drop of the listener holding *)
(* it unaccepted must close the descriptor (impl Drop: close(self.fd)),   *)
(* which hangs the connection up and wakes the sleeper with EOF or EPIPE. *)
(* A Drop that forgets the descriptor leaves the thread asleep for good.  *)
(***************************************************************************)
BlockedConnCallReturns ==
  \A fd \in Fds :
    (wait[fd].kind \in {"recv", "send"} /\ Unreachable(sk[fdOf[fd]].peer))
      ~> wait[fd].kind \notin {"recv", "send"}

=============================================================================
