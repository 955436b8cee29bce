--------------------------- MODULE SeqpacketNames ---------------------------
(***************************************************************************)
(* The addresses of the seqpacket socket types, composed with the address *)
(* model: the UnixSocketAddr values the code passes to bind() and         *)
(* connect() through as_raw_general(), the names the Linux kernel stores  *)
(* for them, and what local_unix_addr(), peer_unix_addr() and             *)
(* accept_unix_addr() make of the kernel's reports through new_from_ffi(). *)
(* This is the collaborator contract of spec section 6.                    *)
(*                                                                         *)
(* Per socket: its state, the name the kernel stored (kname), its peer,  *)
(* and the UnixSocketAddr the code bound it with (boundWith, a history    *)
(* variable).  fs maps the path names that exist as socket files to the  *)
(* socket that created them.  Packets, descriptors and blocking are       *)
(* SeqpacketSockets' concern; here a socket is "free" or in use.          *)
(***************************************************************************)
EXTENDS Integers, Sequences, SequencesExt

CONSTANTS SunPathLen, PathOffset, FamilySize, Bytes, NUL, SLASH, AT,
          MaxInputLen, MaxReportedLen, NoAddr,
          Socks, NoSock,
          PathInputs,     \* strings given to bind(path)/connect(path)
          AbstractInputs, \* names given to from_abstract()
          AutobindNames   \* abstract names the kernel may pick in autobind

A == INSTANCE UnixSocketAddr WITH HasAbstract <- TRUE,
       op <- "none", arg <- <<>>, res <- [ok |-> FALSE]

ASSUME NoSock \notin Socks /\ FamilySize = PathOffset

VARIABLES sock, fs, last
vars == <<sock, fs, last>>

NoName == [abs |-> FALSE, name |-> <<>>]
FreeSock == [st |-> "free", kname |-> NoName, peer |-> NoSock, via |-> NoSock,
             boundWith |-> NoAddr]
\* Sockets that hold their name (a closed socket keeps only its path file).
Open == {"listening", "pending", "connected"}

-----------------------------------------------------------------------------
(* The Linux kernel's side (net/unix/af_unix.c), as the calls in          *)
(* helpers.rs reach it.                                                    *)

\* The address bytes a bind()/connect() of `a` hands the kernel.
AddrLen(a) == a.len - PathOffset
\* unix_mkname_bsd(): the path is the C string in the first AddrLen bytes.
CString(a) ==
  LET bs == A!Slice(a.sun_path, 0, AddrLen(a))
      i  == SelectInSeq(bs, LAMBDA x : x = NUL)
  IN  IF i = 0 THEN bs ELSE SubSeq(bs, 1, i - 1)
(***************************************************************************)
(* The name bind()/connect() mean by `a`: an autobind request (len =      *)
(* sizeof(sa_family_t)), "EINVAL" (unix_validate_addr: len <= offset or  *)
(* > sizeof(sockaddr_un), or not AF_UNIX), a path (the C string; the     *)
(* kernel stores strlen + offset + 1), or an abstract name (exact bytes). *)
(***************************************************************************)
KernelName(a) ==
  CASE a.len = PathOffset /\ a.family = A!AF_UNIX -> [kind |-> "autobind"]
    [] a.len <= PathOffset \/ a.len > A!Capacity \/ a.family # A!AF_UNIX
         -> [kind |-> "EINVAL"]
    [] a.sun_path[0] # NUL -> [kind |-> "name", abs |-> FALSE, name |-> CString(a)]
    [] OTHER -> [kind |-> "name", abs |-> TRUE, name |-> A!Slice(a.sun_path, 1, AddrLen(a))]
\* The stored name of a "name" result.
Stored(k) == [abs |-> k.abs, name |-> k.name]

(***************************************************************************)
(* A socket that bound its name itself and so holds it in the abstract    *)
(* name table.  A server end only carries its listener's name (unix_      *)
(* stream_connect copies the address without hashing it).                 *)
(***************************************************************************)
Binder(s, k) == sock[s].st \in Open /\ sock[s].via = NoSock /\ sock[s].kname = k

\* The socket a stored name is bound to.  A path is found through its file.
Holder(k) ==
  IF k.abs
  THEN IF \E s \in Socks : Binder(s, k) THEN CHOOSE s \in Socks : Binder(s, k)
       ELSE NoSock
  ELSE IF k.name \in DOMAIN fs THEN fs[k.name] ELSE NoSock

InUse(k) == Holder(k) # NoSock

(***************************************************************************)
(* unix_getname() into the zeroed sockaddr_un of new_from_ffi(): the      *)
(* stored bytes (a path with its NUL) cut to sun_path, and the full       *)
(* stored length; an unbound socket reports sizeof(sa_family_t).          *)
(***************************************************************************)
Report(k) ==
  LET bytes == IF k.abs THEN <<NUL>> \o k.name ELSE k.name \o <<NUL>>
      buf == [i \in A!PathIdx |-> IF i < Len(bytes) THEN bytes[i + 1] ELSE NUL]
  IN  [fails |-> FALSE, family |-> A!AF_UNIX, sun_path |-> buf,
       len |-> IF k = NoName THEN PathOffset ELSE PathOffset + Len(bytes)]

\* Mutant: local_unix_addr() calling getpeername (ENOTCONN on a listener).
LocalUnixAddrPeer(s) ==
  IF sock[s].peer = NoSock THEN A!Err("CallFailed")
  ELSE A!NewFromFfi(Report(sock[sock[s].peer].kname))
\* local_unix_addr() / peer_unix_addr(): local_addr(fd) / peer_addr(fd).
LocalUnixAddr(s) == A!NewFromFfi(Report(sock[s].kname))
PeerUnixAddr(s) == A!NewFromFfi(Report(sock[sock[s].peer].kname))

FreeSocks == {s \in Socks : sock[s].st = "free"}

\* Names that autobind can still pick.
FreeAutobind == {n \in AutobindNames : ~InUse([abs |-> TRUE, name |-> n])}

Init ==
  /\ sock = [s \in Socks |-> FreeSock]
  /\ fs = <<>>
  /\ last = [op |-> "none", res |-> "ok", addr |-> A!Err("None"), conn |-> NoSock]

\* A call's outcome.
Result(o, r) == [op |-> o, res |-> r, addr |-> A!Err("None"), conn |-> NoSock]

(***************************************************************************)
(* bind_to(fd, a) of a fresh socket `s` (unix_bind): the outcome, and the *)
(* name stored on success ("autobind" picks a free abstract name).        *)
(***************************************************************************)
BindOutcome(a) ==
  LET k == KernelName(a) IN
  CASE k.kind = "EINVAL" -> "EINVAL"
    [] k.kind = "autobind" /\ FreeAutobind = {} -> "ENOSPC"
    [] k.kind = "name" /\ InUse(Stored(k)) -> "EADDRINUSE"
    [] OTHER -> "ok"
BoundNames(a) ==
  IF KernelName(a).kind = "autobind"
  THEN {[abs |-> TRUE, name |-> n] : n \in FreeAutobind}
  ELSE {Stored(KernelName(a))}
\* The file a path bind creates.
WithFile(f, k, s) == IF k.abs THEN f ELSE f @@ (k.name :> s)

(***************************************************************************)
(* bind_unix_addr() of either listener type: Socket::new, bind_to,        *)
(* start_listening; a failed bind drops the socket.                        *)
(***************************************************************************)
BindUnixAddr(a) ==
  \/ /\ FreeSocks = {}
     /\ last' = Result("bind_unix_addr", "ENFILE") /\ UNCHANGED <<sock, fs>>
  \/ /\ FreeSocks # {} /\ BindOutcome(a) # "ok"
     /\ last' = Result("bind_unix_addr", BindOutcome(a)) /\ UNCHANGED <<sock, fs>>
  \/ /\ FreeSocks # {} /\ BindOutcome(a) = "ok"
     /\ \E s \in FreeSocks, k \in BoundNames(a) :
          /\ sock' = [sock EXCEPT ![s] = [FreeSock EXCEPT !.st = "listening",
                                            !.kname = k, !.boundWith = a]]
          /\ fs' = WithFile(fs, k, s)
     /\ last' = Result("bind_unix_addr", "ok")

\* bind(path): from_path(path)? then bind_unix_addr.
Bind(p) ==
  LET r == A!FromPath(p) IN
  \/ /\ ~r.ok /\ last' = Result("bind_unix_addr", r.err) /\ UNCHANGED <<sock, fs>>
  \/ /\ r.ok /\ BindUnixAddr(r.addr)

(***************************************************************************)
(* connect_from_to_unix_addr(from, to) (from = NoAddr: connect_unix_addr): *)
(* Socket::new, bind_to(from)?, connect_to(to)?.  connect() finds the     *)
(* listener by name and creates the server end, which carries the        *)
(* listener's name.  A failed connect leaves a path `from` as a file of a *)
(* closed socket.  The connect looks `to` up in the file table `f` left   *)
(* by the bind of `from`, so a client connecting to its own path finds   *)
(* itself, not listening.                                                  *)
(***************************************************************************)
ConnectOutcome(to, f) ==
  LET k == KernelName(to)
      h == IF k.abs THEN Holder(Stored(k)) ELSE f[k.name]
  IN
  CASE k.kind # "name" -> "EINVAL"
    [] ~k.abs /\ k.name \notin DOMAIN f -> "ENOENT"
    [] h = NoSock -> "ECONNREFUSED"
    [] sock[h].st # "listening" -> "ECONNREFUSED"
    [] OTHER -> "ok"

Connect(o, from, to) ==
  \/ /\ FreeSocks = {}
     /\ last' = Result(o, "ENFILE") /\ UNCHANGED <<sock, fs>>
  \/ \E c \in FreeSocks :
       LET bindRes == IF from = NoAddr THEN "ok" ELSE BindOutcome(from)
       IN
       \/ /\ bindRes # "ok"
          /\ last' = Result(o, bindRes) /\ UNCHANGED <<sock, fs>>
       \/ /\ bindRes = "ok"
          /\ \E k \in IF from = NoAddr THEN {NoName} ELSE BoundNames(from) :
               LET cs == [FreeSock EXCEPT !.kname = k, !.boundWith = from]
                   f == IF k # NoName THEN WithFile(fs, k, c) ELSE fs
                   connRes == IF ConnectOutcome(to, f) # "ok" THEN ConnectOutcome(to, f)
                              ELSE IF FreeSocks = {c} THEN "ENOBUFS" ELSE "ok"
               IN
               /\ fs' = f
               /\ last' = Result(o, connRes)
               /\ \/ /\ connRes # "ok"
                     /\ sock' = IF k # NoName /\ ~k.abs
                                THEN [sock EXCEPT ![c] = [cs EXCEPT !.st = "closed"]]
                                ELSE sock
                  \/ /\ connRes = "ok"
                     /\ \E v \in FreeSocks \ {c} :
                          LET l == Holder(Stored(KernelName(to))) IN
                          sock' = [sock EXCEPT
                            ![c] = [cs EXCEPT !.st = "connected", !.peer = v],
                            ![v] = [FreeSock EXCEPT !.st = "pending", !.peer = c,
                                      !.via = l, !.kname = sock[l].kname,
                                      !.boundWith = sock[l].boundWith]]

ConnectUnixAddr(to) == Connect("connect_unix_addr", NoAddr, to)
ConnectFromToUnixAddr(from, to) == Connect("connect_from_to_unix_addr", from, to)
\* connect(path): from_path(path)? then connect_unix_addr.
ConnectPath(p) ==
  LET r == A!FromPath(p) IN
  \/ /\ ~r.ok /\ last' = Result("connect_unix_addr", r.err) /\ UNCHANGED <<sock, fs>>
  \/ /\ r.ok /\ ConnectUnixAddr(r.addr)

(***************************************************************************)
(* accept_unix_addr() of either listener type: accept_from() returns the *)
(* connection and new_from_ffi() of the client's name as accept4 reports  *)
(* it.                                                                     *)
(***************************************************************************)
\* Mutant: accept_unix_addr() returning the listener's own name.
AcceptUnixAddrLocal(l) ==
  /\ sock[l].st = "listening"
  /\ \E v \in Socks :
       /\ sock[v].st = "pending" /\ sock[v].via = l
       /\ sock' = [sock EXCEPT ![v].st = "connected"]
       /\ last' = [op |-> "accept_unix_addr", res |-> "ok", addr |-> LocalUnixAddr(l),
                   conn |-> v]
  /\ UNCHANGED fs

AcceptUnixAddr(l) ==
  /\ sock[l].st = "listening"
  /\ \E v \in Socks :
       /\ sock[v].st = "pending" /\ sock[v].via = l
       /\ sock' = [sock EXCEPT ![v].st = "connected"]
       /\ last' = [op |-> "accept_unix_addr", res |-> "ok",
                   addr |-> A!NewFromFfi(Report(sock[sock[v].peer].kname)),
                   conn |-> v]
  /\ UNCHANGED fs

\* pair(): two connected unnamed sockets.
Pair ==
  \/ /\ \E a, b \in FreeSocks :
          /\ a # b
          /\ sock' = [sock EXCEPT ![a] = [FreeSock EXCEPT !.st = "connected", !.peer = b],
                                  ![b] = [FreeSock EXCEPT !.st = "connected", !.peer = a]]
     /\ last' = Result("pair", "ok") /\ UNCHANGED fs

\* Drop of a wrapper: the socket closes, with the server ends still in a
\* listener's backlog (unix_release_sock); its path file stays.
Drop(s) ==
  /\ sock[s].st \in {"listening", "connected"}
  /\ sock' = [x \in Socks |->
                IF x = s \/ (sock[x].st = "pending" /\ sock[x].via = s)
                THEN [sock[x] EXCEPT !.st = "closed"] ELSE sock[x]]
  /\ last' = Result("drop", "ok") /\ UNCHANGED fs

\* std::fs::remove_file of a socket file.
Unlink(p) ==
  /\ p \in DOMAIN fs
  /\ fs' = [q \in DOMAIN fs \ {p} |-> fs[q]]
  /\ last' = Result("remove_file", "ok") /\ UNCHANGED sock

-----------------------------------------------------------------------------
\* Addresses the program builds: every from_path/from_abstract result, the
\* unspecified address, and what listeners report as their own name.
Built == {A!FromPath(p).addr : p \in {q \in PathInputs : A!FromPath(q).ok}}
           \cup {A!FromAbstract(n).addr : n \in AbstractInputs}
           \cup {A!NewUnspecified}
Reported == {LocalUnixAddr(l).addr : l \in {x \in Socks : sock[x].st = "listening"
                                                         /\ LocalUnixAddr(x).ok}}

Next ==
  \/ \E a \in Built : BindUnixAddr(a)
  \/ \E p \in PathInputs : Bind(p) \/ ConnectPath(p)
  \/ \E p \in DOMAIN fs : Unlink(p)
  \/ \E to \in Built \cup Reported : ConnectUnixAddr(to)
  \/ \E from \in Built, to \in Built \cup Reported : ConnectFromToUnixAddr(from, to)
  \/ \E s \in Socks : AcceptUnixAddr(s) \/ Drop(s)
  \/ Pair

Spec == Init /\ [][Next]_vars

-----------------------------------------------------------------------------
(* Properties                                                              *)

TypeOK ==
  /\ \A s \in Socks :
       /\ sock[s].st \in {"free", "closed"} \cup Open
       /\ sock[s].peer \in Socks \cup {NoSock} /\ sock[s].via \in Socks \cup {NoSock}
       /\ sock[s].boundWith \in Built \cup {NoAddr}
  /\ \A p \in DOMAIN fs : fs[p] \in Socks
  /\ last.addr.ok => last.addr.addr.len \in FamilySize .. A!Capacity
  /\ last.res \in {"ok", "EINVAL", "ENOSPC", "EADDRINUSE", "ENOENT", "ECONNREFUSED",
                   "ENOBUFS", "ENFILE", "NotFound", "InvalidInput"}

\* What the code promises a socket bound with `a` reports as its name:
\* the same address, or for new_unspecified() an abstract one (autobind,
\* the new_unspecified() doc example); an unbound socket is unnamed (the
\* pair() doc example).
ShowsBinding(r, a) ==
  /\ r.ok
  /\ IF a = NoAddr THEN A!IsUnnamed(r.addr)
     ELSE IF A!IsUnnamed(a) THEN A!IsAbstract(r.addr)
     ELSE A!AddrEq(r.addr, a)

(***************************************************************************)
(* Each socket's name survives the round trip code -> kernel -> code:     *)
(* local_unix_addr() of every open socket, peer_unix_addr() of every      *)
(* connected one, and the address accept_unix_addr() returns, show the    *)
(* address the socket was bound with.  This is where new_from_ffi()'s     *)
(* clamping of a path that fills sun_path (reported as capacity + 1) and  *)
(* its NUL-appending matter.                                               *)
(***************************************************************************)
NamesRoundTrip ==
  /\ \A s \in Socks :
       /\ sock[s].st \in Open => ShowsBinding(LocalUnixAddr(s), sock[s].boundWith)
       /\ sock[s].st = "connected"
            => ShowsBinding(PeerUnixAddr(s), sock[sock[s].peer].boundWith)
  /\ last.op = "accept_unix_addr" =>
       ShowsBinding(last.addr, sock[sock[last.conn].peer].boundWith)

(***************************************************************************)
(* The address a listener reports as its own (local_unix_addr()) names   *)
(* that listener to connect() while its socket file is in place: a client *)
(* given it reaches this listener and no other.                           *)
(***************************************************************************)
ReportedAddrReachesListener ==
  \A l \in Socks :
    LET own == IF sock[l].kname.abs THEN TRUE
               ELSE sock[l].kname.name \in DOMAIN fs /\ fs[sock[l].kname.name] = l
    IN
    sock[l].st = "listening" /\ own
      => LET r == LocalUnixAddr(l)
             k == KernelName(r.addr)
         IN  r.ok /\ k.kind = "name" /\ Holder(Stored(k)) = l

=============================================================================
