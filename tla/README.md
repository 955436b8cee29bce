# TLA+ models of `uds` (Unix-domain socket addresses and seqpacket sockets)

This directory holds TLA+ models of the Rust crate in `src/`. They are checked with
TLC. Every module is written from the source; the map in `PROJECT.json` names the
lines each definition translates.

## 1. Inventory

### Components

| Component | Source | State | Operations |
|---|---|---|---|
| Address value | `addr.rs` 28-66, 154-380, 550-554 | `sockaddr_un` (`sun_family` and the fixed `sun_path` buffer) and `len`, the bytes in use | `new_unspecified`/`Default`, `new`, `from_path`, `from_abstract`, `from_c_str`, `from_std`, `max_path_len`, `max_abstract_len`, `has_abstract_addresses` |
| View and equality | `addr.rs` 68-116, 382-414, 556-582 | none: computed from `(sun_path, len)` | `as_ref()` (`UnixSocketAddrRef::from`), `is_unnamed`/`is_abstract`/`is_path`/`is_absolute_path`/`is_relative_path`, `==`, `Hash`, `== [u8]` |
| FFI round-trip normaliser | `addr.rs` 416-466 | the value under construction, passed by `&mut` to a callback | `new_from_ffi(call)` |
| Raw interop accessors | `addr.rs` 468-547 | none | `from_raw`, `from_raw_unchecked`, `into_raw`, `as_raw(_general)`, `as_raw_mut(_general)` |
| Formatting | `addr.rs` 118-152 | none | `Debug` (`DebugOf`), `Display` (`DisplayOf`) |
| fd ownership | `seqpacket.rs` 15-55 | the owned `RawFd` | `from_raw_fd`, `as_raw_fd`, `into_raw_fd` (forget), `Drop` (close), mio `Evented` |
| `UnixSeqpacketConn` | `seqpacket.rs` 59-199 | fd; in the kernel, the peer's queue of packets and the O_NONBLOCK flag | `connect`, `connect_unix_addr`, `connect_from_to_unix_addr`, `pair`, `local/peer_unix_addr`, `send`, `recv`, `send/recv_vectored`, `try_clone`, `set_nonblocking` |
| `UnixSeqpacketListener` | `seqpacket.rs` 203-259 | fd; in the kernel, the bound name and the backlog | `bind`, `bind_unix_addr` (socket, bind, listen), `local_unix_addr`, `accept_unix_addr`, `try_clone`, `set_nonblocking` |
| Non-blocking conn and listener | `seqpacket.rs` 263-346 | as above, created with O_NONBLOCK | `bind(_unix_addr)`, `accept_unix_addr`, `try_clone`, `local_unix_addr` |
| Socket helpers, ancillary | `helpers.rs`, `ancillary.rs` (not in this tree) | none | `Socket::new/pair/accept_from/try_clone_from`, `bind_to`, `connect_to`, `send_ancillary`, `recv_ancillary` |

### How the components interact

* The socket types (`seqpacket.rs`) build bind and connect targets with the
  address constructors.
* They pass addresses to the kernel through `as_raw_general()`, via `bind_to`
  and `connect_to`.
* They read local and peer names through `new_from_ffi()` wrapped round
  `getsockname`, `getpeername` and `accept`, via `local_addr`, `peer_addr` and
  `accept_from`.
* `==`, `Hash` and `Display` all go through the one view `as_ref()`. The kind
  predicates read the buffer directly. Both are written separately for
  platforms with and without abstract addresses.
* File descriptors move between wrappers and raw integers:
  * `into_raw_fd` forgets the wrapper;
  * `from_raw_fd` adopts an fd;
  * `Drop` closes it;
  * `try_clone` makes a second descriptor that shares the open file
    description, including its O_NONBLOCK flag.

### What is hard here

* **Address value.** Byte-level layout differs by platform:
  * `path_offset()` is 2 on Linux and on BSD/macOS, but `sa_family_t` is 2
    bytes on Linux and 1 on BSD, which puts `sun_len` first;
  * abstract addresses exist only on Linux and Android.

  The length `len` counts the whole structure, while slices index `sun_path`.
  Off-by-one and unit mistakes become slice panics or out-of-bounds reads
  later, when the value is compared or displayed.
* **Kernel quirks.** `new_from_ffi()` must absorb them:
  * a path one byte too long is reported with length `capacity + 1`;
  * a path may or may not come back NUL-terminated;
  * macOS encodes the unnamed address as an all-zero path.
* **Sockets.** The socket types have these hard cases:
  * partial failure between `bind` and `listen` or `connect`;
  * packet truncation on `recv`;
  * descriptors shared after `try_clone`;
  * blocking vs. non-blocking behaviour when the send queue is full;
  * fd ownership across `into_raw_fd`/`from_raw_fd`.

### What makes each component correct

* **Constructors:** the outcomes of spec 4.2, with the view giving back exactly
  the path or name given; `path_offset() <= len <= size_of::<sockaddr_un>()`.
* **View:**
  * total (never panics) on every value the safe API returns;
  * the predicates classify as the view does;
  * `== [u8]` agrees with `new()`'s parsing.
* **Normaliser:**
  * refuses what lost more than one byte or is not AF_UNIX;
  * otherwise returns a value whose view is the name the kernel reported;
  * never returns an unviewable value.
* **Raw accessors:** `from_raw(as_raw_general(a))` gives back `a`.
* **Sockets (planned):**
  * packets arrive whole and in order;
  * `recv`'s flag says whether the packet was complete;
  * a failed constructor closes what it opened;
  * every fd is closed exactly once;
  * a non-blocking wrapper never blocks.

## 2. Modules and how they correspond to the code

| Module | Models | Instantiated for TLC by |
|---|---|---|
| `UnixSocketAddr` | `addr.rs` | `MCUnixSocketAddr` |
| `SeqpacketSockets` | `seqpacket.rs`, with descriptors, owners and packets | `MCSeqpacketSockets` |
| `SeqpacketChannel` | the abstract channel `SeqpacketSockets` refines | through `Chan == INSTANCE ...` in `SeqpacketSockets` |
| `SeqpacketNames` | `seqpacket.rs` naming methods, composed with `UnixSocketAddr` | `MCSeqpacketNames` (three sockets, a 3-byte `sun_path`, the input strings) |

### `UnixSocketAddr.tla` (address value, view, normaliser, raw accessors)

#### Constants

* `SunPathLen` is the size of `sun_path`.
* `PathOffset` is `path_offset()`.
* `FamilySize` is `size_of::<sa_family_t>()`.
* `HasAbstract` is `has_abstract_addresses()`.
* `Bytes` is the byte alphabet: `NUL`, `SLASH` (`'/'`), `AT` (`'@'`) and one
  ordinary byte.
* `MaxInputLen` bounds the inputs.
* `MaxReportedLen` bounds the lengths a raw caller or FFI callback may report.

#### An address

An address is a record `[family, sun_path, len]`, with `sun_path` a function
over `0 .. SunPathLen-1`, exactly as the Rust struct holds it.

#### Operators

Each is a translation of one function:

* `NewUnspecified`, `FromPath`, `FromAbstract`, `New`, `FromCStr`, `FromStd`;
* `AsRef` (a slice past `sun_path` is the `Panic` kind);
* `IsUnnamed` .. `IsPath`;
* `AddrEq`, `EqBytes`, and `DisplayOf` (`Display`: "unnamed", the path, or `@` and the abstract name);
* `NewFromFfi`;
* `FromRaw` (the `copy_from_slice` length check is a `Panic` outcome);
* `FromRawUnchecked`, `AsRawGeneral`.

Errors are `Err(kind)` with the `io::ErrorKind` name. A failing FFI callback is
`CallFailed`, and `from_std`'s `None` is the `None` outcome.

#### State and actions

The state is the client's last call: `op`, its input `arg`, and its outcome
`res`. `Init` is `Default::default()`. There is one action per API call, each
with its input drawn from a small set:

* `Strings`: byte strings up to `MaxInputLen`;
* `CStrs`;
* `StdAddrs`;
* `FfiReports`: every family, every `sun_path` content and every reported length
  `0 .. MaxReportedLen`, plus a failing callback;
* `RawMems`: null or non-null memory with every content and length;
* `UncheckedMems`: inputs meeting `from_raw_unchecked`'s documented
  precondition.

`FromRawOfHeld` hands the held address back through `as_raw_general()` to
`from_raw()`.

#### Reference definitions

These come from the spec, not the code:

* `SpecOutcome` is spec 4.2's table, stated as views.
* `KernelName` reads the name the kernel reported off the buffer, as if one NUL
  followed `sun_path`. A name starting with NUL is the unnamed address where
  there is no abstract namespace.

`MCUnixSocketAddr.tla` gives the constants: `sun_path` of 3 bytes, four byte
values, and the Linux and BSD layouts.

Lines of a few mutant operators (definitions named `...NoClamp`, `...AlwaysNul`,
and so on, each marked `\* Mutant:`) sit in the module just before the definition
they replace. They are the faults the properties are shown to catch (see
`PROJECT.json` "mutants").

### `SeqpacketSockets.tla` (the four socket types over a seqpacket kernel)

`MCSeqpacketSockets.tla` gives the descriptor numbers and the socket symmetry.
The other constants are set in the cfgs.

#### State

| Variable | What it stands for |
|---|---|
| `fdOf` | The process's descriptor table, fd to socket. `try_clone` copies share one socket, and so one O_NONBLOCK flag. |
| `owner` | Which Rust value owns each fd: one of the four wrapper types, the program (`"raw"`, after `into_raw_fd`), or nobody. |
| `sk` | Per socket object: state, `nb` (O_NONBLOCK), `peer`, `hup` (the peer has closed), `rx` (the queue of received packets, as lengths) and `backlog` (pending server ends). |
| `bound` | The name space. A path stays bound to its closed socket until `Unlink`; an abstract name is freed with its socket. |
| `last` | The last call and its result: `bytes`, `flag` and packet length for `recv`. |
| `wait` | Per fd, the thread asleep in a blocking call on it (`Waiting(kind, call, arg)`) or `NoWait`. At most `MaxSleepers` threads sleep at once. |

#### Actions

Each action is one public method, with the helper calls it makes.

* `ConnectUnixAddr`, `ConnectFromToUnixAddr` (both via `Connect`).
  `Socket::new`, then an optional `bind_to(from)`, then `connect_to(to)`. Each
  `?` drops the Socket (`DropFresh`). A full backlog makes the blocking connect
  wait, so the action is disabled until there is room.
* `Pair`, `BindUnixAddr`, `NonblockingBindUnixAddr` (via `BindListener`).
* `AcceptUnixAddr`, `NonblockingAcceptUnixAddr` (via `AcceptFrom`). The
  connection is set nonblocking exactly when `accept_from(fd, true)`. With no
  pending connection, the listener's own flag decides between `WouldBlock` and
  `Blocks`.
* `Send`, `SendVectored` (via `SendPacket`). One packet, or `EPIPE`, or
  `WouldBlock`/`Blocks` on a full peer queue.
* `Recv`, `RecvVectored` (via `RecvPacket`). The head packet is taken whole and
  the part beyond the buffer is dropped. The flag is `message_truncated()`,
  that is MSG_TRUNC. An empty queue after a hang-up is end-of-file.
* `ConnTryClone`, `ListenerTryClone`, `NonblockingConnTryClone`,
  `NonblockingListenerTryClone` (via `TryClone`), `ConnSetNonblocking`,
  `ListenerSetNonblocking` (via `SetNonblocking`; the blocking types only),
  `Drop` (`CloseFd`),
  `IntoRawFd`, `FromRawFd`.
* Two program steps: `CloseRaw` and `Unlink` (`remove_file`).

Some helpers are not in this tree: `helpers.rs` (`Socket::*`, `bind_to`,
`connect_to`) and `ancillary.rs` (`recv_ancillary`, `send_ancillary`,
`message_truncated`). They are modelled from the POSIX calls they wrap and
marked `spec_modelled` in the map:

* the lowest free descriptor;
* EMFILE when the table is full;
* EADDRINUSE, ECONNREFUSED and ENOBUFS;
* the listen backlog;
* MSG_TRUNC.

A call that would block (`accept` with an empty backlog, `send` on a full
peer queue, `recv` on an empty queue with no hang-up, on a blocking socket)
records the outcome `Blocks` and puts its thread to sleep (`Block`):
`wait[fd]` holds the call and its argument. The thread borrows the wrapper,
so `Drop` and `into_raw_fd` of that fd wait until it returns. Other threads
may go on using the socket, its clones and its peer. `Wake(fd)` is the
kernel's wake-up: once the call can complete, it completes exactly as the
non-blocking path would (`AcceptReady`, `SendReady`, `RecvReady`, which the
calls themselves also use), and `wait[fd]` is cleared. A socket set
nonblocking while a thread sleeps on it does not wake that thread: Linux
reads O_NONBLOCK when the call starts.

### `SeqpacketChannel.tla` (what the socket types promise)

This is the abstract specification of the seqpacket component. It has no
descriptors, wrapper types, O_NONBLOCK flags or names. `chan` holds each
socket's state, peer, hang-up flag, packet queue and backlog. `handles` is
the number of handles the program holds on each socket: a wrapper, a clone
of it, or a raw fd. `got` is the packet the last call read. Its actions are
the socket-level events:

* `Listen`, `Connect` through a bounded backlog, `Accept`, and `PairUp`, each
  giving the program one handle on each new socket it returns;
* `Dup`, another handle on an open socket, and `Release`, a handle going
  while others remain: neither changes the socket;
* `Send`: one whole packet onto the peer's queue while there is room;
* `Recv`: the oldest packet, and only it, is removed and returned;
* `Close` of a socket when its last handle goes, together with the server
  ends in its backlog, with a hang-up for their peers;
* `Orphan`/`Reclaim` of a socket kept by its path file;
* `Call`, any call that moves no packet.

`SeqpacketSockets` maps onto it with `Chan == INSTANCE SeqpacketChannel WITH
chan <- ChanOf, handles <- HandlesOf, got <- GotOf`. `ChanOf` is `sk` without
`nb`. `HandlesOf` counts the descriptors open on each socket. `GotOf` is the
packet length that the last `recv`/`recv_vectored` returned. Then `try_clone`
must be a `Dup` step, and a `Drop` or raw `close` of one descriptor among
several must be a `Release` step. `into_raw_fd`, `from_raw_fd` and
`set_nonblocking` must be `Call` steps. A close of a socket that a clone
still uses matches no step.

### `SeqpacketNames.tla` (addresses through the Linux name space)

This module composes the two components. It instantiates `UnixSocketAddr`
with `A == INSTANCE UnixSocketAddr WITH HasAbstract <- TRUE, ...`, so every
address is the record of bytes and length that the address module builds, and
every name the crate reads back passes through `A!NewFromFfi`. Descriptors
and packets are left to `SeqpacketSockets`. Here a socket is only its state and
the name the kernel stored for it.

| Variable | What it stands for |
|---|---|
| `sock` | Per socket object: state (`free`, `listening`, `pending`, `connected`, `closed`), the kernel's stored name `kname`, `peer`, the listener a pending server end came `via`, and `boundWith`, the `UnixSocketAddr` the program bound it with. |
| `fs` | The socket files in the file system: path to the socket that created it. |
| `last` | The last call, its result, the address it returned and the connection `accept` returned. |

The Linux side is written from `af_unix.c` and marked `spec_modelled`:

* **`KernelName`.** `len = offset` asks for autobind. `len <= offset` or
  `len > sizeof(sockaddr_un)` is EINVAL. A path is the C string in
  `sun_path`, and an abstract name is the bytes after the NUL marker.
* **`BindOutcome`/`BoundNames`.** EADDRINUSE through `Holder`, and ENOSPC when
  no autobind name is free. A path is held by the socket its file points to.
  An abstract name is held by the open socket that bound it (`Binder`):
  `unix_bind` hashes it in the name table. A server end created by
  `connect` copies the listener's name but is never hashed, so it holds
  nothing.
* **`ConnectOutcome`.** ENOENT for a missing file, and ECONNREFUSED for a file
  or name whose socket is not listening. It looks `to` up after `from` is
  bound, so a client connecting to its own path gets ECONNREFUSED.
* **`Report`.** What `getsockname`/`getpeername`/`accept4` write into
  `new_from_ffi`'s zeroed buffer: a path with its NUL (`strlen + offset + 1`,
  which is `capacity + 1` for a path that fills `sun_path`), an abstract name
  as stored, and `len = offset` for an unbound socket.

Each action is one method:

* `Bind` (`bind(path)`: `from_path(path)?` then `bind_unix_addr`) and
  `BindUnixAddr` (socket, bind, listen). A failed bind drops the socket.
* `ConnectPath`, `ConnectUnixAddr` and `ConnectFromToUnixAddr` (via
  `Connect`). A failed connect after a successful bind of a path `from` leaves
  that file behind, on a closed socket.
* `AcceptUnixAddr` returns the client's name as `new_from_ffi` reads it.
  `Pair` makes two unnamed sockets. `Drop` closes a socket, and with a
  listener the server ends still pending in its backlog
  (`unix_release_sock`). `Unlink`
  (`remove_file`) removes a file.

The inputs are every result of `from_path`, `from_abstract` and
`new_unspecified` over small byte strings. A client may also connect to any
address a listener reports through `local_unix_addr`.

## 3. Runs

| Run | Config | Expect | What it shows |
|---|---|---|---|
| `addr_linux` | `MCUnixSocketAddr_linux.cfg` | pass | The seven properties below hold on the Linux layout for every input of the bounded sets (4006 states). |
| `addr_bsd` | `MCUnixSocketAddr_bsd.cfg` | pass | Without abstract addresses the constructors still meet spec 4.2 and refuse abstract names. |
| `addr_raw_roundtrip` | `..._raw_roundtrip.cfg` | violation | `from_raw(as_raw_general(&new_unspecified()))` panics. |
| `addr_bsd_kinds` | `..._bsd_kinds.cfg` | violation | macOS's all-zero unnamed address is `is_unnamed()` but views as Abstract. |
| `addr_bsd_ffi_bounds` | `..._bsd_ffi_bounds.cfg` | violation | `new_from_ffi()` returns a NUL-led value longer than `sockaddr_un`, and its view panics. |
| `addr_bsd_unspecified_len` | `..._bsd_unspecified_len.cfg` | violation | `new_unspecified()` has `len` 1 < `path_offset()` 2. |
| `seq_safe_api` | `MCSeqpacketSockets.cfg` | pass | Through the safe API, with no thread asleep (`MaxSleepers = 0`), every error path closes what it opened, clones keep their socket alive, and the Nonblocking types stay nonblocking (868,617 states, about 2 min). |
| `seq_recv_flag` | `MCSeqpacketSockets_recv_flag.cfg` | violation | `recv()` returns false for a packet received whole: the flag is `message_truncated()`, not "completed a packet" as documented. |
| `names_linux` | `MCSeqpacketNames.cfg` | pass | Addresses built by the constructors go through Linux bind, connect, getsockname and accept. They come back through `new_from_ffi` equal to the address bound, and a listener's reported name leads back to that listener (24,948 states, 12 s). |
| `seq_wake` | `MCSeqpacketSockets_wake.cfg` | pass | Every behaviour, including the completion of a blocked call (`Wake`), is a behaviour of `SeqpacketChannel` under the mapping (`ChannelRefinement`): receive queues of two packets are read oldest first, and clones and drops of one handle among several change no connection (429,940 states, about 2 min). |
| `seq_live` | `MCSeqpacketSockets_live.cfg` | pass | A socket pair on three fds, with clones, raw fd moves and a thread asleep in a blocking call. Every open fd has exactly one owner (`FdTableConsistent`). Under weak fairness of the wake-ups, a `recv` or `send` blocked on a connection returns once the program has given up every value that owns the peer (`BlockedConnCallReturns`). 692,814 states, about 2.5 min. |
| `seq_nb_shared_flag` | `MCSeqpacketSockets_nb_raw.cfg` | violation | In 6 steps a `NonblockingUnixSeqpacketListener`'s `accept` blocks: its clone, rewrapped as a `UnixSeqpacketListener`, turns the shared O_NONBLOCK off. |

### Properties

* **`OkAddrViewable`:** everything handed out is AF_UNIX, and its view does not
  panic.
* **`KindPredicatesAgree`:** the predicates classify as the view does.
* **`ConstructorsMatchSpec`:** `new`, `from_path`, `from_abstract` and
  `from_c_str` have exactly spec 4.2's outcomes, with the view giving back the
  input.
* **`FfiMatchesKernelName`:** the normaliser returns the name the kernel
  reported, or `InvalidData` exactly when the report lost more than one byte or
  the family is wrong. Abstract reports are compared too, so the refusal of
  an abstract name longer than `sun_path` is checked. Path reports with a
  NUL before their end are left out: no kernel makes them.
* **`SafeConstructorsKeepLenInvariant`:** spec 3's
  `offset <= len <= size_of::<sockaddr_un>()` holds for safe constructors.
* **`NewEqualsUnescapedInput`:** `new(s) == s`, with `'@'` unescaped to NUL.
* **`RawRoundTrip`:** `from_raw` of `as_raw_general` gives back an equal value.
* **`FdTableConsistent`:** every open fd has exactly one owner, and every
  owned fd is open on a live socket of the wrapper's kind. A leaked fd on an
  error path breaks it, and so do a double close, an `into_raw_fd` that still
  closes, and a `Drop` that tears down a socket a clone still uses.
* **`NbWrappersNonblocking`:** an fd owned by a Nonblocking type is in
  nonblocking mode.
* **`NbAcceptNeverBlocks`:** the nonblocking listener's `accept_unix_addr`
  never blocks. Through the safe API this follows from
  `NbWrappersNonblocking`. The property is checked where it can fail, with raw
  fd moves (`seq_nb_shared_flag`), and it is violated there.
* **`NamesRoundTrip`:** `local_unix_addr()` of every open socket,
  `peer_unix_addr()` of every connected one, and the address that
  `accept_unix_addr()` returns for the connection it accepted, all equal (by
  `==`) the address that socket was bound with. For `new_unspecified()` the
  name is abstract (autobind), and for a socket never bound it is unnamed.
  This is where the clamp of `capacity + 1` and the appended NUL of
  `new_from_ffi` meet the kernel.
* **`ReportedAddrReachesListener`:** while a listener's socket file is in
  place, the address it reports for itself is one that Linux accepts in
  `connect()`, and it names that listener.
* **`ChannelRefinement`:** `SeqpacketSockets` implements `SeqpacketChannel`.
  A `recv` reads the oldest packet and removes it. A `send` appends one packet
  within the queue bound. `try_clone`, `into_raw_fd`, `from_raw_fd`,
  `set_nonblocking`, and the `Drop` of a descriptor among several, never
  change a connection. A socket closes only with its last handle, and its
  close hangs up exactly the peers of the sockets that go.
* **`BlockedConnCallReturns`:** a thread asleep in `recv` or `send` on a
  connection returns (with EOF or EPIPE) once no Rust value owns the peer any
  more: every clone is dropped and every raw fd closed. It is `Drop`'s
  `close(self.fd)` of the last one that hangs the connection up. A `Drop`
  that forgets its descriptor leaves the thread asleep forever.
* **`RecvBoolMeansCompleted`:** the documented meaning of `recv`'s bool.
  Violated.

### Bounds

`sun_path` of 3 bytes, and not 108, is enough because every branch in the code
depends only on these cases:

* a length below, at or above `path_offset()`;
* a path shorter than, equal to or longer than `sun_path`;
* a reported length of `capacity`, `capacity + 1` or `capacity + 2`;
* whether the first and last bytes are NUL.

All of them occur with 3 bytes:

* paths of 1, 2, 3 and 4 bytes;
* abstract names of 0 to 3 bytes;
* reported lengths 0 to 7 against a capacity of 5.

The one place the real size matters is the `from_raw` panic. It needs
`len != size_of(sun_path)`, which holds for every valid length except one at
any size.

For `SeqpacketSockets`:

* **Three fds and three socket objects.** Enough for a pair plus a listener, or
  a listener, a client and its pending server end. Also enough for a socket and
  two clones, and to reach EMFILE, ENOBUFS and a path bound to a closed socket.
* **One path and one abstract name.** These give both close behaviours.
* **Packets of 0 to 2 bytes against buffers of 0 or 1 byte.** Enough for an
  empty packet, an exact fit and a truncation.
* **A receive queue of 1 and a backlog of 1.** Enough to make a send and a
  connect meet a full queue. The refinement run uses a queue of 2, where the
  order of packets shows.
* **The refinement run (`seq_wake`).** Two fds, three socket objects, one
  path, packets of at most 1 byte, one sleeping thread, no symmetry, and
  receive queues of two packets. With two packets queued, a `recv` that took
  the newest would show. Two fds are enough for a listener and a client whose
  server end waits in its backlog, or for a socket and its clone. Raw fd
  moves are left to `seq_live`: with them this run takes over 4 minutes
  (1.1M states). Packet length does not change which abstract action a step
  maps to.
* **The liveness run (`seq_live`).** Three fds, a socket pair and no names,
  raw fd moves allowed, one sleeping thread, and no symmetry (TLC's symmetry
  reduction is not sound for liveness). Three fds let the peer of the
  sleeping end have a clone or a raw copy, so the property is about the last
  of several handles. A listener and a path on top of that pass 800,000
  states within 2 minutes and keep growing, so a peer left unaccepted in a
  backlog is outside this run.
* **The safe-API run.** `MaxSleepers = 0`: blocking calls are covered by
  `seq_wake` and `seq_live`, and sleepers on three fds multiply this run past 2M states.

For `SeqpacketNames`:

* **Three sockets.** Enough for a listener, a client and its server end, or
  for a second listener racing for a name.
* **`sun_path` of 3 bytes.** The paths are empty, 1 and 2 bytes, 3 bytes (it
  fills `sun_path`, so Linux reports `capacity + 1`), 4 bytes (too long), and
  one with a NUL inside. The abstract names are of 0 to 2 bytes.
* **One autobind name.** A second autobind gets ENOSPC.

### Fairness

`SeqpacketSockets`'s `Spec` is `Init /\ [][Next]_vars /\ \A fd \in Fds :
WF_vars(Wake(fd))`. Weak fairness on `Wake` stands for the kernel and the
scheduler: a thread asleep on a socket's wait queue is woken when the
condition it waits for arises (a packet, room, a hang-up, a pending
connection), and the scheduler runs it. The condition can be taken away
again (another thread reads the packet or accepts the connection first), so
only a condition that stays true (a hang-up) is guaranteed to be seen; that
is what `BlockedConnCallReturns` uses. The program's own calls have no
fairness: nothing in the crate makes a program call anything, so no progress
that needs another call (a `send` to end a `recv`) is claimed.

The address component is a set of synchronous pure functions (spec 5), and
`SeqpacketNames` and `SeqpacketChannel` have no fairness. The refinement of
`SeqpacketChannel` is checked as a safety property.

## 4. Not modelled, and why

* **The U+FFFD replacement in `Debug` and `Display`.** `Debug` (`DebugOf`)
  and `Display` (`DisplayOf`) are modelled over ASCII bytes, where
  `to_string_lossy` and `Path::display` change nothing.
* **mio `Evented`.** It forwards the fd to mio's `EventedFd` and keeps no state
  of this crate. The registration lives in mio's `Poll` and the kernel's epoll
  set. The hazard it leaves is listed at `seqpacket.rs:43`: a `Drop` without
  `deregister`, while a `try_clone` copy keeps the socket open.
* **`as_raw_mut`, `as_raw`, `into_raw`.** They expose the value and change
  nothing. The `as_raw_mut_general` write-back is modelled inside `new_from_ffi`,
  and arbitrary unsafe writes are modelled by `from_raw_unchecked`.
* **Socket helpers and ancillary messages.** `helpers.rs` and `ancillary.rs` are
  not in this tree. The calls `seqpacket.rs` makes are modelled from the POSIX
  semantics they wrap. Passing fds in ancillary data is not modelled.
* **`as_raw_fd`.** It only reads. `local_unix_addr` and `peer_unix_addr`
  are modelled in `SeqpacketNames`, where what they return matters.
* **`listen()` failure.** A freshly bound AF_UNIX seqpacket socket has no
  failure cause to model.
* **Threads.** A thread appears only while it sleeps in a blocking call
  (`wait`). Otherwise each call is one atomic step: the kernel makes each call
  atomic with respect to the others, and the crate holds no shared memory
  state of its own. A connect on a full backlog waits without a sleeper
  (the action is disabled).

## 5. Plan

1. **Done: `UnixSocketAddr` + `MCUnixSocketAddr`.** This is the core the spec
   names, and the source of every finding so far.
2. **Done (first part): `SeqpacketSockets` + `MCSeqpacketSockets`.** Every
   state-changing method of the four types.

   Left for later sittings:
   * a history of sent and received packets, with per-connection order and
     no-duplication properties;
   * done: threads asleep in blocking calls, with liveness of a blocked
     `recv`/`send` after a hang-up (`seq_live`).
3. **Done: `SeqpacketChannel.tla`.** An abstract specification of a connected pair:
   a reliable, ordered, packet-preserving channel. `SeqpacketSockets` is shown
   to implement it by `INSTANCE ... WITH` a refinement mapping from the
   kernel's queues, checked as a `PROPERTY`.
4. **Done on Linux (`SeqpacketNames`): address round trip through the kernel.** A `bind` followed by
   `local_unix_addr()`, on the Linux kernel model (paths stored as
   `strlen + 1`, autobind for the unspecified address) and on BSD. The address
   read back must equal the one bound, or be abstract after autobind.
