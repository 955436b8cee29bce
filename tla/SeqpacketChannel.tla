-------------------------- MODULE SeqpacketChannel --------------------------
(***************************************************************************)
(* What the seqpacket socket types of src/seqpacket.rs promise, with no   *)
(* descriptors, wrapper types, O_NONBLOCK or names: sockets that listen,  *)
(* connect through a bounded backlog, and carry packets between the two   *)
(* ends of a connection whole and in order ("sequential-packet").  A      *)
(* socket closes as a unit, when the last handle the program holds on it  *)
(* (a wrapper, a clone of it, or a raw descriptor) goes; its peer and the *)
(* clients of its pending connections see a hang-up.  A socket whose path *)
(* stays in the file system is "closed" until the file is removed.        *)
(*                                                                         *)
(*  - chan: per socket, its state, peer, hang-up flag, queue of packets   *)
(*          received and not yet read (packets are their lengths), and    *)
(*          the backlog of server ends waiting for accept();              *)
(*  - handles: per socket, how many handles the program holds on it;      *)
(*  - got:  the packet the program's last call read, or NoPacket.         *)
(***************************************************************************)
EXTENDS Integers, Sequences

CONSTANTS Socks, NoSock, MaxPacket, RxCap, Backlog

NoPacket == -1
Free == [st |-> "free", peer |-> NoSock, hup |-> FALSE, rx |-> <<>>, backlog |-> <<>>]

VARIABLES chan, handles, got
vars == <<chan, handles, got>>

Init ==
  /\ chan = [s \in Socks |-> Free]
  /\ handles = [s \in Socks |-> 0]
  /\ got = NoPacket

\* The program gets one handle on the new socket s.
Listen(s) ==
  /\ chan[s].st = "free"
  /\ chan' = [chan EXCEPT ![s].st = "listening"]
  /\ handles' = [handles EXCEPT ![s] = 1]
  /\ got' = NoPacket

\* Two fresh ends, connected to each other; the server end v waits in l's
\* backlog, and only the client c is handed to the program.
Connected(c, v) == [Free EXCEPT !.st = "connected", !.peer = v]
Connect(c, v, l) ==
  /\ c # v /\ chan[c].st = "free" /\ chan[v].st = "free"
  /\ chan[l].st = "listening" /\ Len(chan[l].backlog) < Backlog
  /\ chan' = [chan EXCEPT ![c] = Connected(c, v), ![v] = Connected(v, c),
                          ![l].backlog = Append(@, v)]
  /\ handles' = [handles EXCEPT ![c] = 1]
  /\ got' = NoPacket

\* The oldest pending server end is handed to the program.
Accept(l) ==
  /\ chan[l].st = "listening" /\ chan[l].backlog # <<>>
  /\ chan' = [chan EXCEPT ![l].backlog = Tail(@)]
  /\ handles' = [handles EXCEPT ![Head(chan[l].backlog)] = 1]
  /\ got' = NoPacket

PairUp(a, b) ==
  /\ a # b /\ chan[a].st = "free" /\ chan[b].st = "free"
  /\ chan' = [chan EXCEPT ![a] = Connected(a, b), ![b] = Connected(b, a)]
  /\ handles' = [handles EXCEPT ![a] = 1, ![b] = 1]
  /\ got' = NoPacket

\* Another handle on an open socket, sharing everything with the first.
Dup(s) ==
  /\ chan[s].st \in {"listening", "connected"} /\ handles[s] > 0
  /\ handles' = [handles EXCEPT ![s] = @ + 1]
  /\ got' = NoPacket /\ UNCHANGED chan

\* A handle goes while others remain: the socket is untouched.
Release(s) ==
  /\ handles[s] > 1
  /\ handles' = [handles EXCEPT ![s] = @ - 1]
  /\ got' = NoPacket /\ UNCHANGED chan

\* One packet, appended whole to the peer's queue while there is room.
Send(s, n) ==
  /\ chan[s].st = "connected" /\ ~chan[s].hup
  /\ Len(chan[chan[s].peer].rx) < RxCap
  /\ chan' = [chan EXCEPT ![chan[s].peer].rx = Append(@, n)]
  /\ got' = NoPacket /\ UNCHANGED handles

\* The oldest packet is read, and only it.
Recv(s) ==
  /\ chan[s].rx # <<>>
  /\ chan' = [chan EXCEPT ![s].rx = Tail(@)]
  /\ got' = Head(chan[s].rx) /\ UNCHANGED handles

(***************************************************************************)
(* The last handle on s goes and s closes: with it go the server ends in  *)
(* its backlog (which the program holds no handle on); every connected    *)
(* socket whose peer went sees a hang-up.  The ones in `kept` have a path *)
(* file and stay "closed".                                                *)
(***************************************************************************)
Gone(s) == {s} \cup {chan[s].backlog[i] : i \in DOMAIN chan[s].backlog}
Close(s) ==
  /\ chan[s].st \in {"listening", "connected"} /\ handles[s] = 1
  /\ \E kept \in SUBSET Gone(s) :
       chan' = [x \in Socks |->
                  IF x \in Gone(s)
                  THEN IF x \in kept THEN [Free EXCEPT !.st = "closed"] ELSE Free
                  ELSE IF chan[x].st = "connected" /\ chan[x].peer \in Gone(s)
                       THEN [chan[x] EXCEPT !.hup = TRUE]
                       ELSE chan[x]]
  /\ handles' = [handles EXCEPT ![s] = 0]
  /\ got' = NoPacket

\* A socket bound to a path and closed before it listened or connected.
Orphan(s) ==
  /\ chan[s].st = "free"
  /\ chan' = [chan EXCEPT ![s].st = "closed"]
  /\ got' = NoPacket /\ UNCHANGED handles

\* Its file removed, a closed socket is gone.
Reclaim(s) ==
  /\ chan[s].st = "closed"
  /\ chan' = [chan EXCEPT ![s] = Free]
  /\ got' = NoPacket /\ UNCHANGED handles

\* A call that moves no packet and opens or closes no socket.
Call ==
  /\ got' = NoPacket
  /\ UNCHANGED <<chan, handles>>

Next ==
  \/ Call
  \/ \E s \in Socks : Listen(s) \/ Accept(s) \/ Recv(s) \/ Close(s)
                      \/ Dup(s) \/ Release(s)
                      \/ Orphan(s) \/ Reclaim(s)
                      \/ \E n \in 0 .. MaxPacket : Send(s, n)
  \/ \E c, v, l \in Socks : Connect(c, v, l)
  \/ \E a, b \in Socks : PairUp(a, b)

Spec == Init /\ [][Next]_vars

====
