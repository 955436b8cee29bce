------------------------ MODULE MCSeqpacketSockets ------------------------
(* Instantiation of SeqpacketSockets for TLC: three descriptors, three    *)
(* socket objects (a pair plus a listener, or a connection and its        *)
(* pending server end), one path and one abstract name.                    *)
EXTENDS SeqpacketSockets, TLC

MCFds == {3, 4, 5}
\* Two descriptors: a connection and its accepted server end, or a socket
\* and one clone.
MCFdsTwo == {3, 4}
\* Socket objects are interchangeable: the kernel picks any free one.
SockSymmetry == Permutations(Socks)
=============================================================================
