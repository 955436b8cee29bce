\* The refinement of SeqpacketChannel: a listener, a connection and its
\* server end on two descriptors, receive queues of two packets so that
\* their order shows, and one sleeping thread.  No symmetry.
CONSTANTS
  Fds <- MCFdsTwo
  Socks = {s1, s2, s3}
  PathNames = {p1}
  AbstractNames = {}
  MaxPacket = 1
  MaxBuf = 1
  RxCap = 2
  Backlog = 1
  AllowRawFd = FALSE
  MaxSleepers = 1
  NoSock = NoSock
  NoName = NoName
SPECIFICATION Spec
PROPERTIES
  ChannelRefinement
