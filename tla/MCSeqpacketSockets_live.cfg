\* Raw fds and a sleeping thread over three descriptors and a socket pair:
\* the peer of a sleeping connection can have a clone or be held as a raw
\* fd.  No symmetry, as the run checks liveness.
CONSTANTS
  Fds <- MCFds
  Socks = {s1, s2}
  PathNames = {}
  AbstractNames = {}
  MaxPacket = 1
  MaxBuf = 1
  RxCap = 1
  Backlog = 1
  AllowRawFd = TRUE
  MaxSleepers = 1
  NoSock = NoSock
  NoName = NoName
SPECIFICATION Spec
INVARIANTS
  
  FdTableConsistent
PROPERTIES
  BlockedConnCallReturns
